---------------------------- MODULE JobRunsProofs ----------------------------
(****************************************************************************)
(* Proofs about JobRuns, for any number of runs, tasks, heads, cancels,     *)
(* lost connections and crashes: facts about the operators on job runs,     *)
(* what a run's row may become, and what the node asks the outside world    *)
(* for and the results it has.                                              *)
(****************************************************************************)
EXTENDS JobRuns, SequenceTheorems, WellFoundedInduction, TLAPS

----------------------------------------------------------------------------
(* Job runs, whatever holds them.                                           *)

\* The first task that can start exists if any can: NextTaskRun is one of the
\* startable tasks, and every earlier task cannot start.
LEMMA NextTaskRunIsFirst ==
    ASSUME NEW run, TasksRemain(run)
    PROVE  /\ NextTaskRun(run) \in Startable(run)
           /\ NextTaskRun(run) \in Tasks
           /\ CanStart(run.task[NextTaskRun(run)].status)
           /\ \A j \in Startable(run) : NextTaskRun(run) <= j
<1>1. Startable(run) \subseteq Nat /\ Startable(run) # {}
  BY TaskCountAssumption DEF TasksRemain, Startable, Tasks
<1>2. PICK i \in Startable(run) : \A j \in Startable(run) : <<j, i>> \notin OpToRel(<, Nat)
  BY <1>1, WFMin, NatLessThanWellFounded, Zenon
<1>3. \A j \in Startable(run) : ~(j < i)
  BY <1>1, <1>2, Zenon DEF OpToRel
<1>4. \A j \in Startable(run) : i <= j
  BY <1>1, <1>3
<1>5. NextTaskRun(run) \in Startable(run) /\ \A j \in Startable(run) : NextTaskRun(run) <= j
  BY <1>2, <1>4, Zenon DEF NextTaskRun
<1> QED
  BY <1>5 DEF Startable

\* The setters keep a job run a job run.
LEMMA SetStatusType ==
    ASSUME NEW run \in JobRun, NEW s \in RunStatuses
    PROVE  SetStatus(run, s) \in JobRun
BY DEF SetStatus, JobRun, RunStatuses

LEMMA SetTaskType ==
    ASSUME NEW run \in JobRun, NEW i \in Tasks, NEW s \in RunStatuses
    PROVE  SetTask(run, i, s) \in JobRun
BY DEF SetTask, JobRun, TaskRun

LEMMA PauseAtType ==
    ASSUME NEW run \in JobRun, NEW i \in Tasks, NEW s \in RunStatuses
    PROVE  PauseAt(run, i, s) \in JobRun
BY SetTaskType DEF PauseAt, JobRun

LEMMA ApplyOutputType ==
    ASSUME NEW run \in JobRun, NEW i \in Tasks, NEW out \in RunOutputs
    PROVE  ApplyOutput(run, i, out) \in JobRun
<1> DEFINE data == IF out.status = "errored" THEN run.task[i].data ELSE out.data
           new  == [run EXCEPT !.task[i] = [status |-> out.status, data |-> data]]
<1>1. data \in Data
  BY DEF JobRun, TaskRun, RunOutputs
<1>2. new \in JobRun
  BY <1>1 DEF JobRun, TaskRun, RunOutputs
<1> QED
  BY <1>2, SetStatusType DEF ApplyOutput, RunOutputs

LEMMA ApplyBridgeRunResultType ==
    ASSUME NEW run \in JobRun, NEW i \in Tasks, NEW result \in RunOutputs
    PROVE  ApplyBridgeRunResult(run, i, result) \in JobRun
<1>1. [run EXCEPT !.task[i] = result] \in JobRun
  BY DEF JobRun, TaskRun, RunOutputs
<1> QED
  BY <1>1, SetStatusType DEF ApplyBridgeRunResult, RunOutputs

LEMMA CancelRunType ==
    ASSUME NEW run \in JobRun
    PROVE  CancelRun(run) \in JobRun
<1>1. "cancelled" \in RunStatuses
  BY DEF RunStatuses
<1> QED
  BY <1>1, NextTaskRunIsFirst, SetTaskType, SetStatusType DEF CancelRun

LEMMA ConfirmingUpdateType ==
    ASSUME NEW run \in JobRun, NEW head \in Nat, NEW onMainChain
    PROVE  ConfirmingUpdate(run, head, onMainChain) \in JobRun
<1> DEFINE seen == [run EXCEPT !.observed = head]
<1>1. {"errored", "pending_confirmations", "in_progress"} \subseteq RunStatuses
  BY DEF RunStatuses, PendingStatuses
<1>2. seen \in JobRun
  BY DEF JobRun
<1>3. [seen EXCEPT !.status = "in_progress"] \in JobRun
  BY <1>1, <1>2 DEF JobRun
<1>4. ASSUME NEW i \in Tasks
      PROVE  validateMinimumConfirmations(seen, i, onMainChain) \in JobRun
  BY <1>1, <1>2, <1>3, PauseAtType, SetTaskType, SetStatusType DEF validateMinimumConfirmations
<1> QED
  BY <1>1, <1>4, NextTaskRunIsFirst, SetStatusType DEF ConfirmingUpdate

LEMMA ConnectingUpdateType ==
    ASSUME NEW run \in JobRun
    PROVE  ConnectingUpdate(run) \in JobRun
<1>1. {"errored", "in_progress"} \subseteq RunStatuses
  BY DEF RunStatuses
<1> QED
  BY <1>1, NextTaskRunIsFirst, PauseAtType, SetStatusType DEF ConnectingUpdate

LEMMA PendingUpdateType ==
    ASSUME NEW run \in JobRun, NEW result \in RunOutputs
    PROVE  PendingUpdate(run, result) \in JobRun
<1>1. "errored" \in RunStatuses
  BY DEF RunStatuses
<1>2. [run EXCEPT !.request = Merge(@, result.data)] \in JobRun
  BY DEF JobRun, RunOutputs, Merge
<1> QED
  BY <1>1, <1>2, NextTaskRunIsFirst, ApplyBridgeRunResultType, SetStatusType DEF PendingUpdate

LEMMA NewRunType ==
    ASSUME NEW h \in Nat \cup {NoHeight}, NEW valid \in BOOLEAN
    PROVE  NewRun(h, valid) \in JobRun
<1> DEFINE run == [ status     |-> "in_progress",
                    task       |-> [i \in Tasks |-> [status |-> "unstarted", data |-> NoData]],
                    request    |-> NoData,
                    creation   |-> h,
                    observed   |-> h,
                    finishedAt |-> FALSE ]
<1>1. run \in JobRun
  BY TaskCountAssumption DEF JobRun, TaskRun, RunStatuses, Data, NoData
<1>2. "errored" \in RunStatuses
  BY DEF RunStatuses
<1> QED
  BY <1>1, <1>2, SetStatusType DEF NewRun

----------------------------------------------------------------------------
(* A run in progress has a task that is not completed: what the run manager *)
(* writes keeps this, and so does what the executor writes.                 *)

Incomplete(run) == \E i \in Tasks : run.task[i].status # "completed"

InProgressHasWork(run) == run.status = "in_progress" => Incomplete(run)

\* setStatus says in_progress only if it is told to, or in place of completed
\* while tasks remain.
LEMMA SetStatusInProgress ==
    ASSUME NEW run \in JobRun, NEW s \in RunStatuses
    PROVE  /\ SetStatus(run, s).task = run.task
           /\ SetStatus(run, s).status = "in_progress" =>
                 s = "in_progress" \/ (s = "completed" /\ TasksRemain(run))
BY DEF SetStatus, JobRun

\* What the executor's copy is after a task has answered.
LEMMA ApplyOutputResult ==
    ASSUME NEW run \in JobRun, NEW i \in Tasks, NEW out \in RunOutputs
    PROVE  LET new == ApplyOutput(run, i, out) IN
           /\ new.task[i].status = out.status
           /\ \A j \in Tasks \ {i} : new.task[j] = run.task[j]
           /\ Runnable(new.status) => Runnable(out.status)
           /\ new.status = "in_progress" =>
                 out.status = "in_progress" \/ (out.status = "completed" /\ TasksRemain(new))
<1> DEFINE data == IF out.status = "errored" THEN run.task[i].data ELSE out.data
           set  == [run EXCEPT !.task[i] = [status |-> out.status, data |-> data]]
           new  == SetStatus(set, out.status)
<1>1. out.status \in RunStatuses /\ data \in Data
  BY DEF RunOutputs, JobRun, TaskRun
<1>2. set \in JobRun /\ set.task[i].status = out.status
      /\ \A j \in Tasks \ {i} : set.task[j] = run.task[j]
  BY <1>1 DEF JobRun, TaskRun
<1>3. ApplyOutput(run, i, out) = new
  BY DEF ApplyOutput
<1> HIDE DEF set
<1>4. new.task = set.task
      /\ (new.status = "in_progress" =>
             out.status = "in_progress" \/ (out.status = "completed" /\ TasksRemain(set)))
  BY <1>1, <1>2, SetStatusInProgress
<1>5. new.status = out.status \/ out.status = "completed"
  BY <1>1, <1>2 DEF SetStatus, JobRun
<1>6. Runnable("completed")
  BY DEF Runnable, Pending, PendingStatuses
<1>7. TasksRemain(new) = TasksRemain(set)
  BY <1>4 DEF TasksRemain, Startable
<1> HIDE DEF new
<1> QED
  BY <1>2, <1>3, <1>4, <1>5, <1>6, <1>7

LEMMA TasksRemainIncomplete ==
    ASSUME NEW run, TasksRemain(run)
    PROVE  Incomplete(run)
BY DEF TasksRemain, Startable, CanStart, Pending, PendingStatuses, Incomplete

LEMMA ConfirmingHasWork ==
    ASSUME NEW run \in JobRun, NEW head \in Nat, NEW onMainChain
    PROVE  InProgressHasWork(ConfirmingUpdate(run, head, onMainChain))
<1> DEFINE seen == [run EXCEPT !.observed = head]
           i    == NextTaskRun(seen)
<1>1. {"errored", "pending_confirmations", "in_progress"} \subseteq RunStatuses
  BY DEF RunStatuses, PendingStatuses
<1>2. seen \in JobRun /\ seen.task = run.task
  BY DEF JobRun
<1>3. TasksRemain(seen) = TasksRemain(run) /\ NextTaskRun(seen) = NextTaskRun(run)
  BY <1>2 DEF TasksRemain, NextTaskRun, Startable
<1>4. CASE ~TasksRemain(run)
  BY <1>1, <1>4, SetStatusInProgress DEF ConfirmingUpdate, InProgressHasWork
<1>5. CASE TasksRemain(run)
  <2>1. i \in Tasks
    BY <1>3, <1>5, NextTaskRunIsFirst
  <2>2. Incomplete(seen)
    BY <1>3, <1>5, TasksRemainIncomplete
  <2>3. PauseAt(seen, i, "pending_confirmations").status # "in_progress"
    BY <1>1, <1>2, <2>1, SetTaskType DEF PauseAt, JobRun
  <2>4. SetStatus(SetTask(seen, i, "errored"), "errored").status # "in_progress"
    BY <1>1, <1>2, <2>1, SetTaskType, SetStatusInProgress
  <2>5. Incomplete([seen EXCEPT !.status = "in_progress"])
    BY <2>2 DEF Incomplete, JobRun
  <2> HIDE DEF seen, i
  <2> QED
    BY <1>5, <1>3, <2>3, <2>4, <2>5
       DEF ConfirmingUpdate, validateMinimumConfirmations, InProgressHasWork, seen, i
<1> QED
  BY <1>4, <1>5

LEMMA ConnectingHasWork ==
    ASSUME NEW run \in JobRun
    PROVE  InProgressHasWork(ConnectingUpdate(run))
<1>1. {"errored", "in_progress"} \subseteq RunStatuses
  BY DEF RunStatuses
<1>2. CASE ~TasksRemain(run)
  BY <1>1, <1>2, SetStatusInProgress DEF ConnectingUpdate, InProgressHasWork
<1>3. CASE TasksRemain(run)
  <2> DEFINE i == NextTaskRun(run)
  <2>1. i \in Tasks
    BY <1>3, NextTaskRunIsFirst
  <2>2. PauseAt(run, i, "in_progress").task[i].status = "in_progress"
    BY <2>1 DEF PauseAt, SetTask, JobRun, TaskRun
  <2> QED
    BY <1>3, <2>1, <2>2 DEF ConnectingUpdate, InProgressHasWork, Incomplete
<1> QED
  BY <1>2, <1>3

\* Whatever status a result carries, writing it into task i leaves work for a
\* run that goes on: task i itself or one that can still start.
LEMMA ResultHasWork ==
    ASSUME NEW run \in JobRun, NEW i \in Tasks, NEW result \in RunOutputs,
           run.task[i].status = result.status
    PROVE  InProgressHasWork(SetStatus(run, result.status))
<1> DEFINE new == SetStatus(run, result.status)
<1>1. result.status \in RunStatuses
  BY DEF RunOutputs
<1>2. /\ new.task = run.task
      /\ new.status = "in_progress" =>
            result.status = "in_progress" \/ (result.status = "completed" /\ TasksRemain(run))
  BY <1>1, SetStatusInProgress
<1> HIDE DEF new
<1>3. CASE result.status = "in_progress"
  BY <1>2, <1>3 DEF InProgressHasWork, Incomplete, new
<1>4. CASE TasksRemain(run)
  BY <1>2, <1>4, TasksRemainIncomplete DEF InProgressHasWork, Incomplete, new
<1> QED
  BY <1>2, <1>3, <1>4 DEF InProgressHasWork, new

LEMMA PendingHasWork ==
    ASSUME NEW run \in JobRun, NEW result \in RunOutputs
    PROVE  InProgressHasWork(PendingUpdate(run, result))
<1> DEFINE merged == [run EXCEPT !.request = Merge(@, result.data)]
           i      == NextTaskRun(run)
           new    == [merged EXCEPT !.task[i] = result]
<1>1. merged \in JobRun
  BY DEF JobRun, RunOutputs, Merge
<1>2. CASE ~TasksRemain(run)
  <2>1. "errored" \in RunStatuses
    BY DEF RunStatuses
  <2> QED
    BY <1>2, <2>1, SetStatusInProgress DEF PendingUpdate, InProgressHasWork
<1>3. CASE TasksRemain(run)
  <2>1. i \in Tasks
    BY <1>3, NextTaskRunIsFirst
  <2>2. new \in JobRun /\ new.task[i].status = result.status
    BY <1>1, <2>1 DEF JobRun, TaskRun, RunOutputs
  <2>3. InProgressHasWork(SetStatus(new, result.status))
    BY <2>1, <2>2, ResultHasWork
  <2>4. TasksRemain(merged) = TasksRemain(run) /\ NextTaskRun(merged) = i
    BY DEF TasksRemain, NextTaskRun, Startable, JobRun
  <2>5. PendingUpdate(run, result) = SetStatus(new, result.status)
    BY <1>3, <2>4 DEF PendingUpdate, ApplyBridgeRunResult
  <2> QED
    BY <2>3, <2>5
<1> QED
  BY <1>2, <1>3

LEMMA NewRunHasWork ==
    ASSUME NEW h \in Nat \cup {NoHeight}, NEW valid \in BOOLEAN
    PROVE  /\ InProgressHasWork(NewRun(h, valid))
           /\ NewRun(h, valid).status = IF valid THEN "in_progress" ELSE "errored"
<1>1. \A i \in Tasks : NewRun(h, valid).task[i].status = "unstarted"
  BY DEF NewRun, SetStatus
<1>2. 1 \in Tasks
  BY TaskCountAssumption DEF Tasks
<1>3. NewRun(h, valid).status = IF valid THEN "in_progress" ELSE "errored"
  BY DEF NewRun, SetStatus
<1> QED
  BY <1>1, <1>2, <1>3 DEF InProgressHasWork, Incomplete

LEMMA CancelIsNotInProgress ==
    ASSUME NEW run \in JobRun
    PROVE  CancelRun(run).status # "in_progress"
<1>1. "cancelled" \in RunStatuses
  BY DEF RunStatuses
<1> QED
  BY <1>1, NextTaskRunIsFirst, SetTaskType, SetStatusInProgress DEF CancelRun

----------------------------------------------------------------------------
(* What goes into a task, and what comes out.                               *)

\* What a task is given as its input, and what an adapter makes of it.
LEMMA TaskInputType ==
    ASSUME NEW run \in JobRun, NEW i \in Tasks
    PROVE  TaskInput(run, i) \in Data
<1>1. CASE ~TasksRemain(run)
  BY <1>1, TaskCountAssumption DEF TaskInput, PreviousTaskRun, Merge, JobRun, TaskRun, Data, NoData
<1>2. CASE TasksRemain(run)
  <2>1. NextTaskRun(run) \in Tasks
    BY <1>2, NextTaskRunIsFirst
  <2>2. PreviousTaskRun(run) # 0 => PreviousTaskRun(run) \in Tasks
    BY <1>2, <2>1, TaskCountAssumption DEF PreviousTaskRun, Tasks
  <2> QED
    BY <2>2, TaskCountAssumption DEF TaskInput, Merge, JobRun, TaskRun, Data, NoData
<1> QED
  BY <1>1, <1>2

Outcomes == [effect : Effects, out : RunOutputs]

LEMMA PerformType ==
    ASSUME NEW run \in JobRun, NEW i \in Tasks, NEW online \in BOOLEAN
    PROVE  Perform(run, i, online) \subseteq Outcomes
<1> DEFINE input == TaskInput(run, i)
           status == run.task[i].status
<1>1. input \in Data /\ i \in Data /\ NoData \in Data /\ TxHash \in Data
  BY TaskInputType, TaskCountAssumption DEF Data, Tasks, NoData, TxHash
<1>2. PlainPerform(i) \subseteq Outcomes
  BY <1>1 DEF PlainPerform, Outcome, Outcomes, RunOutput, RunOutputs, Effects, RunStatuses
<1>3. BridgePerform(i, status, input) \subseteq Outcomes
  BY <1>1 DEF BridgePerform, Outcome, Outcomes, RunOutput, RunOutputs, Effects, RunStatuses,
              PendingStatuses
<1>4. EthTxPerform(status, input, online) \subseteq Outcomes
  BY <1>1 DEF EthTxPerform, EnsureTx, CreateTx, Outcome, Outcomes, RunOutput, RunOutputs,
              Effects, RunStatuses, PendingStatuses
<1> QED
  BY <1>2, <1>3, <1>4, KindAssumption DEF Perform, AdapterKinds

\* An adapter never says unstarted, and only a bridge ever says in_progress.
LEMMA PerformStatus ==
    ASSUME NEW run \in JobRun, NEW i \in Tasks, NEW online \in BOOLEAN,
           NEW o \in Perform(run, i, online)
    PROVE  /\ o.out.status # "unstarted"
           /\ o.out.status = "in_progress" => Kind[i] = "bridge"
<1> DEFINE status == run.task[i].status
           input  == TaskInput(run, i)
           Good(S) == \A x \in S : x.out.status \notin {"unstarted", "in_progress"}
<1>1. Kind[i] \in AdapterKinds
  BY KindAssumption
<1>2. Good(PlainPerform(i))
  BY DEF PlainPerform, Outcome, RunOutput
<1>3. \A x \in BridgePerform(i, status, input) : x.out.status # "unstarted"
  BY DEF BridgePerform, Outcome, RunOutput
<1>4. Good(EthTxPerform(status, input, online))
  <2>1. Good(EnsureTx(input)) /\ Good(CreateTx(input))
    BY DEF EnsureTx, CreateTx, Outcome, RunOutput
  <2>2. \A x : Outcome("none", "pending_confirmations", x).out.status = "pending_confirmations"
    BY DEF Outcome, RunOutput
  <2>3. \A x : Outcome("none", "pending_connection", x).out.status = "pending_connection"
    BY DEF Outcome, RunOutput
  <2> QED
    BY <2>1, <2>2, <2>3 DEF EthTxPerform
<1> HIDE DEF status, input
<1>5. o \in CASE Kind[i] = "plain"  -> PlainPerform(i)
              [] Kind[i] = "bridge" -> BridgePerform(i, status, input)
              [] Kind[i] = "ethtx"  -> EthTxPerform(status, input, online)
  BY DEF Perform, status, input
<1> QED
  BY <1>1, <1>2, <1>3, <1>4, <1>5 DEF AdapterKinds

----------------------------------------------------------------------------
(* Type correctness.  That a counter of workers is never decremented below  *)
(* zero needs to know that a goroutine exists only while calls are counted. *)

ExecutorIsCounted == \A r \in Runs : exec[r].pc = "idle" <=> workers[r] = 0

SavesTask == \A r \in Runs : exec[r].pc = "save" => exec[r].next \in Tasks

TypeInv == TypeOK /\ ExecutorIsCounted /\ SavesTask

\* An executor with its parts is an executor, and has the parts of one.
LEMMA ExecutorParts ==
    /\ \A e \in Executor : /\ e.pc \in {"idle", "load", "task", "save", "done"}
                           /\ e.run \in JobRun
                           /\ e.next \in 1 .. TaskCount + 1
    /\ \A pc \in {"idle", "load", "task", "save", "done"}, run \in JobRun,
          next \in 1 .. TaskCount + 1 :
             /\ ExecutorAt(pc, run, next) \in Executor
             /\ ExecutorAt(pc, run, next).pc = pc
             /\ ExecutorAt(pc, run, next).run = run
             /\ ExecutorAt(pc, run, next).next = next
BY DEF Executor, ExecutorAt

\* The values a variable starts from have the type of the variable.
LEMMA InitialValues ==
    /\ NoRun \in JobRun
    /\ NoAnswer \in RunOutputs
    /\ IdleExecutor \in Executor /\ IdleExecutor.pc = "idle"
    /\ ExecutorAt("load", NoRun, 1) \in Executor
    /\ ExecutorAt("load", NoRun, 1).pc = "load"
    /\ IdlePass \in Pass
<1>1. NoRun \in JobRun
  BY NewRunType DEF NoRun
<1>2. NoAnswer \in RunOutputs
  BY TaskCountAssumption DEF NoAnswer, RunOutput, RunOutputs, RunStatuses, Data, NoData
<1>3. 1 \in 1 .. TaskCount + 1
  BY TaskCountAssumption
<1> QED
  BY <1>1, <1>2, <1>3, ExecutorParts DEF IdleExecutor, IdlePass, Pass

LEMMA TypeInit == Init => TypeInv
<1> SUFFICES ASSUME Init PROVE TypeInv
  OBVIOUS
<1>1. spent \in Spent /\ height \in 0 .. MaxHeight
  BY BoundsAssumption DEF Init, Spent
<1>2. txs \in [Runs -> Seq(Data)] /\ posts \in [Runs -> [Tasks -> Nat]]
  BY DEF Init
<1>3. exec \in [Runs -> Executor] /\ resumer \in [Resumers -> Pass]
      /\ answer \in [Runs -> RunOutputs] /\ db \in [Runs -> JobRun]
  BY InitialValues DEF Init
<1>4. TypeOK
  BY <1>1, <1>2, <1>3 DEF Init, TypeOK
<1> QED
  BY <1>4, InitialValues DEF Init, TypeInv, ExecutorIsCounted, SavesTask

\* Counting another request keeps to the bounds.
LEMMA SpentMore ==
    /\ spent \in Spent /\ spent.cancels < MaxCancels
          => [spent EXCEPT !.cancels = @ + 1] \in Spent
    /\ spent \in Spent /\ spent.disconnects < MaxDisconnects
          => [spent EXCEPT !.disconnects = @ + 1] \in Spent
    /\ spent \in Spent /\ spent.crashes < MaxCrashes
          => [spent EXCEPT !.crashes = @ + 1] \in Spent
BY BoundsAssumption DEF Spent

\* Run r gets executor e, and nothing else the type invariant is about moves.
ExecutorMoves(r, e) == exec' = [exec EXCEPT ![r] = e] /\ exec[r].pc # "idle" /\ UNCHANGED workers

LEMMA ExecutorMovesType ==
    ASSUME TypeInv, NEW r \in Runs, NEW e \in Executor, ExecutorMoves(r, e),
           e.pc # "idle", e.pc = "save" => e.next \in Tasks
    PROVE  exec' \in [Runs -> Executor] /\ ExecutorIsCounted' /\ SavesTask'
BY DEF TypeInv, TypeOK, ExecutorIsCounted, SavesTask, ExecutorMoves

\* The steps of the executor of one run.
LEMMA TypeExecStep ==
    ASSUME TypeInv, NEW r \in Runs, ExecStep(r)
    PROVE  TypeInv'
<1> USE DEF dbVars, nodeVars, queueVars, worldVars
<1>1. /\ exec[r].run \in JobRun
      /\ exec[r].next \in 1 .. TaskCount + 1
  BY ExecutorParts DEF TypeInv, TypeOK
<1>2. 1 \in 1 .. TaskCount + 1 /\ "executor" \in Actors
      /\ \A i \in Tasks : i \in 1 .. TaskCount + 1 /\ i + 1 \in 1 .. TaskCount + 1
  BY TaskCountAssumption DEF Actors, Tasks
<1>3. ASSUME NEW pc \in {"load", "task", "save", "done"}, NEW run \in JobRun,
             NEW next \in 1 .. TaskCount + 1, pc = "save" => next \in Tasks,
             ExecutorMoves(r, ExecutorAt(pc, run, next))
      PROVE  exec' \in [Runs -> Executor] /\ ExecutorIsCounted' /\ SavesTask'
  <2> DEFINE e == ExecutorAt(pc, run, next)
  <2>1. e \in Executor /\ e.pc # "idle" /\ (e.pc = "save" => e.next \in Tasks)
    BY <1>3, ExecutorParts
  <2> HIDE DEF e
  <2> QED
    BY <1>3, <2>1, ExecutorMovesType DEF e
<1>4. CASE ExecLoad(r)
  <2>1. db[r] \in JobRun /\ ExecutorMoves(r, ExecutorAt("task", db[r], 1))
    BY <1>4 DEF ExecLoad, ExecutorMoves, TypeInv, TypeOK
  <2>2. exec' \in [Runs -> Executor] /\ ExecutorIsCounted' /\ SavesTask'
    BY <1>2, <1>3, <2>1
  <2> QED
    BY <1>2, <1>4, <2>2 DEF ExecLoad, Load, TypeInv, TypeOK
<1>5. CASE ExecStop(r)
  <2>1. ExecutorMoves(r, ExecutorAt("done", exec[r].run, exec[r].next))
    BY <1>5 DEF ExecStop, ExecutorMoves, TypeInv, TypeOK
  <2>2. exec' \in [Runs -> Executor] /\ ExecutorIsCounted' /\ SavesTask'
    BY <1>1, <1>3, <2>1
  <2> QED
    BY <1>5, <2>2 DEF ExecStop, TypeInv, TypeOK
<1>6. CASE ExecSave(r)
  <2>1. exec[r].next + 1 \in 1 .. TaskCount + 1
    BY <1>2, <1>6 DEF ExecSave, SavesTask, TypeInv
  <2>2. \/ ExecutorMoves(r, ExecutorAt("task", exec[r].run, exec[r].next + 1))
        \/ ExecutorMoves(r, ExecutorAt("done", exec[r].run, exec[r].next))
    BY <1>6 DEF ExecSave, ExecutorMoves, TypeInv, TypeOK
  <2>3. exec' \in [Runs -> Executor] /\ ExecutorIsCounted' /\ SavesTask'
    BY <1>1, <1>3, <2>1, <2>2
  <2>4. db' \in [Runs -> JobRun] /\ fresh' \in [Runs -> SUBSET Actors]
    <3>1. CASE Save(r, "executor", exec[r].run)
      BY <1>1, <1>2, <3>1 DEF Save, TypeInv, TypeOK
    <3>2. CASE Conflict(r, "executor")
      BY <3>2 DEF Conflict, TypeInv, TypeOK
    <3> QED
      BY <1>6, <3>1, <3>2 DEF ExecSave
  <2> QED
    BY <1>6, <2>3, <2>4 DEF ExecSave, TypeInv, TypeOK
<1>7. CASE ExecDone(r)
  <2> USE DEF TypeInv, TypeOK
  <2>1. workers[r] # 0 /\ workers' \in [Runs -> Nat]
    BY <1>7 DEF ExecDone, ExecutorIsCounted
  <2>2. exec' \in [Runs -> Executor] /\ ExecutorIsCounted' /\ SavesTask'
    BY <1>7, <2>1, InitialValues DEF ExecDone, ExecutorIsCounted, SavesTask
  <2> QED
    BY <1>7, <2>1, <2>2 DEF ExecDone
<1>8. ASSUME NEW i \in Tasks, ExecSkip(r, i)
      PROVE  TypeInv'
  <2>1. ExecutorMoves(r, ExecutorAt("task", exec[r].run, i + 1))
    BY <1>8 DEF ExecSkip, AtTask, ExecutorMoves
  <2>2. exec' \in [Runs -> Executor] /\ ExecutorIsCounted' /\ SavesTask'
    BY <1>1, <1>2, <1>3, <2>1
  <2> QED
    BY <1>8, <2>2 DEF ExecSkip, TypeInv, TypeOK
<1>9. ASSUME NEW i \in Tasks, ExecPause(r, i)
      PROVE  TypeInv'
  <2>1. PauseAt(exec[r].run, i, "pending_confirmations") \in JobRun
    BY <1>1, PauseAtType DEF RunStatuses, PendingStatuses
  <2>2. ExecutorMoves(r, ExecutorAt("save", PauseAt(exec[r].run, i, "pending_confirmations"), i))
    BY <1>9 DEF ExecPause, AtTask, ExecutorMoves
  <2>3. exec' \in [Runs -> Executor] /\ ExecutorIsCounted' /\ SavesTask'
    BY <1>2, <1>3, <2>1, <2>2
  <2> QED
    BY <1>9, <2>3 DEF ExecPause, TypeInv, TypeOK
<1>10. ASSUME NEW i \in Tasks, ExecPerform(r, i)
       PROVE  TypeInv'
  <2>1. PICK o \in Perform(exec[r].run, i, connected) :
          /\ exec' = [exec EXCEPT ![r] = ExecutorAt("save", ApplyOutput(@.run, i, o.out), i)]
          /\ Effect(r, i, o.effect, TaskInput(exec[r].run, i))
    BY <1>10 DEF ExecPerform
  <2>2. connected \in BOOLEAN
    BY DEF TypeInv, TypeOK
  <2>3. o.out \in RunOutputs
    BY <1>1, <2>2, PerformType DEF Outcomes
  <2>4. ApplyOutput(exec[r].run, i, o.out) \in JobRun
    BY <1>1, <2>3, ApplyOutputType
  <2>5. ExecutorMoves(r, ExecutorAt("save", ApplyOutput(exec[r].run, i, o.out), i))
    BY <1>10, <2>1 DEF ExecPerform, AtTask, ExecutorMoves
  <2>6. exec' \in [Runs -> Executor] /\ ExecutorIsCounted' /\ SavesTask'
    BY <1>2, <1>3, <2>4, <2>5
  <2>7. TaskInput(exec[r].run, i) \in Data
    BY <1>1, TaskInputType
  <2>8. txs' \in [Runs -> Seq(Data)]
    <3>1. Append(txs[r], TaskInput(exec[r].run, i)) \in Seq(Data)
      BY <2>7, AppendProperties DEF TypeInv, TypeOK
    <3> QED
      BY <2>1, <3>1 DEF Effect, TypeInv, TypeOK
  <2>9. posts' \in [Runs -> [Tasks -> Nat]] /\ owed' \in [Runs -> SUBSET Tasks]
    BY <2>1 DEF Effect, TypeInv, TypeOK
  <2> QED
    BY <1>10, <2>6, <2>8, <2>9 DEF ExecPerform, TypeInv, TypeOK
<1> QED
  BY <1>4, <1>5, <1>6, <1>7, <1>8, <1>9, <1>10 DEF ExecStep

\* What an actor other than the executor writes.
LEMMA UpdateAndTriggerType ==
    ASSUME TypeInv, NEW r \in Runs, NEW a \in Actors, NEW run \in JobRun,
           UpdateAndTrigger(r, a, run)
    PROVE  /\ db' \in [Runs -> JobRun]
           /\ fresh' \in [Runs -> SUBSET Actors]
           /\ toRun' \in [Runs -> Nat]
<1>1. CASE SaveAndForget(r, a, run)
  BY <1>1 DEF TypeInv, TypeOK, UpdateAndTrigger, SaveAndForget, Conflict
<1>2. CASE Conflict(r, a) /\ UNCHANGED toRun
  BY <1>2 DEF TypeInv, TypeOK, Conflict
<1> QED
  BY <1>1, <1>2 DEF UpdateAndTrigger

\* The other steps about one run.
LEMMA TypeOtherRunStep ==
    ASSUME TypeInv, NEW r \in Runs, RunStep(r), ~ExecStep(r)
    PROVE  TypeInv'
<1> USE DEF TypeInv, TypeOK, dbVars, nodeVars, queueVars, worldVars
<1>1. "bridge" \in Actors /\ "cancel" \in Actors /\ Resumers \subseteq Actors
      /\ "confirming" \in Resumers /\ "connecting" \in Resumers
  BY DEF Actors, Resumers
<1>2. ASSUME NEW h \in {NoHeight, height, height + 1}, NEW valid \in BOOLEAN,
             Create(r, h, valid)
      PROVE  TypeInv'
  <2>1. h \in Nat \cup {NoHeight}
    BY <1>2, BoundsAssumption
  <2>2. NewRun(h, valid) \in JobRun
    BY <2>1, NewRunType
  <2> QED
    BY <1>2, <2>2 DEF Create, ExecutorIsCounted, SavesTask
<1>3. CASE CreateErrored(r)
  <2>1. NewRun(NoHeight, FALSE) \in JobRun
    BY NewRunType
  <2> QED
    BY <1>3, <2>1 DEF CreateErrored, ExecutorIsCounted, SavesTask
<1>4. CASE QueueRun(r)
  <2>1. toRun' \in [Runs -> Nat] /\ workers' \in [Runs -> Nat]
        /\ \A q \in Runs : workers'[q] = IF q = r THEN workers[q] + 1 ELSE workers[q]
    BY <1>4 DEF QueueRun
  <2>2. exec' \in [Runs -> Executor] /\ ExecutorIsCounted' /\ SavesTask'
    BY <1>4, <2>1, InitialValues DEF QueueRun, ExecutorIsCounted, SavesTask
  <2> QED
    BY <1>4, <2>1, <2>2 DEF QueueRun
<1>5. ASSUME NEW k \in Resumers, WorkOn(k, r)
      PROVE  resumer' \in [Resumers -> Pass]
  BY <1>5, InitialValues DEF WorkOn, Pass
<1>6. ASSUME NEW onMainChain \in BOOLEAN, ResumeConfirming(r, onMainChain)
      PROVE  TypeInv'
  <2>1. ConfirmingUpdate(db[r], height, onMainChain) \in JobRun
    BY ConfirmingUpdateType, BoundsAssumption
  <2> QED
    BY <1>1, <1>5, <1>6, <2>1, UpdateAndTriggerType
       DEF ResumeConfirming, ExecutorIsCounted, SavesTask
<1>7. CASE ResumeConnecting(r)
  <2>1. ConnectingUpdate(db[r]) \in JobRun
    BY ConnectingUpdateType
  <2> QED
    BY <1>1, <1>5, <1>7, <2>1, UpdateAndTriggerType
       DEF ResumeConnecting, ExecutorIsCounted, SavesTask
<1>8. CASE ResumePending(r)
  <2>1. PendingUpdate(db[r], answer[r]) \in JobRun
    BY PendingUpdateType
  <2> QED
    BY <1>1, <1>8, <2>1, UpdateAndTriggerType, InitialValues
       DEF ResumePending, ExecutorIsCounted, SavesTask
<1>9. ASSUME NEW i \in Tasks, NEW s \in BridgeResultStatuses, AnswerArrives(r, i, s)
      PROVE  TypeInv'
  <2>1. RunOutput(s, IF s = "completed" THEN i ELSE NoData) \in RunOutputs
    BY TaskCountAssumption
       DEF RunOutput, RunOutputs, BridgeResultStatuses, RunStatuses, PendingStatuses, Data,
           NoData, Tasks
  <2> QED
    BY <1>1, <1>9, <2>1 DEF AnswerArrives, Load, ExecutorIsCounted, SavesTask
<1>10. CASE CancelLoad(r)
  <2>1. spent' \in Spent
    BY <1>10, SpentMore DEF CancelLoad
  <2> QED
    BY <1>1, <1>10, <2>1 DEF CancelLoad, Load, ExecutorIsCounted, SavesTask
<1>11. CASE Cancel(r)
  <2>1. CancelRun(db[r]) \in JobRun
    BY CancelRunType
  <2>2. db' \in [Runs -> JobRun]
    BY <1>1, <1>11, <2>1 DEF Cancel, SaveAndForget, Conflict
  <2>3. fresh' \in [Runs -> SUBSET Actors]
    BY <1>1, <1>11 DEF Cancel, SaveAndForget, Conflict
  <2> QED
    BY <1>11, <2>2, <2>3 DEF Cancel, ExecutorIsCounted, SavesTask
<1> QED
  BY <1>2, <1>3, <1>4, <1>6, <1>7, <1>8, <1>9, <1>10, <1>11
     DEF RunStep, CreateStep, ResumeStep, AnswerStep

\* The steps about the node.
LEMMA TypeNodeStep ==
    ASSUME TypeInv, NodeStep
    PROVE  TypeInv'
<1> USE DEF TypeInv, TypeOK, dbVars, nodeVars, queueVars, worldVars
<1>1. "confirming" \in Resumers /\ "connecting" \in Resumers /\ Resumers \subseteq Actors
  BY DEF Resumers, Actors
<1>2. ASSUME NEW k \in Resumers, StartPass(k)
      PROVE  resumer' \in [Resumers -> Pass]
  BY <1>2 DEF StartPass, WaitingRuns, Pass
<1>3. CASE ArchiveJob
  BY <1>3 DEF ArchiveJob, ExecutorIsCounted, SavesTask
<1>4. CASE ResumeAllConfirming
  BY <1>1, <1>2, <1>4 DEF ResumeAllConfirming, ExecutorIsCounted, SavesTask
<1>5. ASSUME NEW k \in Resumers, LoadBatch(k)
      PROVE  TypeInv'
  <2>1. fresh' \in [Runs -> SUBSET Actors]
    BY <1>1, <1>5 DEF LoadBatch
  <2>2. resumer[k].runs \in SUBSET Runs
    BY DEF Pass
  <2>3. [pc |-> "work", runs |-> resumer[k].runs] \in Pass
    BY <2>2 DEF Pass
  <2>4. resumer' \in [Resumers -> Pass]
    BY <1>5, <2>3, InitialValues DEF LoadBatch
  <2> QED
    BY <1>5, <2>1, <2>4 DEF LoadBatch, ExecutorIsCounted, SavesTask
<1>6. CASE Connect
  BY <1>1, <1>2, <1>6 DEF Connect, ExecutorIsCounted, SavesTask
<1>7. CASE Disconnect
  <2>1. spent' \in Spent
    BY <1>7, SpentMore DEF Disconnect
  <2> QED
    BY <1>7, <2>1 DEF Disconnect, ExecutorIsCounted, SavesTask
<1>8. CASE OnNewHead
  BY <1>8, BoundsAssumption DEF OnNewHead, ExecutorIsCounted, SavesTask
<1>9. CASE Crash
  <2>1. spent' \in Spent
    BY <1>9, SpentMore DEF Crash
  <2> QED
    BY <1>9, <2>1, InitialValues DEF Crash, ExecutorIsCounted, SavesTask
<1>10. CASE Start
  BY <1>10, InitialValues DEF Start, ExecutorIsCounted, SavesTask
<1> QED
  BY <1>3, <1>4, <1>5, <1>6, <1>7, <1>8, <1>9, <1>10 DEF NodeStep

LEMMA TypeNext == TypeInv /\ [Next]_vars => TypeInv'
<1> SUFFICES ASSUME TypeInv, [Next]_vars PROVE TypeInv'
  OBVIOUS
<1>1. CASE NodeStep
  BY <1>1, TypeNodeStep
<1>2. ASSUME NEW r \in Runs, RunStep(r) PROVE TypeInv'
  BY <1>2, TypeExecStep, TypeOtherRunStep
<1>3. CASE UNCHANGED vars
  BY <1>3 DEF vars, dbVars, nodeVars, queueVars, worldVars, TypeInv, TypeOK,
              ExecutorIsCounted, SavesTask
<1> QED
  BY <1>1, <1>2, <1>3 DEF Next

\* Every reachable state is of the types the code's variables and rows have, and
\* no decrementQueue ever finds a count of zero.
THEOREM TypeCorrect == Spec => []TypeOK
<1>1. Init => TypeInv
  BY TypeInit
<1>2. TypeInv /\ [Next]_vars => TypeInv'
  BY TypeNext
<1>3. TypeInv => TypeOK
  BY DEF TypeInv
<1> QED
  BY <1>1, <1>2, <1>3, PTL DEF Spec

----------------------------------------------------------------------------
(* No run in progress is lost.  What InProgressIsQueued needs is that the    *)
(* executor never ends with a fresh copy of a run in progress.  It ends when *)
(* it is past the last task, so it has to be known that a run in progress    *)
(* has a task that is not completed, and that the executor has not walked    *)
(* past it: it only ever walks past what cannot start any more.              *)

AtOrPast(r) ==
    IF exec[r].pc = "save" THEN 1 .. exec[r].next
    ELSE IF exec[r].pc = "task" THEN 1 .. exec[r].next - 1 ELSE {}

\* What the executor has walked past cannot start any more.
WalkedPast(r) ==
    exec[r].pc \in {"task", "save"} /\ Runnable(exec[r].run.status) =>
        \A j \in AtOrPast(r) \cap Tasks : ~CanStart(exec[r].run.task[j].status)

\* What is not completed lies ahead of the executor.
WorkAhead(r) ==
    exec[r].pc \in {"task", "save"} /\ exec[r].run.status = "in_progress" =>
        \/ Stranded(exec[r].run)
        \/ \E j \in Tasks \ AtOrPast(r) : exec[r].run.task[j].status # "completed"

\* At the top of its loop an executor with a fresh copy has what the row has.
CopyIsRow(r) ==
    exec[r].pc = "task" /\ "executor" \in fresh[r] => exec[r].run = db[r]

\* A run in progress is about to be handed to the queue, counted once more, or
\* in the hands of an executor that will see it through.
Attended(r) ==
    up /\ r \in created /\ db[r].status = "in_progress" /\ ~Stranded(db[r]) =>
        \/ toRun[r] > 0
        \/ workers[r] > 1
        \/ exec[r].pc = "load"
        \/ exec[r].pc \in {"task", "save"} /\ "executor" \in fresh[r]

RunInv(r) ==
    InProgressHasWork(db[r]) /\ WalkedPast(r) /\ WorkAhead(r) /\ CopyIsRow(r) /\ Attended(r)

IInv == TypeInv /\ \A r \in Runs : RunInv(r)

LEMMA RunInvInit == Init => \A r \in Runs : RunInv(r)
<1> SUFFICES ASSUME Init, NEW r \in Runs PROVE RunInv(r)
  OBVIOUS
<1>1. InProgressHasWork(db[r])
  BY NewRunHasWork DEF Init, NoRun
<1>2. exec[r].pc = "idle" /\ r \notin created
  BY InitialValues DEF Init
<1> QED
  BY <1>1, <1>2 DEF RunInv, WalkedPast, WorkAhead, CopyIsRow, Attended

\* What the invariant of a run talks about.  Copies other than the executor's do
\* not matter, and a node that goes down has nothing left to attend to.
SameRun(r) ==
    /\ db'[r] = db[r]
    /\ exec'[r] = exec[r]
    /\ toRun'[r] = toRun[r]
    /\ workers'[r] = workers[r]
    /\ "executor" \in fresh'[r] <=> "executor" \in fresh[r]
    /\ up' => up
    /\ r \in created' => r \in created

LEMMA RunUntouched ==
    ASSUME NEW r \in Runs, RunInv(r), SameRun(r)
    PROVE  RunInv(r)'
BY DEF RunInv, SameRun, WalkedPast, WorkAhead, CopyIsRow, Attended, AtOrPast

\* An actor other than the executor writes a row, and queues the run if it is in
\* progress: the executor's copy is not fresh any more.
LEMMA RunWritten ==
    ASSUME TypeInv, NEW r \in Runs, RunInv(r), NEW run \in JobRun,
           InProgressHasWork(run), run.status = "in_progress" => toRun'[r] > 0,
           db'[r] = run, fresh'[r] = {}, exec'[r] = exec[r]
    PROVE  RunInv(r)'
BY DEF RunInv, WalkedPast, WorkAhead, CopyIsRow, Attended, AtOrPast

LEMMA RunTriggered ==
    ASSUME TypeInv, NEW r \in Runs, NEW a \in Actors, NEW run \in JobRun,
           InProgressHasWork(run), UpdateAndTrigger(r, a, run),
           UNCHANGED <<created, up, workers, exec>>, \A q \in Runs : RunInv(q)
    PROVE  \A q \in Runs : RunInv(q)'
<1> SUFFICES ASSUME NEW q \in Runs PROVE RunInv(q)'
  OBVIOUS
<1>1. CASE SaveAndForget(r, a, run) /\ q = r
  <2>1. db'[r] = run /\ fresh'[r] = {} /\ exec'[r] = exec[r]
    BY <1>1 DEF SaveAndForget, TypeInv, TypeOK
  <2>2. run.status = "in_progress" => toRun'[r] > 0
    BY <1>1 DEF SaveAndForget, UpdateAndTrigger, Conflict, TypeInv, TypeOK
  <2> QED
    BY <1>1, <2>1, <2>2, RunWritten
<1>2. CASE SaveAndForget(r, a, run) /\ q # r
  <2>1. SameRun(q)
    BY <1>2 DEF SameRun, SaveAndForget, UpdateAndTrigger, Conflict, TypeInv, TypeOK
  <2> QED
    BY <2>1, RunUntouched
<1>3. CASE Conflict(r, a) /\ UNCHANGED toRun
  <2>1. SameRun(q)
    BY <1>3 DEF SameRun, Conflict
  <2> QED
    BY <2>1, RunUntouched
<1> QED
  BY <1>1, <1>2, <1>3 DEF UpdateAndTrigger

\* The executor of run r leaves every other run alone.
LEMMA ExecStepElsewhere ==
    ASSUME TypeInv, NEW r \in Runs, ExecStep(r), NEW q \in Runs, q # r
    PROVE  SameRun(q)
<1> USE DEF TypeInv, TypeOK, SameRun, dbVars, nodeVars, queueVars, worldVars
<1>1. CASE ExecLoad(r)
  BY <1>1 DEF ExecLoad, Load
<1>2. CASE ExecStop(r)
  BY <1>2 DEF ExecStop
<1>3. CASE ExecSave(r)
  <2>1. db'[q] = db[q] /\ ("executor" \in fresh'[q] <=> "executor" \in fresh[q])
    BY <1>3 DEF ExecSave, Save, Conflict
  <2>2. exec'[q] = exec[q]
    BY <1>3 DEF ExecSave
  <2> QED
    BY <1>3, <2>1, <2>2 DEF ExecSave
<1>4. CASE ExecDone(r)
  BY <1>4 DEF ExecDone
<1>5. ASSUME NEW i \in Tasks, ExecSkip(r, i) PROVE SameRun(q)
  BY <1>5 DEF ExecSkip
<1>6. ASSUME NEW i \in Tasks, ExecPause(r, i) PROVE SameRun(q)
  BY <1>6 DEF ExecPause
<1>7. ASSUME NEW i \in Tasks, ExecPerform(r, i) PROVE SameRun(q)
  BY <1>7 DEF ExecPerform
<1> QED
  BY <1>1, <1>2, <1>3, <1>4, <1>5, <1>6, <1>7 DEF ExecStep

\* The executor has a new copy at task i, about to be saved.
LEMMA RunPerformed ==
    ASSUME TypeInv, NEW r \in Runs, RunInv(r), NEW i \in Tasks, AtTask(r, i),
           NEW run \in JobRun,
           exec'[r] = ExecutorAt("save", run, i),
           UNCHANGED <<created, db, up, fresh, toRun, workers>>,
           \A j \in Tasks \ {i} : run.task[j] = exec[r].run.task[j],
           Runnable(run.status) => ~CanStart(run.task[i].status),
           run.status = "in_progress" =>
               Stranded(run) \/ \E j \in Tasks \ {i} : CanStart(run.task[j].status)
    PROVE  RunInv(r)'
<1>1. /\ exec'[r].pc = "save" /\ exec'[r].run = run /\ exec'[r].next = i
      /\ exec[r].pc = "task" /\ exec[r].next = i /\ Runnable(exec[r].run.status)
  BY DEF AtTask, ExecutorAt
<1>2. \A j \in Tasks : j < i => ~CanStart(exec[r].run.task[j].status)
  BY <1>1, TaskCountAssumption DEF RunInv, WalkedPast, AtOrPast, Tasks
<1>3. \A j \in Tasks : j < i => ~CanStart(run.task[j].status)
  BY <1>2, TaskCountAssumption DEF Tasks
<1>4. AtOrPast(r)' = 1 .. i
  BY <1>1 DEF AtOrPast
<1>5. WalkedPast(r)'
  BY <1>1, <1>3, <1>4, TaskCountAssumption DEF WalkedPast, Tasks
<1>6. WorkAhead(r)'
  <2> SUFFICES ASSUME run.status = "in_progress", ~Stranded(run)
               PROVE  \E j \in Tasks \ (1 .. i) : run.task[j].status # "completed"
    BY <1>1, <1>4 DEF WorkAhead
  <2>1. PICK j \in Tasks \ {i} : CanStart(run.task[j].status)
    OBVIOUS
  <2>2. j \notin 1 .. i
    BY <1>3, <2>1, TaskCountAssumption DEF Tasks
  <2>3. run.task[j].status # "completed"
    BY <2>1 DEF CanStart, Pending, PendingStatuses
  <2> QED
    BY <2>1, <2>2, <2>3
<1>7. CopyIsRow(r)' /\ Attended(r)' /\ InProgressHasWork(db[r])'
  BY <1>1 DEF RunInv, CopyIsRow, Attended
<1> QED
  BY <1>5, <1>6, <1>7 DEF RunInv

LEMMA RunInvExecStep ==
    ASSUME IInv, NEW r \in Runs, ExecStep(r)
    PROVE  RunInv(r)'
<1> USE DEF dbVars, nodeVars, queueVars, worldVars
<1>1. /\ exec[r].run \in JobRun
      /\ exec[r].next \in 1 .. TaskCount + 1
      /\ exec[r].pc = "save" => exec[r].next \in Tasks
      /\ db[r] \in JobRun
      /\ connected \in BOOLEAN
      /\ workers[r] \in Nat /\ toRun[r] \in Nat /\ fresh[r] \subseteq Actors
  BY ExecutorParts DEF IInv, TypeInv, TypeOK, SavesTask
<1>2. /\ exec \in [Runs -> Executor] /\ db \in [Runs -> JobRun]
      /\ fresh \in [Runs -> SUBSET Actors] /\ workers \in [Runs -> Nat]
  BY DEF IInv, TypeInv, TypeOK
<1>3. TypeInv /\ RunInv(r)
  BY DEF IInv
<1>4. CASE ExecLoad(r)
  <2>1. exec'[r].pc = "task" /\ exec'[r].run = db[r] /\ exec'[r].next = 1
    BY <1>2, <1>4 DEF ExecLoad, ExecutorAt
  <2>2. "executor" \in fresh'[r]
    BY <1>2, <1>4 DEF ExecLoad, Load
  <2>3. AtOrPast(r)' = {}
    BY <2>1 DEF AtOrPast
  <2>4. WalkedPast(r)'
    BY <2>3 DEF WalkedPast
  <2>5. WorkAhead(r)'
    BY <1>3, <2>1, <2>3 DEF WorkAhead, RunInv, InProgressHasWork, Incomplete
  <2> QED
    BY <1>3, <1>4, <2>1, <2>2, <2>4, <2>5 DEF ExecLoad, RunInv, CopyIsRow, Attended
<1>5. CASE ExecStop(r)
  <2>1. exec'[r].pc = "done"
    BY <1>2, <1>5 DEF ExecStop, ExecutorAt
  <2>2. "executor" \in fresh[r] => db[r].status # "in_progress" \/ Stranded(db[r])
    <3> SUFFICES ASSUME "executor" \in fresh[r], db[r].status = "in_progress",
                        ~Stranded(db[r])
                 PROVE  FALSE
      OBVIOUS
    <3>1. exec[r].pc = "task" /\ exec[r].run = db[r]
      BY <1>3, <1>5 DEF ExecStop, RunInv, CopyIsRow
    <3>2. exec[r].next > TaskCount
      BY <1>5, <3>1 DEF ExecStop, Runnable, Pending, PendingStatuses
    <3>3. Tasks \ AtOrPast(r) = {}
      BY <1>1, <3>1, <3>2, TaskCountAssumption DEF AtOrPast, Tasks
    <3> QED
      BY <1>3, <3>1, <3>3 DEF RunInv, WorkAhead
  <2> QED
    BY <1>3, <1>5, <2>1, <2>2
       DEF ExecStop, RunInv, WalkedPast, WorkAhead, CopyIsRow, Attended
<1>6. CASE ExecSave(r)
  <2>1. CASE Save(r, "executor", exec[r].run)
    <3>1. db'[r] = exec[r].run /\ "executor" \in fresh'[r]
      BY <1>2, <2>1 DEF Save
    <3>2. /\ exec'[r].pc = "task" /\ exec'[r].run = exec[r].run
          /\ exec'[r].next = exec[r].next + 1
      BY <1>2, <1>6, <2>1 DEF ExecSave, Save, Conflict, ExecutorAt
    <3>3. AtOrPast(r)' = AtOrPast(r)
      BY <1>1, <1>6, <3>2, TaskCountAssumption DEF ExecSave, AtOrPast, Tasks
    <3>4. WalkedPast(r)'
      BY <1>3, <1>6, <3>2, <3>3 DEF ExecSave, RunInv, WalkedPast
    <3>5. WorkAhead(r)'
      BY <1>3, <1>6, <3>2, <3>3 DEF ExecSave, RunInv, WorkAhead
    <3>6. InProgressHasWork(db[r])'
      BY <1>3, <1>6, <3>1
         DEF ExecSave, RunInv, WorkAhead, Stranded, InProgressHasWork, Incomplete
    <3> QED
      BY <3>1, <3>2, <3>4, <3>5, <3>6 DEF RunInv, CopyIsRow, Attended
  <2>2. CASE Conflict(r, "executor")
    <3>1. exec'[r].pc = "done" /\ db'[r] = db[r] /\ "executor" \notin fresh[r]
      BY <1>2, <1>6, <2>2 DEF ExecSave, Save, Conflict, ExecutorAt
    <3> QED
      BY <1>3, <1>6, <3>1
         DEF ExecSave, RunInv, WalkedPast, WorkAhead, CopyIsRow, Attended
  <2> QED
    BY <1>6, <2>1, <2>2 DEF ExecSave
<1>7. CASE ExecDone(r)
  <2>1. exec'[r].pc = IF workers[r] > 1 THEN "load" ELSE "idle"
    BY <1>2, <1>7, InitialValues DEF ExecDone
  <2> QED
    BY <1>3, <1>7, <2>1 DEF ExecDone, RunInv, WalkedPast, WorkAhead, CopyIsRow, Attended
<1>8. ASSUME NEW i \in Tasks, ExecSkip(r, i)
      PROVE  RunInv(r)'
  <2>1. /\ exec'[r].pc = "task" /\ exec'[r].run = exec[r].run /\ exec'[r].next = i + 1
        /\ exec[r].pc = "task" /\ exec[r].next = i /\ Runnable(exec[r].run.status)
        /\ exec[r].run.task[i].status = "completed"
    BY <1>2, <1>8 DEF ExecSkip, AtTask, ExecutorAt
  <2>2. AtOrPast(r)' = AtOrPast(r) \cup {i}
    BY <2>1, TaskCountAssumption DEF AtOrPast, Tasks
  <2>3. ~CanStart("completed")
    BY DEF CanStart, Pending, PendingStatuses
  <2>4. WalkedPast(r)'
    BY <1>3, <2>1, <2>2, <2>3 DEF RunInv, WalkedPast
  <2>5. WorkAhead(r)'
    BY <1>3, <2>1, <2>2 DEF RunInv, WorkAhead
  <2> QED
    BY <1>3, <1>8, <2>1, <2>4, <2>5 DEF ExecSkip, RunInv, CopyIsRow, Attended
<1>9. ASSUME NEW i \in Tasks, ExecPause(r, i)
      PROVE  RunInv(r)'
  <2> DEFINE run == PauseAt(exec[r].run, i, "pending_confirmations")
  <2>1. run \in JobRun
    BY <1>1, PauseAtType DEF RunStatuses, PendingStatuses
  <2>2. run.status = "pending_confirmations"
        /\ \A j \in Tasks \ {i} : run.task[j] = exec[r].run.task[j]
    BY <1>1 DEF PauseAt, SetTask, JobRun
  <2>3. exec'[r] = ExecutorAt("save", run, i)
    BY <1>2, <1>9 DEF ExecPause
  <2> HIDE DEF run
  <2>4. ~Runnable(run.status) /\ run.status # "in_progress"
    BY <2>2 DEF Runnable, Pending, PendingStatuses
  <2>5. AtTask(r, i) /\ UNCHANGED <<created, db, up, fresh, toRun, workers>>
    BY <1>9 DEF ExecPause
  <2> QED
    BY <1>3, <2>1, <2>2, <2>3, <2>4, <2>5, RunPerformed
<1>10. ASSUME NEW i \in Tasks, ExecPerform(r, i)
       PROVE  RunInv(r)'
  <2>1. PICK o \in Perform(exec[r].run, i, connected) :
          exec' = [exec EXCEPT ![r] = ExecutorAt("save", ApplyOutput(@.run, i, o.out), i)]
    BY <1>10 DEF ExecPerform
  <2>2. o.out \in RunOutputs
    BY <1>1, PerformType DEF Outcomes
  <2>3. o.out.status # "unstarted" /\ (o.out.status = "in_progress" => Kind[i] = "bridge")
    BY <1>1, PerformStatus
  <2> DEFINE run == ApplyOutput(exec[r].run, i, o.out)
  <2>4. run \in JobRun
    BY <1>1, <2>2, ApplyOutputType
  <2>5. exec'[r] = ExecutorAt("save", run, i)
    BY <1>2, <2>1
  <2>6. /\ run.task[i].status = o.out.status
        /\ \A j \in Tasks \ {i} : run.task[j] = exec[r].run.task[j]
        /\ Runnable(run.status) => Runnable(o.out.status)
        /\ run.status = "in_progress" =>
              o.out.status = "in_progress" \/ (o.out.status = "completed" /\ TasksRemain(run))
    BY <1>1, <2>2, ApplyOutputResult
  <2> HIDE DEF run
  <2>7. Runnable(run.status) => ~CanStart(run.task[i].status)
    BY <2>3, <2>6 DEF Runnable, CanStart
  <2>8. run.status = "in_progress" =>
            Stranded(run) \/ \E j \in Tasks \ {i} : CanStart(run.task[j].status)
    BY <2>3, <2>6 DEF Stranded, TasksRemain, Startable, CanStart, Pending, PendingStatuses
  <2>9. AtTask(r, i) /\ UNCHANGED <<created, db, up, fresh, toRun, workers>>
    BY <1>10, <2>1 DEF ExecPerform, Effect
  <2> QED
    BY <1>3, <2>4, <2>5, <2>6, <2>7, <2>8, <2>9, RunPerformed
<1> QED
  BY <1>4, <1>5, <1>6, <1>7, <1>8, <1>9, <1>10 DEF ExecStep

\* Every other step about one run.
LEMMA RunInvOtherRunStep ==
    ASSUME IInv, NEW r \in Runs, RunStep(r), ~ExecStep(r)
    PROVE  \A q \in Runs : RunInv(q)'
<1> USE DEF dbVars, nodeVars, queueVars, worldVars
<1>1. TypeInv /\ (\A q \in Runs : RunInv(q)) /\ db[r] \in JobRun
  BY DEF IInv, TypeInv, TypeOK
<1>2. /\ exec \in [Runs -> Executor] /\ db \in [Runs -> JobRun]
      /\ fresh \in [Runs -> SUBSET Actors] /\ workers \in [Runs -> Nat]
      /\ toRun \in [Runs -> Nat] /\ height \in Nat /\ answer \in [Runs -> RunOutputs]
  BY BoundsAssumption DEF IInv, TypeInv, TypeOK
<1>3. "bridge" \in Actors /\ "confirming" \in Actors /\ "connecting" \in Actors
  BY DEF Actors, Resumers
<1>4. ASSUME NEW h \in Nat \cup {NoHeight}, NEW valid \in BOOLEAN,
             db' = [db EXCEPT ![r] = NewRun(h, valid)],
             fresh' = [fresh EXCEPT ![r] = {}],
             toRun' = [toRun EXCEPT ![r] =
                          IF Runnable(NewRun(h, valid).status) THEN @ + 1 ELSE @]
                \/ (~valid /\ toRun' = toRun),
             created' = created \cup {r}, UNCHANGED <<up, workers, exec>>,
             NEW q \in Runs
      PROVE  RunInv(q)'
  <2>1. CASE q # r
    <3>1. SameRun(q)
      BY <1>2, <1>4, <2>1 DEF SameRun
    <3> QED
      BY <1>1, <3>1, RunUntouched
  <2>2. CASE q = r
    <3>1. NewRun(h, valid) \in JobRun /\ InProgressHasWork(NewRun(h, valid))
      BY NewRunType, NewRunHasWork
    <3>2. NewRun(h, valid).status = "in_progress" => toRun'[r] > 0
      BY <1>2, <1>4, NewRunHasWork DEF Runnable, Pending, PendingStatuses
    <3>3. db'[r] = NewRun(h, valid) /\ fresh'[r] = {} /\ exec'[r] = exec[r]
      BY <1>2, <1>4
    <3> QED
      BY <1>1, <2>2, <3>1, <3>2, <3>3, RunWritten
  <2> QED
    BY <2>1, <2>2
<1>5. ASSUME NEW h \in {NoHeight, height, height + 1}, NEW valid \in BOOLEAN,
             Create(r, h, valid)
      PROVE  \A q \in Runs : RunInv(q)'
  <2>1. h \in Nat \cup {NoHeight} /\ db'[r] = NewRun(h, valid)
    BY <1>2, <1>5 DEF Create
  <2> QED
    BY <1>4, <1>5, <2>1 DEF Create
<1>6. CASE CreateErrored(r)
  BY <1>4, <1>6 DEF CreateErrored
<1>7. CASE QueueRun(r)
  <2> SUFFICES ASSUME NEW q \in Runs PROVE RunInv(q)'
    OBVIOUS
  <2>1. CASE q # r
    <3>1. SameRun(q)
      BY <1>2, <1>7, <2>1 DEF QueueRun, SameRun
    <3> QED
      BY <1>1, <3>1, RunUntouched
  <2>2. CASE q = r /\ workers[r] = 0
    <3>1. exec'[r].pc = "load"
      BY <1>2, <1>7, <2>2, InitialValues DEF QueueRun
    <3> QED
      BY <1>1, <1>7, <2>2, <3>1
         DEF QueueRun, RunInv, WalkedPast, WorkAhead, CopyIsRow, Attended
  <2>3. CASE q = r /\ workers[r] # 0
    <3>1. workers'[r] > 1 /\ exec'[r] = exec[r]
      BY <1>2, <1>7, <2>3 DEF QueueRun
    <3> QED
      BY <1>1, <1>7, <2>3, <3>1
         DEF QueueRun, RunInv, WalkedPast, WorkAhead, CopyIsRow, Attended, AtOrPast
  <2> QED
    BY <2>1, <2>2, <2>3
<1>8. ASSUME NEW onMainChain \in BOOLEAN, ResumeConfirming(r, onMainChain)
      PROVE  \A q \in Runs : RunInv(q)'
  BY <1>1, <1>2, <1>3, <1>8, ConfirmingUpdateType, ConfirmingHasWork, RunTriggered
     DEF ResumeConfirming
<1>9. CASE ResumeConnecting(r)
  BY <1>1, <1>2, <1>3, <1>9, ConnectingUpdateType, ConnectingHasWork, RunTriggered
     DEF ResumeConnecting
<1>10. CASE ResumePending(r)
  BY <1>1, <1>2, <1>3, <1>10, PendingUpdateType, PendingHasWork, RunTriggered
     DEF ResumePending
<1>11. ASSUME NEW i \in Tasks, NEW s \in BridgeResultStatuses, AnswerArrives(r, i, s),
              NEW q \in Runs
       PROVE  RunInv(q)'
  <2>1. SameRun(q)
    BY <1>2, <1>11 DEF AnswerArrives, Load, SameRun
  <2> QED
    BY <1>1, <2>1, RunUntouched
<1>12. ASSUME CancelLoad(r), NEW q \in Runs PROVE RunInv(q)'
  <2>1. SameRun(q)
    BY <1>2, <1>12 DEF CancelLoad, Load, SameRun
  <2> QED
    BY <1>1, <2>1, RunUntouched
<1>13. ASSUME Cancel(r), NEW q \in Runs PROVE RunInv(q)'
  <2>1. CASE SaveAndForget(r, "cancel", CancelRun(db[r])) /\ q = r
    <3>1. CancelRun(db[r]) \in JobRun /\ CancelRun(db[r]).status # "in_progress"
      BY <1>1, CancelRunType, CancelIsNotInProgress
    <3>2. db'[r] = CancelRun(db[r]) /\ fresh'[r] = {} /\ exec'[r] = exec[r]
      BY <1>2, <1>13, <2>1 DEF Cancel, SaveAndForget
    <3> QED
      BY <1>1, <2>1, <3>1, <3>2, RunWritten DEF InProgressHasWork
  <2>2. CASE SaveAndForget(r, "cancel", CancelRun(db[r])) /\ q # r
    <3>1. SameRun(q)
      BY <1>2, <1>13, <2>2 DEF Cancel, SaveAndForget, Conflict, SameRun
    <3> QED
      BY <1>1, <3>1, RunUntouched
  <2>3. CASE Conflict(r, "cancel")
    <3>1. SameRun(q)
      BY <1>13, <2>3 DEF Cancel, Conflict, SaveAndForget, SameRun
    <3> QED
      BY <1>1, <3>1, RunUntouched
  <2> QED
    BY <1>13, <2>1, <2>2, <2>3 DEF Cancel
<1> QED
  BY <1>5, <1>6, <1>7, <1>8, <1>9, <1>10, <1>11, <1>12, <1>13
     DEF RunStep, CreateStep, ResumeStep, AnswerStep

\* The steps about the node.
LEMMA RunInvNodeStep ==
    ASSUME IInv, NodeStep, NEW q \in Runs
    PROVE  RunInv(q)'
<1> USE DEF dbVars, nodeVars, queueVars, worldVars
<1>1. /\ RunInv(q)
      /\ fresh \in [Runs -> SUBSET Actors]
  BY DEF IInv, TypeInv, TypeOK
<1>2. ASSUME NEW k \in Resumers, LoadBatch(k)
      PROVE  SameRun(q)
  <2>1. k # "executor"
    BY DEF Resumers
  <2> QED
    BY <1>1, <1>2, <2>1 DEF LoadBatch, SameRun
<1>3. ASSUME ArchiveJob \/ ResumeAllConfirming \/ Connect \/ Disconnect \/ OnNewHead
      PROVE  SameRun(q)
  BY <1>3 DEF ArchiveJob, ResumeAllConfirming, Connect, Disconnect, OnNewHead, SameRun
<1>4. CASE Crash
  <2>1. exec'[q].pc = "idle" /\ ~up' /\ db'[q] = db[q]
    BY <1>4, InitialValues DEF Crash
  <2> QED
    BY <1>1, <2>1 DEF RunInv, WalkedPast, WorkAhead, CopyIsRow, Attended
<1>5. CASE Start
  <2>1. /\ exec'[q].pc = IF q \in InterruptedRuns THEN "load" ELSE "idle"
        /\ db'[q] = db[q] /\ created' = created
    BY <1>5, InitialValues DEF Start
  <2>2. q \in created /\ db[q].status = "in_progress" => exec'[q].pc = "load"
    BY <2>1 DEF InterruptedRuns
  <2> QED
    BY <1>1, <2>1, <2>2 DEF RunInv, WalkedPast, WorkAhead, CopyIsRow, Attended
<1>6. CASE SameRun(q)
  BY <1>1, <1>6, RunUntouched
<1> QED
  BY <1>2, <1>3, <1>4, <1>5, <1>6 DEF NodeStep

LEMMA IInvNext == IInv /\ [Next]_vars => IInv'
<1> SUFFICES ASSUME IInv, [Next]_vars PROVE IInv'
  OBVIOUS
<1>1. TypeInv'
  BY TypeNext DEF IInv
<1>2. ASSUME NEW q \in Runs PROVE RunInv(q)'
  <2>1. CASE NodeStep
    BY <2>1, RunInvNodeStep
  <2>2. ASSUME NEW r \in Runs, ExecStep(r) PROVE RunInv(q)'
    <3>1. CASE q = r
      BY <2>2, <3>1, RunInvExecStep
    <3>2. CASE q # r
      BY <2>2, <3>2, ExecStepElsewhere, RunUntouched DEF IInv
    <3> QED
      BY <3>1, <3>2
  <2>3. ASSUME NEW r \in Runs, RunStep(r), ~ExecStep(r) PROVE RunInv(q)'
    BY <2>3, RunInvOtherRunStep
  <2>4. CASE UNCHANGED vars
    <3>1. SameRun(q)
      BY <2>4 DEF vars, dbVars, nodeVars, queueVars, worldVars, SameRun
    <3> QED
      BY <3>1, RunUntouched DEF IInv
  <2> QED
    BY <2>1, <2>2, <2>3, <2>4 DEF Next
<1> QED
  BY <1>1, <1>2 DEF IInv

\* No run is lost: whatever the executor, the resumers, operators, adapters and
\* crashes do, and in whatever order, a run that is stored as in progress is
\* executed, counted for another execution, or about to be handed to the queue.
THEOREM NoRunIsLost == Spec => []InProgressIsQueued
<1>1. Init => IInv
  BY TypeInit, RunInvInit DEF IInv
<1>2. IInv /\ [Next]_vars => IInv'
  BY IInvNext
<1>3. IInv => InProgressIsQueued
  <2> SUFFICES ASSUME IInv, up, NEW r \in created, db[r].status = "in_progress",
                      ~Stranded(db[r])
               PROVE  toRun[r] + workers[r] > 0
    BY DEF InProgressIsQueued
  <2>1. r \in Runs /\ toRun[r] \in Nat /\ workers[r] \in Nat
    BY DEF IInv, TypeInv, TypeOK
  <2>2. exec[r].pc # "idle" => workers[r] # 0
    BY <2>1 DEF IInv, TypeInv, ExecutorIsCounted
  <2>3. toRun[r] > 0 \/ workers[r] > 1 \/ exec[r].pc \in {"load", "task", "save"}
    BY <2>1 DEF IInv, RunInv, Attended
  <2> QED
    BY <2>1, <2>2, <2>3
<1> QED
  BY <1>1, <1>2, <1>3, PTL DEF Spec

----------------------------------------------------------------------------
(* The calls of the queue.                                                  *)

Counted == [r \in Runs |-> toRun[r] + workers[r]]

InExecute == {r \in Runs : exec[r].pc \notin {"idle", "load"}}

\* What the queue has counted, and who is in Execute, is what Requests is about.
LEMMA SameCalls ==
    ASSUME Counted' = Counted, InExecute' = InExecute
    PROVE  UNCHANGED Requests!rvars
BY DEF Counted, InExecute, Requests!rvars

\* One more call.
LEMMA CallIsARequest ==
    ASSUME TypeInv, NEW r \in Runs, toRun' = [toRun EXCEPT ![r] = @ + 1],
           UNCHANGED <<workers, exec>>
    PROVE  Requests!Request(r)
<1>1. toRun \in [Runs -> Nat] /\ workers \in [Runs -> Nat]
  BY DEF TypeInv, TypeOK
<1>2. \A q \in Runs : toRun'[q] + workers'[q] =
                       IF q = r THEN toRun[q] + workers[q] + 1 ELSE toRun[q] + workers[q]
  BY <1>1
<1>3. Counted' = [Counted EXCEPT ![r] = @ + 1]
  BY <1>2 DEF Counted
<1> QED
  BY <1>3 DEF Counted, Requests!Request

\* The executor of a run goes from one place of Execute to another, or stays out of it.
LEMMA ExecutorGoesOn ==
    ASSUME TypeInv, NEW r \in Runs, NEW e, exec' = [exec EXCEPT ![r] = e],
           e.pc \in {"idle", "load"} <=> exec[r].pc \in {"idle", "load"}
    PROVE  InExecute' = InExecute
BY DEF TypeInv, TypeOK, InExecute

LEMMA ExecStepIsOfRequests ==
    ASSUME TypeInv, NEW r \in Runs, ExecStep(r)
    PROVE  Requests!Next \/ UNCHANGED Requests!rvars
<1> USE DEF queueVars
<1>1. /\ exec \in [Runs -> Executor] /\ exec[r].run \in JobRun
      /\ exec[r].next \in 1 .. TaskCount + 1
      /\ workers \in [Runs -> Nat] /\ toRun \in [Runs -> Nat]
  BY ExecutorParts DEF TypeInv, TypeOK
<1>2. CASE ExecLoad(r)
  <2>1. exec[r].pc = "load" /\ exec' = [exec EXCEPT ![r] = ExecutorAt("task", db[r], 1)]
        /\ UNCHANGED <<toRun, workers>>
    BY <1>2 DEF ExecLoad
  <2>2. ExecutorAt("task", db[r], 1).pc = "task"
    BY DEF ExecutorAt
  <2>3. InExecute' = InExecute \cup {r} /\ r \notin InExecute
    BY <1>1, <2>1, <2>2 DEF InExecute
  <2>4. Counted' = Counted /\ Counted[r] > 0
    BY <1>1, <2>1 DEF Counted, TypeInv, ExecutorIsCounted
  <2>5. Requests!Begin(r)
    BY <2>3, <2>4 DEF Requests!Begin, Counted, InExecute
  <2> QED
    BY <2>5 DEF Requests!Next
<1>3. CASE ExecDone(r)
  <2> DEFINE e == IF workers[r] > 1 THEN ExecutorAt("load", NoRun, 1) ELSE IdleExecutor
  <2>1. exec[r].pc = "done" /\ exec' = [exec EXCEPT ![r] = e]
        /\ workers' = [workers EXCEPT ![r] = @ - 1] /\ toRun' = toRun
    BY <1>3 DEF ExecDone
  <2>2. e.pc \in {"idle", "load"}
    BY DEF IdleExecutor, ExecutorAt
  <2> HIDE DEF e
  <2>3. InExecute' = InExecute \ {r} /\ r \in InExecute
    BY <1>1, <2>1, <2>2 DEF InExecute
  <2>4. Counted' = [Counted EXCEPT ![r] = @ - 1]
    <3>1. \A q \in Runs : toRun'[q] + workers'[q] =
                           IF q = r THEN toRun[q] + workers[q] - 1 ELSE toRun[q] + workers[q]
      BY <1>1, <2>1
    <3>2. Counted' = [q \in Runs |-> toRun'[q] + workers'[q]]
      BY DEF Counted
    <3>3. /\ Counted = [q \in Runs |-> toRun[q] + workers[q]]
          /\ Counted[r] - 1 = toRun[r] + workers[r] - 1
      BY <1>1 DEF Counted
    <3> HIDE DEF Counted
    <3> QED
      BY <3>1, <3>2, <3>3
  <2>5. Requests!End(r)
    BY <2>3, <2>4 DEF Requests!End, Counted, InExecute
  <2> QED
    BY <2>5 DEF Requests!Next
<1>4. ASSUME ~ExecLoad(r), ~ExecDone(r)
      PROVE  UNCHANGED Requests!rvars
  <2>1. PICK pc \in {"task", "save", "done"} :
          /\ exec[r].pc \in {"task", "save"}
          /\ \E run, next : exec' = [exec EXCEPT ![r] = ExecutorAt(pc, run, next)]
          /\ UNCHANGED <<toRun, workers>>
    BY <1>4 DEF ExecStep, ExecStop, ExecSave, ExecSkip, ExecPause, ExecPerform, AtTask
  <2>2. PICK run, next : exec' = [exec EXCEPT ![r] = ExecutorAt(pc, run, next)]
    BY <2>1
  <2>3. ExecutorAt(pc, run, next).pc = pc
    BY DEF ExecutorAt
  <2>4. InExecute' = InExecute
    BY <2>1, <2>2, <2>3, ExecutorGoesOn
  <2>5. Counted' = Counted
    BY <2>1 DEF Counted
  <2> QED
    BY <2>4, <2>5, SameCalls
<1> QED
  BY <1>2, <1>3, <1>4

LEMMA RunStepIsOfRequests ==
    ASSUME TypeInv, NEW r \in Runs, RunStep(r)
    PROVE  Requests!Next \/ UNCHANGED Requests!rvars
<1> USE DEF queueVars
<1>1. CASE ExecStep(r)
  BY <1>1, ExecStepIsOfRequests
<1>2. CASE QueueRun(r)
  <2>1. /\ exec \in [Runs -> Executor] /\ workers \in [Runs -> Nat] /\ toRun \in [Runs -> Nat]
        /\ toRun[r] > 0
    BY <1>2 DEF QueueRun, TypeInv, TypeOK
  <2>2. toRun' = [toRun EXCEPT ![r] = @ - 1] /\ workers' = [workers EXCEPT ![r] = @ + 1]
    BY <1>2 DEF QueueRun
  <2>3. Counted' = Counted
    BY <2>1, <2>2 DEF Counted
  <2>4. CASE workers[r] = 0
    <3>1. exec[r].pc = "idle" /\ ExecutorAt("load", NoRun, 1).pc = "load"
      BY <2>4 DEF TypeInv, ExecutorIsCounted, ExecutorAt
    <3>2. exec' = [exec EXCEPT ![r] = ExecutorAt("load", NoRun, 1)]
      BY <1>2, <2>4 DEF QueueRun
    <3>3. InExecute' = InExecute
      BY <3>1, <3>2, ExecutorGoesOn
    <3> QED
      BY <2>3, <3>3, SameCalls
  <2>5. CASE workers[r] # 0
    <3>1. InExecute' = InExecute
      BY <1>2, <2>5 DEF QueueRun, InExecute
    <3> QED
      BY <2>3, <3>1, SameCalls
  <2> QED
    BY <2>4, <2>5
<1>3. ASSUME ~ExecStep(r), ~QueueRun(r)
      PROVE  /\ UNCHANGED <<workers, exec>>
             /\ toRun' = [toRun EXCEPT ![r] = @ + 1] \/ UNCHANGED toRun
  <2>1. toRun \in [Runs -> Nat]
    BY DEF TypeInv, TypeOK
  <2>2. toRun = [toRun EXCEPT ![r] = toRun[r]]
    BY <2>1
  <2> QED
    BY <1>3, <2>2 DEF RunStep, CreateStep, Create, CreateErrored, ResumeStep, ResumeConfirming,
       ResumeConnecting, ResumePending, UpdateAndTrigger, Conflict, AnswerStep, AnswerArrives,
       CancelLoad, Cancel
<1>4. CASE ~ExecStep(r) /\ ~QueueRun(r)
  <2>1. CASE UNCHANGED toRun
    <3>1. Counted' = Counted /\ InExecute' = InExecute
      BY <1>3, <1>4, <2>1 DEF Counted, InExecute
    <3> QED
      BY <3>1, SameCalls
  <2>2. CASE toRun' = [toRun EXCEPT ![r] = @ + 1]
    <3>1. Requests!Request(r)
      BY <1>3, <1>4, <2>2, CallIsARequest
    <3> QED
      BY <3>1 DEF Requests!Next
  <2> QED
    BY <1>3, <1>4, <2>1, <2>2
<1> QED
  BY <1>1, <1>2, <1>4

\* The node uses its queue as RunRequests has it, for any number of runs, tasks, actors in
\* conflict and crashes: between two starts no call is lost, none is answered twice, and
\* executions of one run do not overlap.  Module RunQueue implements the same.
THEOREM EveryCallIsAnswered == Spec => CallsAreAnswered
<1>1. IInv /\ [Next]_vars =>
        [up /\ up' => Requests!Next \/ UNCHANGED Requests!rvars]_vars
  <2> SUFFICES ASSUME IInv, Next, up, up'
               PROVE  Requests!Next \/ UNCHANGED Requests!rvars
    BY DEF vars
  <2>1. TypeInv
    BY DEF IInv
  <2>2. ASSUME NEW r \in Runs, RunStep(r) PROVE Requests!Next \/ UNCHANGED Requests!rvars
    BY <2>1, <2>2, RunStepIsOfRequests
  <2>3. CASE NodeStep
    <3>1. UNCHANGED <<toRun, workers, exec>>
      BY <2>3 DEF NodeStep, ArchiveJob, ResumeAllConfirming, LoadBatch, Connect, Disconnect,
                  OnNewHead, Crash, Start, queueVars
    <3>2. Counted' = Counted /\ InExecute' = InExecute
      BY <3>1 DEF Counted, InExecute
    <3> QED
      BY <3>2, SameCalls
  <2> QED
    BY <2>2, <2>3 DEF Next
<1>2. Init => IInv
  BY TypeInit, RunInvInit DEF IInv
<1>3. IInv /\ [Next]_vars => IInv'
  BY IInvNext
<1> QED
  BY <1>1, <1>2, <1>3, PTL DEF Spec, CallsAreAnswered

----------------------------------------------------------------------------
(* What the outside world is asked for, and the results: the invariant.     *)

\* Nobody knows a run that has no row.
Unknown(r) ==
    r \notin created =>
        /\ db[r] = NoRun /\ fresh[r] = {} /\ toRun[r] = 0 /\ exec[r].pc = "idle"
        /\ \A k \in Resumers : r \notin resumer[k].runs

\* Does the executor hold a copy?
Holds(r) == exec[r].pc \in {"task", "save"}

\* A completed task of the executor's copy is completed in the row, but for the one
\* that is about to be saved.
CompletedIsStored(r) ==
    Holds(r) =>
        \A j \in Tasks : exec[r].run.task[j].status = "completed" =>
            \/ db[r].task[j].status = "completed"
            \/ exec[r].pc = "save" /\ j = exec[r].next

\* A copy that will go through differs from the row in the task it was performed for,
\* which the row does not have as completed.
SavesOneTask(r) ==
    exec[r].pc = "save" /\ "executor" \in fresh[r] =>
        /\ db[r].task[exec[r].next].status # "completed"
        /\ \A j \in Tasks \ {exec[r].next} : exec[r].run.task[j] = db[r].task[j]

\* The tasks before the one the executor is at have their results in the row.
WalkedIsSettled(r) ==
    exec[r].pc = "save" \/ (exec[r].pc = "task" /\ Runnable(exec[r].run.status)) =>
        \A j \in Tasks : j < exec[r].next => Settled(db[r], j)

\* The executor goes on only with a result.
GoesOnWithResult(r) ==
    exec[r].pc = "save" /\ Runnable(exec[r].run.status) => Settled(exec[r].run, exec[r].next)

\* A run has observed the head that the node has seen, an earlier one, or none since the
\* log that started it.
Observed(run) ==
    /\ run.observed = NoHeight => run.creation = NoHeight
    /\ run.observed <= height \/ run.observed = run.creation

CopyHasObserved(r) ==
    Holds(r) => exec[r].run.creation = db[r].creation /\ Observed(exec[r].run)

CopyInv(r) ==
    /\ CompletedIsStored(r) /\ SavesOneTask(r) /\ WalkedIsSettled(r) /\ GoesOnWithResult(r)
    /\ Observed(db[r]) /\ CopyHasObserved(r)

EInv == IInv /\ \A r \in Runs : Unknown(r) /\ CopyInv(r)

----------------------------------------------------------------------------
(* What the others write: only a task that can start, and the head.         *)

Keeps(run, new) ==
    /\ \A j \in Tasks : ~CanStart(run.task[j].status) => new.task[j] = run.task[j]
    /\ new.creation = run.creation
    /\ new.observed = run.observed \/ new.observed = height

LEMMA SetStatusKeeps ==
    ASSUME NEW run \in JobRun, NEW s \in RunStatuses
    PROVE  /\ SetStatus(run, s).task = run.task
           /\ SetStatus(run, s).creation = run.creation
           /\ SetStatus(run, s).observed = run.observed
BY DEF SetStatus, JobRun

LEMMA SetTaskKeeps ==
    ASSUME NEW run \in JobRun, NEW i \in Tasks, NEW s \in RunStatuses
    PROVE  /\ SetTask(run, i, s) \in JobRun
           /\ \A j \in Tasks \ {i} : SetTask(run, i, s).task[j] = run.task[j]
           /\ SetTask(run, i, s).creation = run.creation
           /\ SetTask(run, i, s).observed = run.observed
BY SetTaskType DEF SetTask, JobRun

LEMMA PauseAtKeeps ==
    ASSUME NEW run \in JobRun, NEW i \in Tasks, NEW s \in RunStatuses
    PROVE  /\ \A j \in Tasks \ {i} : PauseAt(run, i, s).task[j] = run.task[j]
           /\ PauseAt(run, i, s).task[i].status = s
           /\ PauseAt(run, i, s).status = s
           /\ PauseAt(run, i, s).creation = run.creation
           /\ PauseAt(run, i, s).observed = run.observed
BY DEF PauseAt, SetTask, JobRun, TaskRun

LEMMA ConfirmingKeeps ==
    ASSUME NEW run \in JobRun, height \in Nat, NEW onMainChain
    PROVE  Keeps(run, ConfirmingUpdate(run, height, onMainChain))
<1> DEFINE seen == [run EXCEPT !.observed = height]
           i    == NextTaskRun(seen)
<1>1. {"errored", "pending_confirmations", "in_progress"} \subseteq RunStatuses
  BY DEF RunStatuses, PendingStatuses
<1>2. seen \in JobRun /\ seen.task = run.task /\ seen.creation = run.creation
      /\ seen.observed = height
  BY DEF JobRun
<1>3. CASE ~TasksRemain(run)
  BY <1>1, <1>3, SetStatusKeeps DEF ConfirmingUpdate, Keeps
<1>4. CASE TasksRemain(run)
  <2>1. TasksRemain(seen) /\ NextTaskRun(run) = i
    BY <1>2, <1>4 DEF TasksRemain, NextTaskRun, Startable
  <2>2. i \in Tasks /\ CanStart(run.task[i].status)
    BY <1>2, <2>1, NextTaskRunIsFirst
  <2>3. ConfirmingUpdate(run, height, onMainChain) = validateMinimumConfirmations(seen, i, onMainChain)
    BY <1>4, <2>1 DEF ConfirmingUpdate
  <2> HIDE DEF seen, i
  <2> DEFINE new == validateMinimumConfirmations(seen, i, onMainChain)
  <2>4. /\ \A j \in Tasks \ {i} : new.task[j] = seen.task[j]
        /\ new.creation = seen.creation /\ new.observed = seen.observed
    <3>1. CASE new = PauseAt(seen, i, "pending_confirmations")
      BY <1>1, <1>2, <2>2, <3>1, PauseAtKeeps
    <3>2. CASE new = SetStatus(SetTask(seen, i, "errored"), "errored")
      <4> DEFINE set == SetTask(seen, i, "errored")
      <4>1. set \in JobRun /\ (\A j \in Tasks \ {i} : set.task[j] = seen.task[j])
            /\ set.creation = seen.creation /\ set.observed = seen.observed
        BY <1>1, <1>2, <2>2, SetTaskKeeps
      <4>2. new = SetStatus(set, "errored")
        BY <3>2
      <4> HIDE DEF set, new
      <4> QED
        BY <1>1, <4>1, <4>2, SetStatusKeeps
    <3>3. CASE new = [seen EXCEPT !.status = "in_progress"]
      BY <1>2, <3>3 DEF JobRun
    <3> QED
      BY <3>1, <3>2, <3>3 DEF validateMinimumConfirmations
  <2> QED
    BY <1>2, <2>2, <2>3, <2>4 DEF Keeps
<1> QED
  BY <1>3, <1>4

LEMMA ConnectingKeeps ==
    ASSUME NEW run \in JobRun
    PROVE  Keeps(run, ConnectingUpdate(run))
<1>1. {"errored", "in_progress"} \subseteq RunStatuses
  BY DEF RunStatuses
<1>2. CASE ~TasksRemain(run)
  BY <1>1, <1>2, SetStatusKeeps DEF ConnectingUpdate, Keeps
<1>3. CASE TasksRemain(run)
  <2>1. NextTaskRun(run) \in Tasks /\ CanStart(run.task[NextTaskRun(run)].status)
    BY <1>3, NextTaskRunIsFirst
  <2> QED
    BY <1>1, <1>3, <2>1, PauseAtKeeps DEF ConnectingUpdate, Keeps
<1> QED
  BY <1>2, <1>3

LEMMA PendingKeeps ==
    ASSUME NEW run \in JobRun, NEW result \in RunOutputs
    PROVE  Keeps(run, PendingUpdate(run, result))
<1> DEFINE merged == [run EXCEPT !.request = Merge(@, result.data)]
           i      == NextTaskRun(run)
           new    == [merged EXCEPT !.task[i] = result]
<1>1. "errored" \in RunStatuses /\ result.status \in RunStatuses /\ result \in TaskRun
  BY DEF RunStatuses, RunOutputs, TaskRun
<1>2. merged \in JobRun /\ merged.task = run.task /\ merged.creation = run.creation
      /\ merged.observed = run.observed
  BY DEF JobRun, RunOutputs, Merge
<1>3. CASE ~TasksRemain(run)
  BY <1>1, <1>3, SetStatusKeeps DEF PendingUpdate, Keeps
<1>4. CASE TasksRemain(run)
  <2>1. i \in Tasks /\ CanStart(run.task[i].status)
    BY <1>4, NextTaskRunIsFirst
  <2> HIDE DEF merged, i
  <2>2. new \in JobRun /\ (\A j \in Tasks \ {i} : new.task[j] = run.task[j])
        /\ new.creation = run.creation /\ new.observed = run.observed
    BY <1>1, <1>2, <2>1 DEF JobRun
  <2>3. PendingUpdate(run, result) = SetStatus(new, result.status)
    BY <1>4 DEF PendingUpdate, ApplyBridgeRunResult, merged, i
  <2> HIDE DEF new
  <2> QED
    BY <1>1, <2>1, <2>2, <2>3, SetStatusKeeps DEF Keeps
<1> QED
  BY <1>3, <1>4

LEMMA CancelKeeps ==
    ASSUME NEW run \in JobRun
    PROVE  Keeps(run, CancelRun(run))
<1>1. "cancelled" \in RunStatuses
  BY DEF RunStatuses
<1>2. CASE ~TasksRemain(run)
  BY <1>1, <1>2, SetStatusKeeps DEF CancelRun, Keeps
<1>3. CASE TasksRemain(run)
  <2>1. NextTaskRun(run) \in Tasks /\ CanStart(run.task[NextTaskRun(run)].status)
    BY <1>3, NextTaskRunIsFirst
  <2> DEFINE i   == NextTaskRun(run)
             set == SetTask(run, i, "cancelled")
  <2>2. set \in JobRun /\ (\A j \in Tasks \ {i} : set.task[j] = run.task[j])
        /\ set.creation = run.creation /\ set.observed = run.observed
    BY <1>1, <2>1, SetTaskKeeps
  <2>3. CancelRun(run) = SetStatus(set, "cancelled")
    BY <1>3 DEF CancelRun
  <2> HIDE DEF set, i
  <2> QED
    BY <1>1, <2>1, <2>2, <2>3, SetStatusKeeps DEF Keeps, i
<1> QED
  BY <1>2, <1>3

LEMMA ApplyOutputKeeps ==
    ASSUME NEW run \in JobRun, NEW i \in Tasks, NEW out \in RunOutputs
    PROVE  /\ ApplyOutput(run, i, out).creation = run.creation
           /\ ApplyOutput(run, i, out).observed = run.observed
<1> DEFINE data == IF out.status = "errored" THEN run.task[i].data ELSE out.data
           set  == [run EXCEPT !.task[i] = [status |-> out.status, data |-> data]]
<1>1. out.status \in RunStatuses /\ data \in Data
  BY DEF RunOutputs, JobRun, TaskRun
<1>2. set \in JobRun /\ set.creation = run.creation /\ set.observed = run.observed
  BY <1>1 DEF JobRun, TaskRun
<1>3. ApplyOutput(run, i, out) = SetStatus(set, out.status)
  BY DEF ApplyOutput
<1> HIDE DEF set
<1> QED
  BY <1>1, <1>2, <1>3, SetStatusKeeps

\* An adapter never cancels.
LEMMA PerformAnswers ==
    ASSUME NEW run \in JobRun, NEW i \in Tasks, NEW online \in BOOLEAN,
           NEW o \in Perform(run, i, online)
    PROVE  o.out.status \in {"in_progress", "completed", "errored"} \cup PendingStatuses
<1> DEFINE status == run.task[i].status
           input  == TaskInput(run, i)
           Answers(S) == \A x \in S : x.out.status # "cancelled"
<1>1. Kind[i] \in AdapterKinds
  BY KindAssumption
<1>2. Answers(PlainPerform(i)) /\ Answers(BridgePerform(i, status, input))
  BY DEF PlainPerform, BridgePerform, Outcome, RunOutput
<1>3. Answers(EthTxPerform(status, input, online))
  <2>1. Answers(EnsureTx(input)) /\ Answers(CreateTx(input))
    BY DEF EnsureTx, CreateTx, Outcome, RunOutput
  <2>2. \A x : /\ Outcome("none", "pending_confirmations", x).out.status = "pending_confirmations"
               /\ Outcome("none", "pending_connection", x).out.status = "pending_connection"
    BY DEF Outcome, RunOutput
  <2> QED
    BY <2>1, <2>2 DEF EthTxPerform
<1> HIDE DEF status, input
<1>4. o \in CASE Kind[i] = "plain"  -> PlainPerform(i)
              [] Kind[i] = "bridge" -> BridgePerform(i, status, input)
              [] Kind[i] = "ethtx"  -> EthTxPerform(status, input, online)
  BY DEF Perform, status, input
<1>5. o.out.status # "cancelled"
  BY <1>1, <1>2, <1>3, <1>4 DEF AdapterKinds
<1>6. o.out.status \in RunStatuses
  BY PerformType DEF Outcomes, RunOutputs
<1> QED
  BY <1>5, <1>6, PerformStatus DEF RunStatuses

----------------------------------------------------------------------------
(* A run that has no row.                                                   *)

LEMMA UnknownInit == Init => \A r \in Runs : Unknown(r)
BY InitialValues DEF Init, Unknown, IdlePass

LEMMA UnknownNext ==
    ASSUME IInv, \A q \in Runs : Unknown(q), [Next]_vars, NEW r \in Runs
    PROVE  Unknown(r)'
<1> USE DEF dbVars, nodeVars, queueVars, worldVars
<1> SUFFICES ASSUME r \notin created'
             PROVE  /\ db'[r] = NoRun /\ fresh'[r] = {} /\ toRun'[r] = 0
                    /\ exec'[r].pc = "idle"
                    /\ \A k \in Resumers : r \notin resumer'[k].runs
  BY DEF Unknown
<1>1. /\ db \in [Runs -> JobRun] /\ fresh \in [Runs -> SUBSET Actors]
      /\ toRun \in [Runs -> Nat] /\ exec \in [Runs -> Executor]
      /\ resumer \in [Resumers -> Pass]
  BY DEF IInv, TypeInv, TypeOK
<1>2. CASE UNCHANGED vars
  BY <1>2 DEF vars, Unknown
<1>3. CASE NodeStep
  <2>1. created' = created /\ db' = db
    BY <1>3 DEF NodeStep, ArchiveJob, ResumeAllConfirming, LoadBatch, Connect, Disconnect,
                OnNewHead, Crash, Start
  <2>2. Unknown(r) /\ r \notin created /\ r \notin WaitingRuns /\ r \notin InterruptedRuns
    BY <2>1 DEF WaitingRuns, InterruptedRuns
  <2>3. CASE ArchiveJob \/ Disconnect \/ OnNewHead
    BY <2>1, <2>2, <2>3 DEF ArchiveJob, Disconnect, OnNewHead, Unknown
  <2>4. CASE ResumeAllConfirming \/ Connect
    <3>1. PICK k \in Resumers : StartPass(k)
      BY <2>4 DEF ResumeAllConfirming, Connect, Resumers
    <3>2. \A c \in Resumers : r \notin resumer'[c].runs
      BY <1>1, <2>2, <3>1 DEF StartPass, Unknown
    <3> QED
      BY <2>1, <2>2, <2>4, <3>2 DEF ResumeAllConfirming, Connect, Unknown
  <2>5. ASSUME NEW k \in Resumers, LoadBatch(k)
        PROVE  /\ fresh'[r] = {} /\ toRun'[r] = 0 /\ exec'[r].pc = "idle"
               /\ \A c \in Resumers : r \notin resumer'[c].runs
    BY <1>1, <2>2, <2>5 DEF LoadBatch, Unknown, IdlePass
  <2>6. CASE Crash
    BY <2>1, <2>2, <2>6, InitialValues DEF Crash, Unknown, IdlePass
  <2>7. CASE Start
    BY <2>1, <2>2, <2>7, InitialValues DEF Start, Unknown
  <2> QED
    BY <1>3, <2>1, <2>2, <2>3, <2>4, <2>5, <2>6, <2>7 DEF NodeStep, Unknown
<1>4. ASSUME NEW q \in Runs, RunStep(q), q # r
      PROVE  /\ db'[r] = NoRun /\ fresh'[r] = {} /\ toRun'[r] = 0
             /\ exec'[r].pc = "idle"
             /\ \A k \in Resumers : r \notin resumer'[k].runs
  <2>1. r \notin created
    BY <1>4 DEF RunStep, CreateStep, Create, CreateErrored, ExecStep, ExecLoad, ExecStop,
                ExecSave, ExecDone, ExecSkip, ExecPause, ExecPerform, QueueRun, ResumeStep,
                ResumeConfirming, ResumeConnecting, ResumePending, AnswerStep,
                AnswerArrives, CancelLoad, Cancel
  <2>2. Unknown(r)
    OBVIOUS
  <2>3. db'[r] = db[r]
    BY <1>1, <1>4
       DEF RunStep, CreateStep, Create, CreateErrored, ExecStep, ExecLoad, ExecStop,
           ExecSave, ExecDone, ExecSkip, ExecPause, ExecPerform, QueueRun, ResumeStep,
           ResumeConfirming, ResumeConnecting, ResumePending, AnswerStep,
           AnswerArrives, CancelLoad, Cancel, UpdateAndTrigger, SaveAndForget, Save,
           Conflict
  <2>4. fresh'[r] = fresh[r]
    BY <1>1, <1>4
       DEF RunStep, CreateStep, Create, CreateErrored, ExecStep, ExecLoad, ExecStop,
           ExecSave, ExecDone, ExecSkip, ExecPause, ExecPerform, QueueRun, ResumeStep,
           ResumeConfirming, ResumeConnecting, ResumePending, AnswerStep,
           AnswerArrives, CancelLoad, Cancel, UpdateAndTrigger, SaveAndForget, Save,
           Conflict, Load
  <2>5. toRun'[r] = toRun[r]
    BY <1>1, <1>4
       DEF RunStep, CreateStep, Create, CreateErrored, ExecStep, ExecLoad, ExecStop,
           ExecSave, ExecDone, ExecSkip, ExecPause, ExecPerform, QueueRun, ResumeStep,
           ResumeConfirming, ResumeConnecting, ResumePending, AnswerStep,
           AnswerArrives, CancelLoad, Cancel, UpdateAndTrigger
  <2>6. exec'[r] = exec[r]
    BY <1>1, <1>4
       DEF RunStep, CreateStep, Create, CreateErrored, ExecStep, ExecLoad, ExecStop,
           ExecSave, ExecDone, ExecSkip, ExecPause, ExecPerform, QueueRun, ResumeStep,
           ResumeConfirming, ResumeConnecting, ResumePending, AnswerStep,
           AnswerArrives, CancelLoad, Cancel
  <2>7. resumer' = resumer \/ \E k \in Resumers : WorkOn(k, q)
    BY <1>4
       DEF RunStep, CreateStep, Create, CreateErrored, ExecStep, ExecLoad, ExecStop,
           ExecSave, ExecDone, ExecSkip, ExecPause, ExecPerform, QueueRun, ResumeStep,
           ResumeConfirming, ResumeConnecting, ResumePending, AnswerStep,
           AnswerArrives, CancelLoad, Cancel, Resumers
  <2>8. \A k \in Resumers : r \notin resumer'[k].runs
    BY <1>1, <2>1, <2>2, <2>7 DEF WorkOn, Unknown, IdlePass
  <2> QED
    BY <2>1, <2>2, <2>3, <2>4, <2>5, <2>6, <2>8 DEF Unknown
<1>5. ASSUME RunStep(r)
      PROVE  /\ db'[r] = NoRun /\ fresh'[r] = {} /\ toRun'[r] = 0
             /\ exec'[r].pc = "idle"
             /\ \A k \in Resumers : r \notin resumer'[k].runs
  <2>1. /\ Unknown(r) /\ r \notin created /\ ~CreateStep(r)
    BY <1>5 DEF RunStep, CreateStep, Create, CreateErrored, ExecStep, ExecLoad, ExecStop,
                ExecSave, ExecDone, ExecSkip, ExecPause, ExecPerform, QueueRun, ResumeStep,
                ResumeConfirming, ResumeConnecting, ResumePending, AnswerStep,
                AnswerArrives, CancelLoad, Cancel
  <2>2. ~ExecStep(r)
    BY <2>1 DEF Unknown, ExecStep, ExecLoad, ExecStop, ExecSave, ExecDone, ExecSkip,
                ExecPause, ExecPerform, AtTask
  <2>3. ~QueueRun(r) /\ ~CancelLoad(r)
    BY <2>1 DEF Unknown, QueueRun, CancelLoad
  <2>4. ~ResumeConnecting(r) /\ \A onMainChain : ~ResumeConfirming(r, onMainChain)
    BY <2>1 DEF Unknown, ResumeConnecting, ResumeConfirming, WorkOn, Resumers
  <2>5. ~AnswerStep(r)
    <3>1. NoRun.status = "in_progress"
      BY NewRunHasWork DEF NoRun
    <3> QED
      BY <2>1, <3>1 DEF Unknown, AnswerStep, AnswerArrives
  <2>6. CASE ResumePending(r)
    BY <2>1, <2>6 DEF Unknown, ResumePending, UpdateAndTrigger, SaveAndForget, Conflict
  <2>7. CASE Cancel(r)
    BY <2>1, <2>7 DEF Unknown, Cancel, SaveAndForget, Conflict
  <2> QED
    BY <1>5, <2>1, <2>2, <2>3, <2>4, <2>5, <2>6, <2>7 DEF RunStep, ResumeStep
<1> QED
  BY <1>2, <1>3, <1>4, <1>5 DEF Next

----------------------------------------------------------------------------
(* The executor's copy and the row.                                         *)

LEMMA SettledCannotStart ==
    ASSUME NEW run, NEW j \in Tasks, run.task[j].status = "completed" \/ Settled(run, j)
    PROVE  ~CanStart(run.task[j].status)
BY DEF Settled, CanStart, Pending, PendingStatuses

\* An executor that holds no copy.
LEMMA CopyIsGone ==
    ASSUME NEW r \in Runs, ~Holds(r)', Observed(db[r])'
    PROVE  CopyInv(r)'
BY DEF CopyInv, Holds, CompletedIsStored, SavesOneTask, WalkedIsSettled, GoesOnWithResult,
       CopyHasObserved

\* Others read, and heads arrive.
LEMMA CopyUntouched ==
    ASSUME NEW r \in Runs, TypeInv, CopyInv(r), db'[r] = db[r], exec'[r] = exec[r],
           "executor" \in fresh'[r] => "executor" \in fresh[r],
           height' \in Nat, height <= height'
    PROVE  CopyInv(r)'
<1>1. db[r] \in JobRun /\ exec[r].run \in JobRun /\ height \in Nat
  BY ExecutorParts, BoundsAssumption DEF TypeInv, TypeOK
<1>2. Observed(db[r])'
  BY <1>1 DEF CopyInv, Observed, JobRun, NoHeight
<1>3. CopyHasObserved(r)'
  BY <1>1 DEF CopyInv, CopyHasObserved, Holds, Observed, JobRun, NoHeight
<1> QED
  BY <1>2, <1>3
     DEF CopyInv, Holds, CompletedIsStored, SavesOneTask, WalkedIsSettled, GoesOnWithResult

\* Another actor writes the row.
LEMMA CopyOverwritten ==
    ASSUME NEW r \in Runs, TypeInv, CopyInv(r), Keeps(db[r], db'[r]), db'[r] \in JobRun,
           exec'[r] = exec[r], "executor" \notin fresh'[r], height' = height
    PROVE  CopyInv(r)'
<1>1. /\ db[r] \in JobRun /\ exec[r].run \in JobRun /\ height \in Nat
      /\ exec[r].next \in 1 .. TaskCount + 1
  BY ExecutorParts, BoundsAssumption DEF TypeInv, TypeOK
<1>2. \A j \in Tasks : db[r].task[j].status = "completed" \/ Settled(db[r], j)
                          => db'[r].task[j] = db[r].task[j]
  BY SettledCannotStart DEF Keeps
<1>3. Observed(db[r])'
  BY <1>1 DEF CopyInv, Keeps, Observed, JobRun, NoHeight
<1>4. CopyHasObserved(r)'
  BY <1>1 DEF CopyInv, CopyHasObserved, Holds, Observed, Keeps
<1>5. CompletedIsStored(r)'
  BY <1>2 DEF CopyInv, CompletedIsStored, Holds
<1>6. WalkedIsSettled(r)'
  BY <1>2 DEF CopyInv, WalkedIsSettled, Settled
<1>7. SavesOneTask(r)' /\ GoesOnWithResult(r)'
  BY DEF CopyInv, SavesOneTask, GoesOnWithResult
<1> QED
  BY <1>3, <1>4, <1>5, <1>6, <1>7 DEF CopyInv

\* The executor has performed a task, or has told it to wait.
LEMMA CopyPerformed ==
    ASSUME NEW r \in Runs, IInv, CopyInv(r), NEW i \in Tasks, AtTask(r, i),
           exec[r].run.task[i].status # "completed", NEW run \in JobRun,
           exec'[r] = ExecutorAt("save", run, i),
           UNCHANGED <<db, fresh, height>>,
           \A j \in Tasks \ {i} : run.task[j] = exec[r].run.task[j],
           Runnable(run.status) => Settled(run, i),
           run.creation = exec[r].run.creation, run.observed = exec[r].run.observed
    PROVE  CopyInv(r)'
<1>1. /\ exec'[r].pc = "save" /\ exec'[r].run = run /\ exec'[r].next = i
      /\ exec[r].pc = "task" /\ exec[r].next = i /\ Runnable(exec[r].run.status)
  BY DEF AtTask, ExecutorAt
<1>2. "executor" \in fresh[r] => exec[r].run = db[r]
  BY <1>1 DEF IInv, RunInv, CopyIsRow
<1>3. CompletedIsStored(r)'
  BY <1>1 DEF CopyInv, CompletedIsStored, Holds
<1>4. SavesOneTask(r)'
  BY <1>1, <1>2 DEF SavesOneTask
<1>5. WalkedIsSettled(r)'
  BY <1>1 DEF CopyInv, WalkedIsSettled
<1>6. GoesOnWithResult(r)'
  BY <1>1 DEF GoesOnWithResult
<1>7. Observed(db[r])' /\ CopyHasObserved(r)'
  BY <1>1 DEF CopyInv, CopyHasObserved, Observed, Holds
<1> QED
  BY <1>3, <1>4, <1>5, <1>6, <1>7 DEF CopyInv

LEMMA CopyExecStep ==
    ASSUME EInv, NEW r \in Runs, ExecStep(r)
    PROVE  CopyInv(r)'
<1> USE DEF dbVars, nodeVars, queueVars, worldVars
<1>1. /\ exec[r].run \in JobRun
      /\ exec[r].next \in 1 .. TaskCount + 1
      /\ exec[r].pc = "save" => exec[r].next \in Tasks
      /\ db[r] \in JobRun
      /\ connected \in BOOLEAN /\ height \in Nat
  BY ExecutorParts, BoundsAssumption DEF EInv, IInv, TypeInv, TypeOK, SavesTask
<1>2. /\ exec \in [Runs -> Executor] /\ db \in [Runs -> JobRun]
      /\ fresh \in [Runs -> SUBSET Actors]
  BY DEF EInv, IInv, TypeInv, TypeOK
<1>3. IInv /\ CopyInv(r) /\ Observed(db[r])
  BY DEF EInv, CopyInv
<1>4. height' = height
  BY DEF ExecStep, ExecLoad, ExecStop, ExecSave, ExecDone, ExecSkip, ExecPause, ExecPerform
<1>5. CASE ExecLoad(r)
  <2>1. exec'[r].pc = "task" /\ exec'[r].run = db[r] /\ exec'[r].next = 1 /\ db' = db
    BY <1>2, <1>5 DEF ExecLoad, ExecutorAt
  <2>2. \A j \in Tasks : ~(j < 1)
    BY DEF Tasks
  <2> QED
    BY <1>3, <1>4, <2>1, <2>2
       DEF CopyInv, Holds, CompletedIsStored, SavesOneTask, WalkedIsSettled, GoesOnWithResult,
           CopyHasObserved, Observed
<1>6. CASE ExecStop(r) \/ ExecDone(r)
  <2>1. ~Holds(r)' /\ db' = db
    BY <1>2, <1>6, InitialValues DEF ExecStop, ExecDone, ExecutorAt, Holds
  <2> QED
    BY <1>3, <1>4, <2>1, CopyIsGone DEF Observed
<1>7. CASE ExecSave(r)
  <2>1. CASE Conflict(r, "executor")
    <3>1. exec'[r].pc = "done" /\ db' = db
      BY <1>2, <1>7, <2>1 DEF ExecSave, Save, Conflict, ExecutorAt
    <3> QED
      BY <1>3, <1>4, <3>1, CopyIsGone DEF Observed, Holds
  <2>2. CASE Save(r, "executor", exec[r].run)
    <3>1. /\ exec'[r].pc = "task" /\ exec'[r].run = exec[r].run
          /\ exec'[r].next = exec[r].next + 1 /\ exec[r].pc = "save"
          /\ db'[r] = exec[r].run /\ "executor" \in fresh[r]
      BY <1>2, <1>7, <2>2 DEF ExecSave, Save, Conflict, ExecutorAt
    <3>2. CompletedIsStored(r)' /\ SavesOneTask(r)' /\ GoesOnWithResult(r)'
      BY <3>1 DEF CompletedIsStored, SavesOneTask, GoesOnWithResult
    <3>3. ASSUME Runnable(exec[r].run.status), NEW j \in Tasks, j < exec[r].next + 1
          PROVE  Settled(exec[r].run, j)
      <4>1. CASE j = exec[r].next
        BY <1>3, <3>1, <3>3, <4>1 DEF CopyInv, GoesOnWithResult
      <4>2. CASE j # exec[r].next
        <5>1. j < exec[r].next
          BY <1>1, <3>3, <4>2 DEF Tasks
        <5>2. Settled(db[r], j)
          BY <1>3, <3>1, <5>1 DEF CopyInv, WalkedIsSettled
        <5>3. exec[r].run.task[j] = db[r].task[j]
          BY <1>3, <3>1, <4>2 DEF CopyInv, SavesOneTask
        <5> QED
          BY <5>2, <5>3 DEF Settled
      <4> QED
        BY <4>1, <4>2
    <3>4. WalkedIsSettled(r)'
      BY <3>1, <3>3 DEF WalkedIsSettled
    <3>5. Observed(db[r])' /\ CopyHasObserved(r)'
      BY <1>3, <1>4, <3>1 DEF CopyInv, CopyHasObserved, Observed, Holds
    <3> QED
      BY <3>2, <3>4, <3>5 DEF CopyInv
  <2> QED
    BY <1>7, <2>1, <2>2 DEF ExecSave
<1>8. ASSUME NEW i \in Tasks, ExecSkip(r, i)
      PROVE  CopyInv(r)'
  <2>1. /\ exec'[r].pc = "task" /\ exec'[r].run = exec[r].run /\ exec'[r].next = i + 1
        /\ exec[r].pc = "task" /\ exec[r].next = i /\ Runnable(exec[r].run.status)
        /\ exec[r].run.task[i].status = "completed" /\ db' = db /\ fresh' = fresh
    BY <1>2, <1>8 DEF ExecSkip, AtTask, ExecutorAt
  <2>2. Settled(db[r], i)
    BY <1>3, <2>1 DEF CopyInv, CompletedIsStored, Holds, Settled
  <2>3. \A j \in Tasks : j < i + 1 => j < i \/ j = i
    BY DEF Tasks
  <2>4. WalkedIsSettled(r)'
    BY <1>3, <2>1, <2>2, <2>3 DEF CopyInv, WalkedIsSettled
  <2>5. CompletedIsStored(r)'
    BY <1>3, <2>1 DEF CopyInv, CompletedIsStored, Holds
  <2>6. SavesOneTask(r)' /\ GoesOnWithResult(r)'
    BY <2>1 DEF SavesOneTask, GoesOnWithResult
  <2>7. Observed(db[r])' /\ CopyHasObserved(r)'
    BY <1>3, <1>4, <2>1 DEF CopyInv, CopyHasObserved, Observed, Holds
  <2> QED
    BY <2>4, <2>5, <2>6, <2>7 DEF CopyInv
<1>9. ASSUME NEW i \in Tasks, ExecPause(r, i)
      PROVE  CopyInv(r)'
  <2> DEFINE run == PauseAt(exec[r].run, i, "pending_confirmations")
  <2>1. "pending_confirmations" \in RunStatuses
    BY DEF RunStatuses, PendingStatuses
  <2>2. /\ run \in JobRun /\ run.status = "pending_confirmations"
        /\ \A j \in Tasks \ {i} : run.task[j] = exec[r].run.task[j]
        /\ run.creation = exec[r].run.creation /\ run.observed = exec[r].run.observed
    BY <1>1, <2>1, PauseAtType, PauseAtKeeps
  <2>3. exec'[r] = ExecutorAt("save", run, i)
    BY <1>2, <1>9 DEF ExecPause
  <2> HIDE DEF run
  <2>4. ~Runnable(run.status)
    BY <2>2 DEF Runnable, Pending, PendingStatuses
  <2>5. /\ AtTask(r, i) /\ exec[r].run.task[i].status # "completed"
        /\ UNCHANGED <<db, fresh, height>>
    BY <1>9 DEF ExecPause
  <2> QED
    BY <1>3, <2>2, <2>3, <2>4, <2>5, CopyPerformed
<1>10. ASSUME NEW i \in Tasks, ExecPerform(r, i)
       PROVE  CopyInv(r)'
  <2>1. PICK o \in Perform(exec[r].run, i, connected) :
          exec' = [exec EXCEPT ![r] = ExecutorAt("save", ApplyOutput(@.run, i, o.out), i)]
    BY <1>10 DEF ExecPerform
  <2>2. o.out \in RunOutputs
    BY <1>1, PerformType DEF Outcomes
  <2>3. /\ o.out.status \in {"in_progress", "completed", "errored"} \cup PendingStatuses
        /\ o.out.status = "in_progress" => Kind[i] = "bridge"
    BY <1>1, PerformStatus, PerformAnswers
  <2> DEFINE run == ApplyOutput(exec[r].run, i, o.out)
  <2>4. run \in JobRun
    BY <1>1, <2>2, ApplyOutputType
  <2>5. exec'[r] = ExecutorAt("save", run, i)
    BY <1>2, <2>1
  <2>6. /\ run.task[i].status = o.out.status
        /\ \A j \in Tasks \ {i} : run.task[j] = exec[r].run.task[j]
        /\ Runnable(run.status) => Runnable(o.out.status)
    BY <1>1, <2>2, ApplyOutputResult
  <2>7. run.creation = exec[r].run.creation /\ run.observed = exec[r].run.observed
    BY <1>1, <2>2, ApplyOutputKeeps
  <2> HIDE DEF run
  <2>8. Runnable(run.status) => Settled(run, i)
    BY <2>3, <2>6 DEF Runnable, Pending, Settled
  <2>9. /\ AtTask(r, i) /\ exec[r].run.task[i].status # "completed"
        /\ UNCHANGED <<db, fresh, height>>
    BY <1>10 DEF ExecPerform
  <2> QED
    BY <1>3, <2>4, <2>5, <2>6, <2>7, <2>8, <2>9, CopyPerformed
<1> QED
  BY <1>5, <1>6, <1>7, <1>8, <1>9, <1>10 DEF ExecStep

LEMMA CopyElsewhere ==
    ASSUME EInv, NEW r \in Runs, RunStep(r), NEW q \in Runs, q # r
    PROVE  CopyInv(q)'
<1> USE DEF dbVars, nodeVars, queueVars, worldVars
<1>1. /\ db \in [Runs -> JobRun] /\ fresh \in [Runs -> SUBSET Actors]
      /\ exec \in [Runs -> Executor] /\ height \in Nat /\ TypeInv /\ CopyInv(q)
  BY BoundsAssumption DEF EInv, IInv, TypeInv, TypeOK
<1>2. db'[q] = db[q]
  BY <1>1
     DEF RunStep, CreateStep, Create, CreateErrored, ExecStep, ExecLoad, ExecStop,
         ExecSave, ExecDone, ExecSkip, ExecPause, ExecPerform, QueueRun, ResumeStep,
         ResumeConfirming, ResumeConnecting, ResumePending, AnswerStep,
         AnswerArrives, CancelLoad, Cancel, UpdateAndTrigger, SaveAndForget, Save,
         Conflict
<1>3. fresh'[q] = fresh[q]
  BY <1>1
     DEF RunStep, CreateStep, Create, CreateErrored, ExecStep, ExecLoad, ExecStop,
         ExecSave, ExecDone, ExecSkip, ExecPause, ExecPerform, QueueRun, ResumeStep,
         ResumeConfirming, ResumeConnecting, ResumePending, AnswerStep,
         AnswerArrives, CancelLoad, Cancel, UpdateAndTrigger, SaveAndForget, Save,
         Conflict, Load
<1>4. exec'[q] = exec[q] /\ height' = height
  BY <1>1
     DEF RunStep, CreateStep, Create, CreateErrored, ExecStep, ExecLoad, ExecStop,
         ExecSave, ExecDone, ExecSkip, ExecPause, ExecPerform, QueueRun, ResumeStep,
         ResumeConfirming, ResumeConnecting, ResumePending, AnswerStep,
         AnswerArrives, CancelLoad, Cancel
<1> QED
  BY <1>1, <1>2, <1>3, <1>4, CopyUntouched

\* What an actor other than the executor saves.
LEMMA CopyTriggered ==
    ASSUME EInv, NEW r \in Runs, NEW a \in Actors, NEW run \in JobRun, Keeps(db[r], run),
           SaveAndForget(r, a, run) \/ Conflict(r, a), exec' = exec, height' = height
    PROVE  CopyInv(r)'
<1>1. /\ db \in [Runs -> JobRun] /\ fresh \in [Runs -> SUBSET Actors]
      /\ height \in Nat /\ TypeInv /\ CopyInv(r)
  BY BoundsAssumption DEF EInv, IInv, TypeInv, TypeOK
<1>2. CASE SaveAndForget(r, a, run)
  BY <1>1, <1>2, CopyOverwritten DEF SaveAndForget
<1>3. CASE Conflict(r, a)
  BY <1>1, <1>3, CopyUntouched DEF Conflict
<1> QED
  BY <1>2, <1>3

\* A new row.
LEMMA CopyCreated ==
    ASSUME EInv, NEW r \in Runs, r \notin created, NEW h \in Nat \cup {NoHeight},
           NEW valid \in BOOLEAN, db' = [db EXCEPT ![r] = NewRun(h, valid)], exec' = exec
    PROVE  CopyInv(r)'
<1>1. ~Holds(r)'
  BY DEF EInv, Unknown, Holds
<1>2. NewRun(h, valid).creation = h /\ NewRun(h, valid).observed = h
  BY DEF NewRun, SetStatus
<1>3. db'[r] = NewRun(h, valid)
  BY DEF EInv, IInv, TypeInv, TypeOK
<1>4. Observed(db[r])'
  BY <1>2, <1>3 DEF Observed
<1> QED
  BY <1>1, <1>4, CopyIsGone

LEMMA CopyOtherRunStep ==
    ASSUME EInv, NEW r \in Runs, RunStep(r), ~ExecStep(r)
    PROVE  CopyInv(r)'
<1> USE DEF dbVars, nodeVars, queueVars, worldVars
<1>1. /\ db \in [Runs -> JobRun] /\ fresh \in [Runs -> SUBSET Actors] /\ db[r] \in JobRun
      /\ exec \in [Runs -> Executor] /\ height \in Nat /\ TypeInv /\ CopyInv(r)
      /\ answer[r] \in RunOutputs
  BY BoundsAssumption DEF EInv, IInv, TypeInv, TypeOK
<1>2. {"bridge", "confirming", "connecting", "cancel"} \subseteq Actors
  BY DEF Actors, Resumers
<1>3. ASSUME NEW h \in {NoHeight, height, height + 1}, NEW valid \in BOOLEAN,
             Create(r, h, valid)
      PROVE  CopyInv(r)'
  <2>1. h \in Nat \cup {NoHeight}
    BY <1>1
  <2> QED
    BY <1>3, <2>1, CopyCreated DEF Create
<1>4. CASE CreateErrored(r)
  BY <1>4, CopyCreated DEF CreateErrored
<1>5. CASE QueueRun(r)
  <2>1. CASE workers[r] = 0
    <3>1. exec'[r].pc = "load" /\ db' = db /\ height' = height
      BY <1>1, <1>5, <2>1, InitialValues DEF QueueRun
    <3> QED
      BY <1>1, <3>1, CopyIsGone DEF Holds, CopyInv, Observed
  <2>2. CASE workers[r] # 0
    BY <1>1, <1>5, <2>2, CopyUntouched DEF QueueRun
  <2> QED
    BY <2>1, <2>2
<1>6. ASSUME NEW onMainChain \in BOOLEAN, ResumeConfirming(r, onMainChain)
      PROVE  CopyInv(r)'
  BY <1>1, <1>2, <1>6, ConfirmingUpdateType, ConfirmingKeeps, CopyTriggered
     DEF ResumeConfirming, UpdateAndTrigger
<1>7. CASE ResumeConnecting(r)
  BY <1>1, <1>2, <1>7, ConnectingUpdateType, ConnectingKeeps, CopyTriggered
     DEF ResumeConnecting, UpdateAndTrigger
<1>8. CASE ResumePending(r)
  BY <1>1, <1>2, <1>8, PendingUpdateType, PendingKeeps, CopyTriggered
     DEF ResumePending, UpdateAndTrigger
<1>9. CASE Cancel(r)
  BY <1>1, <1>2, <1>9, CancelRunType, CancelKeeps, CopyTriggered DEF Cancel
<1>10. CASE AnswerStep(r) \/ CancelLoad(r)
  <2>1. /\ db' = db /\ exec' = exec /\ height' = height
        /\ fresh'[r] = fresh[r] \cup {"bridge"} \/ fresh'[r] = fresh[r] \cup {"cancel"}
    BY <1>1, <1>10 DEF AnswerStep, AnswerArrives, CancelLoad, Load
  <2> QED
    BY <1>1, <2>1, CopyUntouched
<1> QED
  BY <1>3, <1>4, <1>5, <1>6, <1>7, <1>8, <1>9, <1>10 DEF RunStep, CreateStep, ResumeStep

LEMMA CopyNodeStep ==
    ASSUME EInv, NodeStep, NEW r \in Runs
    PROVE  CopyInv(r)'
<1> USE DEF dbVars, nodeVars, queueVars, worldVars
<1>1. /\ db \in [Runs -> JobRun] /\ fresh \in [Runs -> SUBSET Actors]
      /\ height \in 0 .. MaxHeight /\ height \in Nat /\ TypeInv /\ CopyInv(r)
  BY BoundsAssumption DEF EInv, IInv, TypeInv, TypeOK
<1>2. ASSUME NEW k \in Resumers, LoadBatch(k) PROVE CopyInv(r)'
  <2>1. k # "executor"
    BY DEF Resumers
  <2> QED
    BY <1>1, <1>2, <2>1, CopyUntouched DEF LoadBatch
<1>3. CASE ArchiveJob \/ ResumeAllConfirming \/ Connect \/ Disconnect
  BY <1>1, <1>3, CopyUntouched DEF ArchiveJob, ResumeAllConfirming, Connect, Disconnect
<1>4. CASE OnNewHead
  <2>1. height' \in Nat /\ height <= height'
    BY <1>1, <1>4, BoundsAssumption DEF OnNewHead
  <2> QED
    BY <1>1, <1>4, <2>1, CopyUntouched DEF OnNewHead
<1>5. CASE Crash \/ Start
  <2>1. db' = db /\ height' = height /\ exec'[r].pc \in {"idle", "load"}
    BY <1>5, InitialValues DEF Crash, Start
  <2> QED
    BY <1>1, <2>1, CopyIsGone DEF Holds, CopyInv, Observed
<1> QED
  BY <1>2, <1>3, <1>4, <1>5 DEF NodeStep

LEMMA EInvInit == Init => EInv
<1> SUFFICES ASSUME Init PROVE EInv
  OBVIOUS
<1>1. ASSUME NEW r \in Runs PROVE CopyInv(r)
  <2>1. exec[r].pc = "idle" /\ db[r] = NoRun
    BY InitialValues DEF Init
  <2>2. NoRun.observed = NoHeight /\ NoRun.creation = NoHeight
    BY DEF NoRun, NewRun
  <2> QED
    BY <2>1, <2>2
       DEF CopyInv, Holds, CompletedIsStored, SavesOneTask, WalkedIsSettled, GoesOnWithResult,
           CopyHasObserved, Observed
<1> QED
  BY <1>1, TypeInit, RunInvInit, UnknownInit DEF EInv, IInv

LEMMA EInvNext == EInv /\ [Next]_vars => EInv'
<1> SUFFICES ASSUME EInv, [Next]_vars PROVE EInv'
  OBVIOUS
<1>1. IInv' /\ \A r \in Runs : Unknown(r)'
  BY IInvNext, UnknownNext DEF EInv
<1>2. ASSUME NEW q \in Runs PROVE CopyInv(q)'
  <2>1. CASE NodeStep
    BY <2>1, CopyNodeStep
  <2>2. ASSUME NEW r \in Runs, RunStep(r) PROVE CopyInv(q)'
    BY <2>2, CopyExecStep, CopyOtherRunStep, CopyElsewhere
  <2>3. CASE UNCHANGED vars
    <3>1. TypeInv /\ CopyInv(q) /\ height \in Nat
      BY BoundsAssumption DEF EInv, IInv, TypeInv, TypeOK
    <3> QED
      BY <2>3, <3>1, CopyUntouched DEF vars, dbVars, nodeVars
  <2> QED
    BY <2>1, <2>2, <2>3 DEF Next
<1> QED
  BY <1>1, <1>2 DEF EInv

LEMMA EInvAlways == Spec => []EInv
BY EInvInit, EInvNext, PTL DEF Spec

----------------------------------------------------------------------------
(* The action properties.                                                   *)

\* What asks the outside world is the executor, at its task.
LEMMA ExecutorAsks ==
    ASSUME TypeInv, Next, NEW r \in Runs, Asks(r)
    PROVE  \E i \in Tasks : ExecPerform(r, i)
<1> USE DEF dbVars, nodeVars, queueVars, worldVars
<1>1. posts \in [Runs -> [Tasks -> Nat]] /\ txs \in [Runs -> Seq(Data)]
  BY DEF TypeInv, TypeOK
<1>2. ~NodeStep
  BY DEF Asks, NodeStep, ArchiveJob, ResumeAllConfirming, LoadBatch, Connect, Disconnect,
         OnNewHead, Crash, Start
<1>3. PICK q \in Runs : RunStep(q)
  BY <1>2 DEF Next
<1>4. PICK i \in Tasks : ExecPerform(q, i)
  BY <1>3 DEF Asks, RunStep, CreateStep, Create, CreateErrored, ExecStep, ExecLoad, ExecStop,
              ExecSave, ExecDone, ExecSkip, ExecPause, QueueRun, ResumeStep,
              ResumeConfirming, ResumeConnecting, ResumePending, AnswerStep,
              AnswerArrives, CancelLoad, Cancel
<1>5. q = r
  BY <1>1, <1>4 DEF Asks, ExecPerform, Effect
<1> QED
  BY <1>4, <1>5

\* The node asks the outside world for a step of a run only when the result of every
\* step before it is stored, for any number of runs, tasks, actors in conflict and crashes.
THEOREM EffectsAreInOrder == Spec => EffectAfterSave
<1>1. EInv /\ [Next]_vars =>
        [\A r \in Runs : Asks(r) => \A j \in 1 .. exec[r].next - 1 : Settled(db[r], j)]_vars
  <2> SUFFICES ASSUME EInv, Next, NEW r \in Runs, Asks(r), NEW j \in 1 .. exec[r].next - 1
               PROVE  Settled(db[r], j)
    BY DEF vars, Asks, worldVars
  <2>1. PICK i \in Tasks : ExecPerform(r, i)
    BY ExecutorAsks DEF EInv, IInv
  <2>2. j \in Tasks /\ j < exec[r].next
    BY <2>1, TaskCountAssumption DEF ExecPerform, AtTask, Tasks
  <2> QED
    BY <2>1, <2>2 DEF EInv, CopyInv, WalkedIsSettled, ExecPerform, AtTask
<1> QED
  BY <1>1, EInvAlways, PTL DEF EffectAfterSave, Spec

\* No adapter is called for a run before the log that started it has the confirmations the
\* task asks for, by the heads the node has seen, however old the executor's copy is.
THEOREM LogsAreConfirmed == Spec => EffectsAreConfirmed
<1>1. EInv /\ [Next]_vars => [\A r \in Runs : Asks(r) => LogIsConfirmed(r, exec[r].next)]_vars
  <2> SUFFICES ASSUME EInv, Next, NEW r \in Runs, Asks(r)
               PROVE  LogIsConfirmed(r, exec[r].next)
    BY DEF vars, Asks, worldVars
  <2>1. PICK i \in Tasks : ExecPerform(r, i)
    BY ExecutorAsks DEF EInv, IInv
  <2>2. exec[r].next = i /\ Holds(r) /\ meetsMinimumConfirmations(exec[r].run, i)
    BY <2>1 DEF ExecPerform, AtTask, Holds
  <2>3. exec[r].run.creation = db[r].creation /\ Observed(exec[r].run)
    BY <2>2 DEF EInv, CopyInv, CopyHasObserved
  <2>4. exec[r].run \in JobRun /\ height \in Nat /\ MinConfs[i] \in Nat
    BY ExecutorParts, BoundsAssumption, MinConfsAssumption DEF EInv, IInv, TypeInv, TypeOK
  <2> QED
    BY <2>2, <2>3, <2>4
       DEF Observed, LogIsConfirmed, meetsMinimumConfirmations, blockConfirmations, JobRun,
           NoHeight
<1> QED
  BY <1>1, EInvAlways, PTL DEF EffectsAreConfirmed, Spec

\* A task that is completed keeps its status and its output, whatever stale copies, late
\* answers, resumed runs and operators there are.
THEOREM CompletedTasksStay == Spec => CompletedTaskStays
<1>1. EInv /\ [Next]_vars =>
        [\A r \in created, i \in Tasks :
            db[r].task[i].status = "completed" => db'[r].task[i] = db[r].task[i]]_vars
  <2> SUFFICES ASSUME EInv, Next, NEW r \in created, NEW i \in Tasks,
                      db[r].task[i].status = "completed"
               PROVE  db'[r].task[i] = db[r].task[i]
    BY DEF vars
  <2> USE DEF dbVars, nodeVars, queueVars, worldVars
  <2>1. /\ db \in [Runs -> JobRun] /\ r \in Runs /\ db[r] \in JobRun /\ height \in Nat
        /\ answer[r] \in RunOutputs
    BY BoundsAssumption DEF EInv, IInv, TypeInv, TypeOK
  <2>2. ~CanStart(db[r].task[i].status)
    BY SettledCannotStart
  <2>3. CASE NodeStep
    BY <2>3 DEF NodeStep, ArchiveJob, ResumeAllConfirming, LoadBatch, Connect, Disconnect,
                OnNewHead, Crash, Start
  <2>4. ASSUME NEW q \in Runs, RunStep(q), q # r
        PROVE  db'[r] = db[r]
    BY <2>1, <2>4
       DEF RunStep, CreateStep, Create, CreateErrored, ExecStep, ExecLoad, ExecStop,
           ExecSave, ExecDone, ExecSkip, ExecPause, ExecPerform, QueueRun, ResumeStep,
           ResumeConfirming, ResumeConnecting, ResumePending, AnswerStep,
           AnswerArrives, CancelLoad, Cancel, UpdateAndTrigger, SaveAndForget, Save, Conflict
  <2>5. ASSUME NEW run, Keeps(db[r], run), NEW a,
               SaveAndForget(r, a, run) \/ Conflict(r, a)
        PROVE  db'[r].task[i] = db[r].task[i]
    BY <2>1, <2>2, <2>5 DEF Keeps, SaveAndForget, Conflict
  <2>6. CASE ResumeStep(r) \/ Cancel(r)
    BY <2>1, <2>5, <2>6, ConfirmingKeeps, ConnectingKeeps, PendingKeeps, CancelKeeps
       DEF ResumeStep, ResumeConfirming, ResumeConnecting, ResumePending, Cancel,
           UpdateAndTrigger
  <2>7. CASE ExecSave(r)
    <3>1. CASE Save(r, "executor", exec[r].run)
      BY <2>1, <2>7, <3>1 DEF ExecSave, Save, EInv, CopyInv, SavesOneTask
    <3> QED
      BY <2>7, <3>1 DEF ExecSave, Conflict
  <2>8. CASE RunStep(r) /\ ~ResumeStep(r) /\ ~Cancel(r) /\ ~ExecSave(r)
    BY <2>8
       DEF RunStep, CreateStep, Create, CreateErrored, ExecStep, ExecLoad, ExecStop,
           ExecDone, ExecSkip, ExecPause, ExecPerform, QueueRun, AnswerStep,
           AnswerArrives, CancelLoad
  <2> QED
    BY <2>3, <2>4, <2>6, <2>7, <2>8 DEF Next
<1> QED
  BY <1>1, EInvAlways, PTL DEF CompletedTaskStays, Spec
=============================================================================
