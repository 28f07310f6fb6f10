------------------------------ MODULE Adapters ------------------------------
(****************************************************************************)
(* What an adapter may answer when the run executor performs a task         *)
(* (core/adapters/).  The outside world - HTTP servers, external adapters,  *)
(* the Ethereum node - is free to answer anything it can, so Perform is the *)
(* set of the possible outcomes: the RunOutput, and the effect the call had *)
(* on the outside, a request posted to an external adapter or a transaction *)
(* sent to the Ethereum node.                                               *)
(*                                                                          *)
(* Three kinds of adapter are told apart:                                   *)
(*   "plain"   answers at once (httpget, jsonparse, multiply, sleep, ...)   *)
(*   "bridge"  posts to an external adapter that may answer later           *)
(*   "ethtx"   sends a transaction and waits for its confirmations          *)
(****************************************************************************)
EXTENDS JobRunRecord

AdapterKinds == {"plain", "bridge", "ethtx"}

CONSTANT Kind    \* the adapter of each task

ASSUME KindAssumption == Kind \in [Tasks -> AdapterKinds]

RunOutput(s, d) == [status |-> s, data |-> d]

RunOutputs == [status : RunStatuses, data : Data]

Effects == {"none", "post", "send"}

Outcome(effect, s, d) == [effect |-> effect, out |-> RunOutput(s, d)]

\* A plain adapter fails or completes with a result of its own.
PlainPerform(i) ==
    {Outcome("none", "completed", i), Outcome("none", "errored", NoData)}

\* Bridge.Perform: a task that is pending already is only told to go on with
\* what it has; any other posts a new request.
BridgePerform(i, status, input) ==
    CASE status = "completed"      -> {Outcome("none", "completed", input)}
      [] status = "pending_bridge" -> {Outcome("none", "in_progress", input)}
      [] OTHER -> { Outcome("post", "completed", i),
                    Outcome("post", "pending_bridge", NoData),
                    Outcome("post", "errored", NoData) }

\* ensureTxRunResult reads the hash of the transaction from its input.  An
\* input that is not the hash of a known transaction finds nothing to bump,
\* now and whenever the task is resumed.  A safe transaction whose receipt is
\* missing fails the task.
EnsureTx(input) ==
    CASE input = NoData -> {Outcome("none", "errored", NoData)}
      [] input = TxHash -> { Outcome("none", "pending_confirmations", TxHash),
                             Outcome("none", "completed", TxHash),
                             Outcome("none", "errored", NoData) }
      [] OTHER -> {Outcome("none", "pending_confirmations", input)}

\* createTxRunResult: TxManager.CreateTxWithGas sends the transaction or fails,
\* and a failure waits for confirmations with the data that should be sent.
CreateTx(input) ==
    { Outcome("none", "pending_confirmations", input),
      Outcome("send", "pending_confirmations", TxHash),
      Outcome("send", "completed", TxHash) }

\* EthTx.Perform, pendingConfirmationsOrConnection.
EthTxPerform(status, input, connected) ==
    CASE ~connected /\ status = "pending_confirmations" ->
            {Outcome("none", "pending_confirmations", input)}
      [] ~connected /\ status # "pending_confirmations" ->
            {Outcome("none", "pending_connection", NoData)}
      [] connected /\ status = "pending_confirmations" -> EnsureTx(input)
      [] connected /\ status # "pending_confirmations" -> CreateTx(input)

\* runExecutor.executeTask: the input is the request, overridden by the
\* output of the previous task, overridden by what the task itself has stored.
TaskInput(run, i) ==
    LET p    == PreviousTaskRun(run)
        prev == IF p = 0 THEN NoData ELSE run.task[p].data
    IN  Merge(Merge(run.request, prev), run.task[i].data)

Perform(run, i, connected) ==
    LET status == run.task[i].status
        input  == TaskInput(run, i)
    IN  CASE Kind[i] = "plain"  -> PlainPerform(i)
          [] Kind[i] = "bridge" -> BridgePerform(i, status, input)
          [] Kind[i] = "ethtx"  -> EthTxPerform(status, input, connected)
=============================================================================
