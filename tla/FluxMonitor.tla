------------------------------ MODULE FluxMonitor ------------------------------
(****************************************************************************)
(* The flux monitor (core/services/fluxmonitor/flux_monitor.go) with one    *)
(* job of one flux monitor initiator: the goroutine that adds, removes and  *)
(* stops deviation checkers, and the checker, which polls the price feeds   *)
(* and answers the rounds of a FluxAggregator contract.                     *)
(*                                                                          *)
(* A checker reads the state of the round, fetches a price and creates a    *)
(* run, in steps between which the contract goes on.  The run's transaction *)
(* is created, sent and mined later.  The contract                          *)
(* (evm-contracts/src/v0.6/dev/FluxAggregator.sol, as roundState shows it), *)
(* the other oracles, the run manager and the chain are external.  The log  *)
(* broadcaster, which delivers the logs in their order, is a module of its  *)
(* own; here its queue and chMaybeLogs are one queue.                       *)
(****************************************************************************)
EXTENDS Integers, Sequences, FiniteSets, SequencesExt, FiniteSetsExt

CONSTANTS
    Others,      \* the other oracles of the contract
    MinAnswers,  \* answers that finish a round
    Prices,      \* the prices that the feeds may have
    Threshold,   \* Threshold of the initiator, in percent
    HasIdle,     \* IdleThreshold of the initiator is more than 0
    MaxRounds,   \* bound on the rounds that are answered
    MaxRuns,     \* bound on the runs created
    MaxFaults    \* bound on the failed calls, the runs in error and the ends of the process

ASSUME ConstantsAssumption ==
    /\ Prices \subseteq Nat \ {0}
    /\ {Threshold, MaxRounds, MaxRuns, MaxFaults} \subseteq Nat
    /\ MinAnswers \in 1 .. Cardinality(Others) + 1
    /\ HasIdle \in BOOLEAN

VARIABLES
    contract,    \* the round, who has answered it, whether it is overdue, the latest answer
    reported,    \* lastReportedRound of each oracle
    runs,        \* the runs created: the round and what made the checker create it
    unsent,      \* the runs that have no transaction yet
    txs,         \* the runs of the transactions in the database, by their nonces
    mined,       \* how many of the transactions are mined
    faults,      \* the failures so far
    manager,     \* what processAddRemoveJobRequests does
    added,       \* the job is in jobMap
    archived,    \* the job is archived, after its checker was removed
    pc,          \* where the checker's goroutine is
    via,         \* what the checker polls for
    logs,        \* the logs on their way to the checker
    connected,   \* p.connected
    idleTicker,  \* p.idleTicker is running
    reportable,  \* p.reportableRoundID, 0 for nil
    recent,      \* p.mostRecentSubmittedRoundID
    latest,      \* LatestAnswer of the round state that was read
    seen         \* history: the rounds of the last transactions when the checker read
                 \* them, and those the checker has created runs for

chain == <<contract, reported, unsent, txs, mined>>
process == <<manager, added, archived>>
checker == <<pc, via, logs, connected, idleTicker, reportable, recent, latest>>
vars == <<chain, runs, faults, process, checker, seen>>

Us == "us"
Oracles == Others \cup {Us}
txLimit == 5    \* the transactions FindTxsBySenderAndRecipient is asked for

TypeOK ==
    /\ contract.round \in 0 .. MaxRounds
    /\ contract.answers \subseteq Oracles
    /\ contract.latest \in Prices \cup {0}
    /\ reported \in [Oracles -> 0 .. MaxRounds]
    /\ unsent \subseteq DOMAIN runs
    /\ ToSet(txs) \subseteq DOMAIN runs \ unsent
    /\ mined \in 0 .. Len(txs)
    /\ manager \in {"running", "removing", "stopping", "stopped"}
    /\ pc \in {"off", "start", "subscribe", "loop", "state", "fetch", "create"}
    /\ via \in {"start", "poll", "idle", "log"}
    /\ reportable \in 0 .. MaxRounds + 1 /\ recent \in 0 .. MaxRounds
    /\ added \in BOOLEAN /\ archived \in BOOLEAN

\* The constructor leaves round IDs and tickers unset.
Init ==
    /\ contract = [round |-> 0, answers |-> {}, overdue |-> FALSE, latest |-> 0]
    /\ reported = [o \in Oracles |-> 0]
    /\ runs = <<>> /\ unsent = {} /\ txs = <<>> /\ mined = 0
    /\ faults = 0
    /\ manager = "running" /\ added = FALSE /\ archived = FALSE
    /\ pc = "off" /\ via = "start" /\ logs = <<>>
    /\ connected = FALSE /\ idleTicker = FALSE
    /\ reportable = 0 /\ recent = 0 /\ latest = 0 /\ seen = {}

----------------------------------------------------------------------------
(* The contract.                                                            *)

AllAnswered == contract.round = 0 \/ contract.answers = Oracles
Finished == contract.round = 0 \/ Cardinality(contract.answers) >= MinAnswers

\* roundState: a round that MinAnswers have finished is still the reportable one,
\* while eligibility is that of the round after it.
RoundState ==
    [round |-> contract.round + (IF AllAnswered \/ contract.overdue THEN 1 ELSE 0),
     eligible |-> reported[Us] < contract.round + (IF Finished \/ contract.overdue THEN 1 ELSE 0),
     latest |-> contract.latest]

\* updateAnswer takes an answer to the round, or to the next one if the round is
\* finished or overdue.
Takes(o, n) ==
    /\ n > reported[o]
    /\ n = contract.round \/ (n = contract.round + 1 /\ (Finished \/ contract.overdue))

Listening == pc \notin {"off", "start", "subscribe"}
NewRound(n, o) == [round |-> n, by |-> o]

\* The latest answer is the median of prices.  The log of an answer, which would
\* only reset the poll ticker, is left out: the ticker may tick at any time.
UpdateAnswer(o, n) ==
    LET answers == IF n = contract.round THEN contract.answers \cup {o} ELSE {o}
    IN  /\ \E p \in IF Cardinality(answers) >= MinAnswers THEN Prices ELSE {contract.latest} :
            contract' = [round |-> n, answers |-> answers, latest |-> p,
                         overdue |-> contract.overdue /\ n = contract.round /\ answers # Oracles]
        /\ reported' = [reported EXCEPT ![o] = n]
        /\ logs' = IF Listening /\ n # contract.round THEN Append(logs, NewRound(n, o)) ELSE logs

OtherAnswers(o) ==
    /\ \E n \in contract.round .. contract.round + 1 :
        n \in 1 .. MaxRounds /\ Takes(o, n) /\ UpdateAnswer(o, n)
    /\ UNCHANGED <<runs, unsent, txs, mined, faults, process, pc, via, connected,
                   idleTicker, reportable, recent, latest, seen>>

RoundTimesOut ==
    /\ ~AllAnswered
    /\ ~contract.overdue
    /\ contract' = [contract EXCEPT !.overdue = TRUE]
    /\ UNCHANGED <<reported, runs, unsent, txs, mined, faults, process, checker, seen>>

----------------------------------------------------------------------------
(* The runs, which the node resumes after a crash.                          *)

Fault == faults < MaxFaults /\ faults' = faults + 1

\* The run's task stores and sends a transaction; or the run ends in an error.
Execute(k) ==
    /\ k \in unsent
    /\ unsent' = unsent \ {k}
    /\ \/ txs' = Append(txs, k) /\ UNCHANGED faults
       \/ Fault /\ UNCHANGED txs
    /\ UNCHANGED <<contract, reported, runs, mined, process, checker, seen>>

\* The next transaction is mined; the contract may revert it.
Mine ==
    /\ mined < Len(txs)
    /\ mined' = mined + 1
    /\ LET n == runs[txs[mined + 1]].round IN
        IF Takes(Us, n) THEN UpdateAnswer(Us, n) ELSE UNCHANGED <<contract, reported, logs>>
    /\ UNCHANGED <<runs, unsent, txs, faults, process, pc, via, connected, idleTicker,
                   reportable, recent, latest, seen>>

----------------------------------------------------------------------------
(* processAddRemoveJobRequests.                                             *)

\* AddJob, for the jobs in the database and for a new one: checker.Start.
AddJob ==
    /\ manager = "running"
    /\ ~added /\ ~archived
    /\ added' = TRUE
    /\ pc' = "start"
    /\ UNCHANGED <<chain, runs, faults, manager, archived, via, logs, connected,
                   idleTicker, reportable, recent, latest, seen>>

\* RemoveJob and Stop close the checker's chStop and wait for it to end.
RemoveJob ==
    /\ manager = "running" /\ added
    /\ manager' = "removing"
    /\ UNCHANGED <<chain, runs, faults, added, archived, checker, seen>>

Stop ==
    /\ manager = "running"
    /\ manager' = IF added THEN "stopping" ELSE "stopped"
    /\ UNCHANGED <<chain, runs, faults, added, archived, checker, seen>>

\* Mutant: the manager does not wait for waitOnStop.
CheckerStopped_NoWait ==
    /\ manager \in {"removing", "stopping"}
    /\ added' = FALSE
    /\ manager' = IF manager = "removing" THEN "running" ELSE "stopped"
    /\ archived' = (archived \/ manager = "removing")
    /\ UNCHANGED <<chain, runs, faults, checker, seen>>

\* The job is taken out of jobMap; ArchiveJob, which has waited for that,
\* archives it.
CheckerStopped ==
    /\ manager \in {"removing", "stopping"}
    /\ pc = "off"
    /\ added' = FALSE
    /\ manager' = IF manager = "removing" THEN "running" ELSE "stopped"
    /\ archived' = (archived \/ manager = "removing")
    /\ UNCHANGED <<chain, runs, faults, checker, seen>>

\* The process ends and is started again.
Crash ==
    /\ Fault
    /\ manager' = "running" /\ added' = FALSE
    /\ pc' = "off" /\ via' = "start" /\ logs' = <<>>
    /\ connected' = FALSE /\ idleTicker' = FALSE
    /\ reportable' = 0 /\ recent' = 0 /\ latest' = 0 /\ seen' = {}
    /\ UNCHANGED <<chain, runs, archived>>

----------------------------------------------------------------------------
(* consume, the goroutine of the checker.                                   *)

Rounds(ks) == {runs[k].round : k \in ks}

\* The runs of the last transactions to the contract.
FindTxsBySenderAndRecipient(limit) == {txs[k] : k \in DOMAIN txs \cap (Len(txs) - limit + 1 .. Len(txs))}

\* The highest round among the last transactions.
DetermineMostRecentSubmittedRoundID ==
    /\ pc = "start"
    /\ pc' = "subscribe"
    /\ \/ /\ LET submitted == Rounds(FindTxsBySenderAndRecipient(txLimit)) IN
             recent' = Max({0} \cup submitted) /\ seen' = submitted
          /\ UNCHANGED faults
       \/ Fault /\ UNCHANGED <<recent, seen>>
    /\ UNCHANGED <<chain, runs, process, via, logs, connected, idleTicker, reportable, latest>>

\* Back in the select of the loop, which the first poll comes before.
Return ==
    /\ pc' = "loop"
    /\ via' = "poll"
    /\ latest' = 0
    /\ idleTicker' = IF via = "start" THEN HasIdle ELSE idleTicker

\* SubscribeToLogs, and the first poll if it is connected.
Subscribe ==
    /\ pc = "subscribe"
    /\ connected' \in BOOLEAN
    /\ IF connected' THEN pc' = "state" /\ UNCHANGED <<via, latest, idleTicker>> ELSE Return
    /\ UNCHANGED <<chain, runs, faults, process, logs, reportable, recent, seen>>

\* OnConnect and OnDisconnect.
Reconnect ==
    /\ Listening
    /\ connected' = ~connected
    /\ UNCHANGED <<chain, runs, faults, process, pc, via, logs, idleTicker, reportable, recent, latest, seen>>

Stopped ==
    /\ pc = "loop"
    /\ manager \in {"removing", "stopping"}
    /\ pc' = "off" /\ via' = "start" /\ logs' = <<>>
    /\ connected' = FALSE /\ idleTicker' = FALSE
    /\ reportable' = 0 /\ recent' = 0 /\ latest' = 0
    /\ UNCHANGED <<chain, runs, faults, process, seen>>

\* pollIfEligible does nothing when it is not connected.
BeginPoll(v) == IF connected THEN pc' = "state" /\ via' = v ELSE UNCHANGED <<pc, via>>

PollTick ==
    /\ pc = "loop"
    /\ BeginPoll("poll")
    /\ UNCHANGED <<chain, runs, faults, process, logs, connected, idleTicker, reportable, recent, latest, seen>>

\* The timer of time.After fires once.
IdleTick ==
    /\ pc = "loop"
    /\ idleTicker
    /\ idleTicker' = FALSE
    /\ BeginPoll("idle")
    /\ UNCHANGED <<chain, runs, faults, process, logs, connected, reportable, recent, latest, seen>>

\* Mutant: the log of the reportable round is taken for an old one, too.
IsOld_Inclusive(log) == reportable # 0 /\ log.round <= reportable

IsOld(log) == reportable # 0 /\ log.round < reportable

\* respondToNewRoundLog: the log of a round starts the idle timer again, and if
\* another oracle has begun the round, the checker answers it.
RespondToNewRoundLog ==
    /\ pc = "loop"
    /\ logs # <<>>
    /\ logs' = Tail(logs)
    /\ LET log == Head(logs) IN
        IF IsOld(log) THEN UNCHANGED <<pc, via, idleTicker>>
        ELSE /\ idleTicker' = HasIdle
             /\ IF log.by = Us THEN UNCHANGED <<pc, via>>
                ELSE pc' = "state" /\ via' = "log"
    /\ UNCHANGED <<chain, runs, faults, process, connected, reportable, recent, latest, seen>>

\* Mutant: a poll does not look at the most recent submission.
MayAnswer_AnyRound(state) == state.eligible

\* A poll leaves out a round that has been answered; the log of a round does not.
MayAnswer(state) ==
    /\ via # "log" => recent < state.round
    /\ state.eligible

ReadRoundState ==
    /\ pc = "state"
    /\ \/ /\ reportable' = RoundState.round
          /\ IF RoundState.round <= MaxRounds /\ Len(runs) < MaxRuns /\ MayAnswer(RoundState)
             THEN pc' = "fetch" /\ latest' = RoundState.latest /\ UNCHANGED <<via, idleTicker>>
             ELSE Return
          /\ UNCHANGED faults
       \/ Fault /\ Return /\ UNCHANGED reportable
    /\ UNCHANGED <<chain, runs, process, logs, connected, recent, seen>>

Distance(a, b) == IF a > b THEN a - b ELSE b - a

\* The difference is at least the threshold, in percent of the latest answer.
OutsideDeviation(answer, price, threshold) ==
    answer = 0 \/ Distance(answer, price) * 100 >= threshold * answer

Fetch ==
    /\ pc = "fetch"
    /\ \/ /\ \E p \in Prices :
                IF via = "log" \/ OutsideDeviation(latest, p, IF via = "idle" THEN 0 ELSE Threshold)
                THEN pc' = "create" /\ latest' = 0 /\ UNCHANGED <<via, idleTicker>>
                ELSE Return
          /\ UNCHANGED faults
       \/ Fault /\ Return
    /\ UNCHANGED <<chain, runs, process, logs, connected, reportable, recent, seen>>

CreateJobRun ==
    /\ pc = "create"
    /\ \/ /\ runs' = Append(runs, [round |-> reportable, via |-> via])
          /\ unsent' = unsent \cup {Len(runs) + 1}
          /\ seen' = seen \cup {reportable}
          /\ recent' = reportable
          /\ UNCHANGED faults
       \/ Fault /\ UNCHANGED <<runs, unsent, recent, seen>>
    /\ Return
    /\ UNCHANGED <<contract, reported, txs, mined, process, logs, connected, reportable>>

----------------------------------------------------------------------------

PollStep ==
    \/ DetermineMostRecentSubmittedRoundID \/ Subscribe
    \/ ReadRoundState \/ Fetch \/ CreateJobRun

Next ==
    \/ \E o \in Others : OtherAnswers(o)
    \/ RoundTimesOut \/ Mine \/ Crash
    \/ \E k \in unsent : Execute(k)
    \/ AddJob \/ RemoveJob \/ Stop \/ CheckerStopped
    \/ PollStep \/ Reconnect \/ Stopped \/ PollTick \/ IdleTick \/ RespondToNewRoundLog

\* The goroutines go on; of several ready cases select picks each in the end.
Fairness ==
    /\ WF_vars(PollStep) /\ WF_vars(CheckerStopped)
    /\ SF_vars(Stopped) /\ SF_vars(RespondToNewRoundLog)

Spec == Init /\ [][Next]_vars /\ Fairness

----------------------------------------------------------------------------
(* Properties.                                                              *)

\* No poll creates a run for a round that this process has created one for, or
\* that one of the last txLimit transactions answered when the checker started;
\* though the round goes on, other oracles answer it and logs come between the steps
\* of a poll, transactions wait or are reverted, and the process is started again.
PollsAnswerOnce ==
    [][ Len(runs') > Len(runs) /\ via # "log" => reportable \notin seen ]_vars

\* Once RemoveJob has returned, and ArchiveJob goes on to archive the job, or once
\* Stop has returned, the checker creates no run, whatever step of a poll it was at.
RemovedIsSilent ==
    [][ archived \/ manager = "stopped" => runs' = runs ]_vars

\* The runs that a checker makes are due: none twice by polls, none once it is stopped.
RunsAreDue == []TypeOK /\ PollsAnswerOnce /\ RemovedIsSilent

\* The log of a round that another oracle has begun is not lost: the checker answers
\* the round, or a later one, unless the round is over before it does, a call
\* fails or the checker is stopped; though polls may have read the round before.
NewRoundIsAnswered ==
    \A n \in 1 .. MaxRounds, o \in Others :
        (NewRound(n, o) \in ToSet(logs)) ~>
            \/ \E k \in DOMAIN runs : runs[k].round >= n
            \/ contract.round > n \/ contract.overdue
            \/ faults > 0 \/ manager # "running" \/ pc = "off"
            \/ Len(runs) = MaxRuns

\* flux_monitor.go:605: "If we've already submitted an answer for this round, but the
\* tx is still pending, don't resubmit".
NoRoundIsAnsweredTwice ==
    \A j, k \in DOMAIN runs : j # k => runs[j].round # runs[k].round

\* flux_monitor.go:544: "The idleThreshold resets when a new round starts".  So a
\* checker that is up either waits for the idle timer or for the round it answered.
IdleRoundIsStarted ==
    (pc = "loop" /\ HasIdle /\ ~idleTicker) ~> (idleTicker \/ pc = "off" \/ Len(runs) > 0)
=============================================================================
