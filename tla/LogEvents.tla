------------------------------- MODULE LogEvents -------------------------------
(****************************************************************************)
(* From the request of a contract to the run of a job and back: the log     *)
(* that the oracle contract emits, the filter of the job's initiator, what  *)
(* the log says to the node (store/models/log_events.go, randomness_log_    *)
(* event.go, parse_randomness_request.go), whether it makes a run or an     *)
(* errored run (services/subscription.go, run_manager.go), and whether the  *)
(* contract takes the answer.  Topics and data are sequences of words, and  *)
(* words are numbers.                                                       *)
(****************************************************************************)
EXTENDS Integers, SequencesExt

CONSTANTS
    LogInitiators,      \* the initiators of jobs, [type, job, address, requesters, from, to]
    MinPayment,         \* the minimum payment of each job, -1 when it has none
    AdapterPayments,    \* what the adapters of each job cost together
    MinimumPayment,     \* Config.MinimumContractPayment
    Asked,              \* the requests that consumers may make
    FirstBlock,         \* the block that subscriptions begin at
    LastBlock,          \* bound on the blocks
    MaxLogs,            \* bound on the logs
    Expiry              \* blocks after which a request may be cancelled

ASSUME LogEventsAssumption ==
    /\ \A i \in LogInitiators :
          i.type \in {"runlog", "execagreement", "randomnesslog", "ethlog"}
    /\ \A r \in Asked :
          /\ r.version \in 1 .. 5 /\ r.cut \in Nat
          /\ {r.job, r.requester, r.payment, r.oracle, r.key} \subseteq Int
          /\ r.payload \in Seq(Int) /\ r.callback \in Seq(Int) /\ Len(r.callback) = 2
    /\ FirstBlock \in Int /\ Expiry \in Int

VARIABLES
    block,              \* the current block
    emitted,            \* the logs, in their order
    commitments,        \* what the contracts hold of the requests still open
    logRuns,            \* the runs made
    receivedLogs,       \* the initiators and logs that have met
    settled             \* history: the requests paid, with the run that answered

logEventVars == <<block, emitted, commitments, logRuns, receivedLogs, settled>>

Zero == 0       \* the address of a filter that takes any

----------------------------------------------------------------------------
(* The words: signatures of the events, job IDs in either encoding.         *)

RunLogTopic0original == 1
RunLogTopic20190123withFullfillmentParams == 2
RunLogTopic20190207withoutIndexes == 3
ServiceAgreementExecutionLogTopic == 4
RandomnessRequestLogTopic == 5

IDToTopic(job) == 10 + job
IDToHexTopic(job) == 20 + job

TopicsForInitiators ==
    [runlog |-> {RunLogTopic20190207withoutIndexes,
                 RunLogTopic20190123withFullfillmentParams, RunLogTopic0original},
     execagreement |-> {ServiceAgreementExecutionLogTopic},
     randomnesslog |-> {RandomnessRequestLogTopic}]

JobSpecIDTopics(job) == {IDToTopic(job), IDToHexTopic(job)}

Topic(log, i) == log.topics[i + 1]

----------------------------------------------------------------------------
(* The contracts.  A request has a job topic, requester, payment, callback, *)
(* and a payload; its ID is its place.  An old version indexes the          *)
(* requester and the payment.  Another contract may emit a log of the same  *)
(* signature that is cut.                                                   *)

\* The data of a log of each version, the payload with its padding last.
Data(version, id, r, expiration) ==
    LET dataVersion == 1
        location == 7
        payload == <<Len(r.payload)>> \o r.payload
    IN IF version \in {RunLogTopic0original, ServiceAgreementExecutionLogTopic} THEN
            <<id, dataVersion, location>> \o payload
       ELSE IF version = RunLogTopic20190123withFullfillmentParams THEN
            <<id, dataVersion>> \o r.callback \o <<expiration, location>> \o payload
       ELSE IF version = RunLogTopic20190207withoutIndexes THEN
            <<r.requester, id, r.payment>> \o r.callback
            \o <<expiration, dataVersion, location>> \o payload \o <<0>>
       ELSE <<r.key, id, r.requester, r.payment>>

\* What a fulfilment has to say, by the version of its request: the words before the
\* answer.  The proof of a random request holds its key and seed.
CommitmentOf(version, id, r, expiration) ==
    IF version \in {RunLogTopic0original, ServiceAgreementExecutionLogTopic} THEN <<id>>
    ELSE IF version = RandomnessRequestLogTopic THEN <<r.key, id>>
    ELSE <<id, r.payment>> \o r.callback \o <<expiration>>

\* The log remembers its request, which the node does not see.
OracleRequest ==
    \E r \in Asked :
        LET id == Len(emitted) + 1
            expiration == block + Expiry
            old == r.version \notin {RunLogTopic20190207withoutIndexes, RandomnessRequestLogTopic}
            data == Data(r.version, id, r, expiration)
        IN /\ Len(emitted) < MaxLogs
           /\ emitted' = Append(emitted,
                [address |-> r.oracle, block |-> block, removed |-> FALSE,
                 topics |-> <<r.version, r.job>>
                            \o IF old THEN <<r.requester, r.payment>> ELSE <<>>,
                 data |-> SubSeq(data, 1, Len(data) - r.cut),
                 request |-> r, words |-> CommitmentOf(r.version, id, r, expiration)])
           /\ commitments' = IF r.cut > 0 THEN commitments
                             ELSE commitments \cup {[id |-> id, expiration |-> expiration]}
           /\ UNCHANGED <<block, logRuns, receivedLogs, settled>>

\* The requester takes back what has expired.
CancelOracleRequest ==
    \E c \in commitments :
        /\ emitted[c.id].request.version # RandomnessRequestLogTopic
        /\ c.expiration <= block
        /\ commitments' = commitments \ {c}
        /\ UNCHANGED <<block, emitted, logRuns, receivedLogs, settled>>

\* A reorganisation of the chain takes an open request back.
Reorganise ==
    \E c \in commitments :
        /\ commitments' = commitments \ {c}
        /\ emitted' = [emitted EXCEPT ![c.id].removed = TRUE]
        /\ UNCHANGED <<block, logRuns, receivedLogs, settled>>

NextBlock ==
    /\ block < LastBlock
    /\ block' = block + 1
    /\ UNCHANGED <<emitted, commitments, logRuns, receivedLogs, settled>>

----------------------------------------------------------------------------
(* The filter.                                                              *)

\* The range of an ethlog initiator, 0 is none: FilterQueryFactory.
FilterFrom(i) == IF i.type = "ethlog" /\ i.from > FirstBlock THEN i.from ELSE FirstBlock

FilterQueryFactory(i) ==
    [ok |-> ~(i.type = "ethlog" /\ i.to # 0 /\ FilterFrom(i) >= i.to),
     from |-> FilterFrom(i),
     to |-> IF i.type = "ethlog" THEN i.to ELSE 0,
     address |-> i.address,
     topics |-> IF i.type = "ethlog" THEN i.topics
                ELSE <<TopicsForInitiators[i.type], JobSpecIDTopics(i.job)>>]

\* Which logs the Ethereum node sends for a filter.
Matches(query, log) ==
    /\ query.ok
    /\ query.from <= log.block
    /\ query.to = 0 \/ log.block <= query.to
    /\ query.address \in {Zero, log.address}
    /\ Len(query.topics) <= Len(log.topics)
    /\ \A k \in DOMAIN query.topics : query.topics[k] = {} \/ log.topics[k] \in query.topics[k]

----------------------------------------------------------------------------
(* What a log says.                                                         *)

\* Mutant: a version is forgotten.
oldRequestVersion_Forgotten(version) ==
    version \in {RunLogTopic0original, ServiceAgreementExecutionLogTopic}

oldRequestVersion(version) ==
    version \in {RunLogTopic0original, RunLogTopic20190123withFullfillmentParams,
                 ServiceAgreementExecutionLogTopic}

contractPayment(log) ==
    IF oldRequestVersion(Topic(log, 0)) THEN Topic(log, 3) ELSE log.data[3]

Requester(log) ==
    IF oldRequestVersion(Topic(log, 0)) THEN Topic(log, 2) ELSE log.data[1]

\* What a parser finds: the words that the answer begins with, the request's ID, and the
\* payload, whose CBOR may be bad.
BadCBOR == 99
Malformed == [ok |-> FALSE, dataPrefix |-> <<>>, requestID |-> <<>>, payload |-> <<>>]
Parsed(dataPrefix, requestID, payload) ==
    IF Contains(payload, BadCBOR) THEN Malformed
    ELSE [ok |-> TRUE, dataPrefix |-> dataPrefix, requestID |-> requestID, payload |-> payload]

parseRunLog0original(log) ==
    IF Len(log.data) < 4 THEN Malformed
    ELSE Parsed(<<log.data[1]>>, <<log.data[1]>>, SubSeq(log.data, 5, Len(log.data)))

parseRunLog20190123withFulfillmentParams(log) ==
    IF Len(log.data) < 7 THEN Malformed
    ELSE Parsed(<<log.data[1], Topic(log, 3)>> \o SubSeq(log.data, 3, 5), <<log.data[1]>>,
                SubSeq(log.data, 8, Len(log.data)))

\* Mutant: the expiration is left out.
parseRunLog20190207withoutIndexes_ToCallback(log) ==
    IF Len(log.data) < 9 \/ Len(log.data) < 9 + log.data[9] THEN Malformed
    ELSE Parsed(SubSeq(log.data, 2, 5), <<log.data[2]>>, SubSeq(log.data, 10, 9 + log.data[9]))

parseRunLog20190207withoutIndexes(log) ==
    IF Len(log.data) < 9 \/ Len(log.data) < 9 + log.data[9] THEN Malformed
    ELSE Parsed(SubSeq(log.data, 2, 6), <<log.data[2]>>, SubSeq(log.data, 10, 9 + log.data[9]))

\* The ID is the hash of key and seed; the proof will hold both.
parseRandomnessRequest(log) ==
    IF Len(log.data) # 4 THEN Malformed
    ELSE LET seeded == SubSeq(log.data, 1, 2) IN Parsed(seeded, seeded, <<>>)

parserFromLog(log) ==
    IF Topic(log, 0) = RunLogTopic20190123withFullfillmentParams
    THEN parseRunLog20190123withFulfillmentParams(log)
    ELSE IF Topic(log, 0) = RunLogTopic20190207withoutIndexes
    THEN parseRunLog20190207withoutIndexes(log)
    ELSE IF Topic(log, 0) = RandomnessRequestLogTopic THEN parseRandomnessRequest(log)
    ELSE parseRunLog0original(log)

----------------------------------------------------------------------------
(* The run.                                                                 *)

\* The base of every event, and all there is to the event of an ethlog initiator: there is
\* nothing to validate, no payment and nobody to answer.
InitiatorLogEvent ==
    [valid |-> TRUE, permitted |-> TRUE, pays |-> FALSE, payment |-> 0,
     request |-> [ok |-> TRUE, dataPrefix |-> <<>>, payload |-> <<>>]]

Validate(i, log) == Topic(log, 1) \in JobSpecIDTopics(i.job)

ValidateRequester(i, log) ==
    \/ i.requesters = {}
    \/ (oldRequestVersion(Topic(log, 0)) \/ log.data # <<>>) /\ Requester(log) \in i.requesters

RunRequest(log) ==
    LET found == parserFromLog(log)
    IN [ok |-> found.ok, dataPrefix |-> found.dataPrefix, payload |-> found.payload]

RunLogEvent(i, log) ==
    [valid |-> Validate(i, log), permitted |-> ValidateRequester(i, log), pays |-> TRUE,
     payment |-> contractPayment(log), request |-> RunRequest(log)]

\* Who asks is not important; the fee is the payment.
RandomnessLogEvent(i, log) ==
    [valid |-> parseRandomnessRequest(log).ok /\ log.address = i.address,
     permitted |-> TRUE, pays |-> TRUE, payment |-> log.data[4],
     request |-> RunRequest(log)]

LogRequest(i, log) ==
    IF i.type \in {"runlog", "execagreement"} THEN RunLogEvent(i, log)
    ELSE IF i.type = "randomnesslog" THEN RandomnessLogEvent(i, log)
    ELSE InitiatorLogEvent

runCost(job) ==
    (IF MinPayment[job] < 0 THEN MinimumPayment ELSE MinPayment[job]) + AdapterPayments[job]

\* A payment below what the job and its adapters cost is not enough.
ValidateRun(i, event) == event.pays => runCost(i.job) <= event.payment

NewRun(i, n, request) ==
    [initiator |-> i, log |-> n, status |-> "in_progress",
     dataPrefix |-> request.dataPrefix, payload |-> request.payload]

\* A log that is refused leaves a run that says so.
CreateErrored(i, n) ==
    [initiator |-> i, log |-> n, status |-> "errored", dataPrefix |-> <<>>, payload |-> <<>>]

ReceiveLogRequest ==
    \E i \in LogInitiators, n \in DOMAIN emitted :
        LET log == emitted[n]
            key == [initiator |-> i, log |-> n, removed |-> log.removed]
            event == LogRequest(i, log)
            sound == event.permitted /\ event.request.ok /\ ValidateRun(i, event)
        IN /\ key \notin receivedLogs
           /\ Matches(FilterQueryFactory(i), log)
           /\ receivedLogs' = receivedLogs \cup {key}
           /\ logRuns' =
                IF ~event.valid \/ log.removed THEN logRuns
                ELSE Append(logRuns, IF sound THEN NewRun(i, n, event.request) ELSE CreateErrored(i, n))
           /\ UNCHANGED <<block, emitted, commitments, settled>>

\* The transaction of a run, and the contract that takes it if the words are those that
\* it holds for the request.
FulfillOracleRequest ==
    \E k \in DOMAIN logRuns :
        LET open == {c \in commitments :
                        /\ emitted[c.id].words = logRuns[k].dataPrefix
                        /\ emitted[c.id].address = emitted[logRuns[k].log].address}
        IN /\ logRuns[k].status = "in_progress"
           /\ logRuns' = [logRuns EXCEPT ![k].status = "completed"]
           /\ commitments' = commitments \ open
           /\ settled' = settled \cup {[id |-> c.id, run |-> k] : c \in open}
           /\ UNCHANGED <<block, emitted, receivedLogs>>

LogEventInit ==
    /\ block = FirstBlock
    /\ emitted = <<>>
    /\ commitments = {}
    /\ logRuns = <<>>
    /\ receivedLogs = {}
    /\ settled = {}

LogEventNext ==
    \/ OracleRequest \/ CancelOracleRequest \/ Reorganise \/ NextBlock
    \/ ReceiveLogRequest \/ FulfillOracleRequest

LogEventSpec == LogEventInit /\ [][LogEventNext]_logEventVars

----------------------------------------------------------------------------
(* Properties.                                                              *)

\* A run made for the log of a request, of whatever version, has read the words that the
\* contract holds the request by and the payload, and no more: the contract will take the
\* answer as long as the request is open.
RequestsAreUnderstood ==
    \A k \in DOMAIN logRuns :
        LET run == logRuns[k]
            log == emitted[run.log]
        IN run.status # "errored" /\ run.initiator.type # "ethlog" /\ log.request.cut = 0 =>
            /\ run.dataPrefix = log.words
            /\ run.payload = IF run.initiator.type = "randomnesslog" THEN <<>>
                             ELSE log.request.payload

\* A request that the contract has paid out was made for the job that answered it, by a
\* requester that its initiator permits, and for at least what the job costs.
AnsweredIsPermitted ==
    \A s \in settled :
        LET i == logRuns[s.run].initiator
            r == emitted[s.id].request
        IN /\ r.job \in JobSpecIDTopics(i.job)
           /\ runCost(i.job) <= r.payment
           /\ i.type \in {"runlog", "execagreement"} =>
                i.requesters = {} \/ r.requester \in i.requesters

\* A run knows the request of its log by the words that the contract does, and what is
\* paid out was asked for by one who may, for what the job costs.
RequestsAreMet == RequestsAreUnderstood /\ AnsweredIsPermitted
=============================================================================
