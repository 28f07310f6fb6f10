------------------------------- MODULE DataTasks -------------------------------
(****************************************************************************)
(* The tasks that only work on data (core/adapters: JSONParse, Copy,        *)
(* Compare, Multiply, Quotient, NoOp, NoOpPend, Sleep, and Bridge for the   *)
(* data it exchanges), one after the other in a run, and the merging of     *)
(* JSON (store/models/common.go) that joins a request, the parameters of a  *)
(* task and the output of the task before.                                  *)
(*                                                                          *)
(* A JSON value is a record; a string holds a word, or the text of another  *)
(* value.  Numbers count quarters.  An integer that JSON decoding makes a   *)
(* float64 loses its last digit beyond MaxSafe.                             *)
(****************************************************************************)
EXTENDS Integers, SequencesExt

CONSTANTS
    Pipelines,      \* the tasks of jobs: sequences of [type, params]
    RequestParams,  \* the requests of runs: functions of keys to JSON values
    Documents,      \* what the first task's endpoint may serve, as text
    BridgeAnswers,  \* what external adapters may answer: [error, pending, data]
    Values,         \* the JSON values in documents
    MaxSafe         \* the highest number that a float64 holds exactly

\* Whatever is in a document is a value, a path consists of numbers and words, and jobs
\* and paths are sequences.
ASSUME DataAssumption ==
    /\ Documents \subseteq Values
    /\ \A v \in Values :
        /\ v.type = "array" => v.items \in Seq(Values)
        /\ v.type = "object" => \A k \in DOMAIN v.members : v.members[k] \in Values
    /\ \A p \in Pipelines :
        /\ p \in Seq(Range(p))
        /\ \A i \in DOMAIN p : p[i].type = "jsonparse" =>
            /\ p[i].path \in Seq(Range(p[i].path))
            /\ \A key \in Range(p[i].path) : key.type = "number" => key.n \in Int

VARIABLES
    tasks,          \* the tasks of the run
    requestParams,  \* its request
    taskOutputs,    \* the output data of the tasks performed, functions of keys to values
    dataStatus,     \* the run's status
    served          \* history: the document served to the first task

dataVars == <<tasks, requestParams, taskOutputs, dataStatus, served>>

Number(n) == [type |-> "number", n |-> n]
Text(v) == [type |-> "string", text |-> v]
Plain(w) == [type |-> "word", word |-> w]       \* a text that is no JSON
Boolean(b) == [type |-> "bool", bool |-> b]
Null == [type |-> "null"]
Object(members) == [type |-> "object", members |-> members]

NoMembers == [k \in {} |-> Null]
WithResult(v) == [k \in {"result"} |-> v]

\* gjson's Result.String: the text of a value; null and what is missing have none.
String(v) == CASE v.type = "string" -> v.text
               [] v.type = "null"   -> Plain("")
               [] OTHER             -> v

\* A float64 of a number.
Float(v) ==
    IF v.type = "number" /\ (v.n > MaxSafe \/ v.n < -MaxSafe)
    THEN Number(v.n - (v.n % 2)) ELSE v

\* models.Merge: the keys of both, the right one's values; every value is decoded
\* and encoded again.
Merged(left, right) ==
    [k \in DOMAIN left \union DOMAIN right |->
        Float(IF k \in DOMAIN right THEN right[k] ELSE left[k])]

Result(data) == IF "result" \in DOMAIN data THEN data["result"] ELSE Null

----------------------------------------------------------------------------
(* Each Perform gives an output [status, data].                             *)

Complete(data) == [status |-> "completed", data |-> data]
CompleteWithResult(v) == Complete(WithResult(v))
Errored == [status |-> "errored", data |-> NoMembers]

\* The parameter p of a task, or what stands for it when neither the task nor the
\* request has it.
Param(params, p, default) == IF p \in DOMAIN params THEN params[p] ELSE default

\* arrayGet: a negative index counts from the end.
Index(items, key) == IF key.n < 0 THEN Len(items) + key.n ELSE key.n

\* What a key of a path leads to, <<>> when there is none.
Lookup(js, key) ==
    CASE js.type = "array" /\ key.type = "number" ->
            (LET i == Index(js.items, key)
             IN  IF i \in 0 .. Len(js.items) - 1 THEN <<js.items[i + 1]>> ELSE <<>>)
      [] js.type = "object" /\ key.type = "word" /\ key.word \in DOMAIN js.members ->
            <<js.members[key.word]>>
      [] OTHER -> <<>>

dig(js, path) ==
    LET found[n \in 0 .. Len(path)] ==
            IF n = 0 THEN <<js>>
            ELSE IF found[n - 1] = <<>> THEN <<>> ELSE Lookup(found[n - 1][1], path[n])
    IN  found[Len(path)]

getEarlyPath_Whole(js, path) == dig(js, path)

getEarlyPath(js, path) == dig(js, Front(path))

\* A value that is not JSON's own comes as a string, which holds the JSON.
JSONParse(path, input) ==
    LET val == IF input.type \in {"array", "object"} THEN input
               ELSE IF input.type = "string" THEN input.text ELSE Plain("")
        found == dig(val, path)
    IN  IF val.type = "word" THEN Errored
        ELSE IF found # <<>> THEN CompleteWithResult(found[1])
        ELSE IF getEarlyPath(val, path) = <<>> THEN Errored ELSE CompleteWithResult(Null)

IsNumeric(text) == text.type = "number"

\* eq and neq compare the texts, the others the numbers.
Compare(params, input) ==
    LET operator == Param(params, "operator", Plain("")).word
        value == Param(params, "value", Plain(""))
        prev == String(input)
        texts == operator \in {"eq", "neq"}
        numbers == operator \in {"gt", "gte", "lt", "lte"} /\ IsNumeric(prev) /\ IsNumeric(value)
    IN  IF value = Plain("") \/ ~(texts \/ numbers) THEN Errored
        ELSE CompleteWithResult(Boolean(
            CASE operator = "eq"  -> value = prev
              [] operator = "neq" -> value # prev
              [] operator = "gt"  -> value.n < prev.n
              [] operator = "gte" -> value.n <= prev.n
              [] operator = "lt"  -> value.n > prev.n
              [] operator = "lte" -> value.n >= prev.n))

Multiply(params, input) ==
    IF ~IsNumeric(String(input)) THEN Errored
    ELSE CompleteWithResult(Text(Number(
            (String(input).n * Param(params, "times", Number(4)).n) \div 4)))

\* Without a dividend the result is its input.
Quotient(params, input) ==
    IF ~IsNumeric(String(input)) \/ String(input).n = 0 THEN Errored
    ELSE CompleteWithResult(Text(Number(
            IF "dividend" \in DOMAIN params
            THEN (params["dividend"].n * 4) \div String(input).n ELSE String(input).n)))

\* Bridge.responseToRunResult
responseToRunResult(params, answer) ==
    IF answer.error THEN Errored
    ELSE IF answer.pending THEN [status |-> "pending_bridge", data |-> NoMembers]
    ELSE IF answer.data.type = "object" THEN Complete(Merged(params, answer.data.members))
    ELSE CompleteWithResult(
            IF String(answer.data) = Plain("") THEN Plain("") ELSE Text(String(answer.data)))

Perform(task, params, data) ==
    CASE task.type = "httpget"   -> {CompleteWithResult(Text(d)) : d \in Documents} \union {Errored}
      [] task.type = "jsonparse" -> {JSONParse(task.path, Result(data))}
      [] task.type = "copy"      -> {JSONParse(task.path, Text(Object(data)))}
      [] task.type = "compare"   -> {Compare(params, Result(data))}
      [] task.type = "multiply"  -> {Multiply(params, Result(data))}
      [] task.type = "quotient"  -> {Quotient(params, Result(data))}
      [] task.type = "noop"      -> {CompleteWithResult(Result(data))}
      [] task.type = "nooppend"  -> {[status |-> "pending_confirmations", data |-> NoMembers]}
      [] task.type = "sleep"     -> {Complete(NoMembers)}
      [] task.type = "bridge"    -> {responseToRunResult(params, a) : a \in BridgeAnswers}

----------------------------------------------------------------------------
DataInit ==
    /\ tasks \in Pipelines
    /\ requestParams \in RequestParams
    /\ taskOutputs = <<>>
    /\ dataStatus = "in_progress"
    /\ served = Plain("")

\* run.PreviousTaskRun
OutputBefore(i) == IF i = 1 THEN NoMembers ELSE taskOutputs[i - 1]

TaskParams_RequestWins(request, own) == Merged(own, request)

\* The job's own parameters win over the request's.
TaskParams(request, own) == Merged(request, own)

\* runExecutor.executeTask: the input is the request with the output of the task
\* before.
ExecuteTask ==
    /\ dataStatus = "in_progress" /\ Len(taskOutputs) < Len(tasks)
    /\ LET i == Len(taskOutputs) + 1
           task == tasks[i]
           params == TaskParams(requestParams, task.params)
           data == Merged(requestParams, OutputBefore(i))
       IN  \E out \in Perform(task, params, data) :
             /\ taskOutputs' = Append(taskOutputs, out.data)
             /\ dataStatus' = CASE out.status # "completed" -> out.status
                                [] out.status = "completed" /\ i = Len(tasks) -> "completed"
                                [] OTHER -> "in_progress"
             /\ served' = IF i = 1 /\ task.type = "httpget" /\ out.status = "completed"
                          THEN Result(out.data).text ELSE served
    /\ UNCHANGED <<tasks, requestParams>>

\* The external adapter answers later: what it sends joins the request and is the
\* data of the task's run, and the bridge, performed again, completes with its
\* whole input.
ResumePendingBridge ==
    /\ dataStatus = "pending_bridge"
    /\ \E answer \in {a \in BridgeAnswers : ~a.pending} :
        LET i == Len(taskOutputs)
            own == IF answer.data.type = "object" THEN answer.data.members ELSE NoMembers
            request == Merged(requestParams, own)
            before == Merged(request, OutputBefore(i))
        IN  IF answer.data.type \notin {"object", "null"}
            THEN dataStatus' = "errored" /\ UNCHANGED <<requestParams, taskOutputs>>
            ELSE /\ requestParams' = request
                 /\ taskOutputs' = [taskOutputs EXCEPT ![i] =
                        IF answer.error THEN own ELSE Merged(before, own)]
                 /\ dataStatus' = CASE answer.error -> "errored"
                                    [] ~answer.error /\ i = Len(tasks) -> "completed"
                                    [] OTHER -> "in_progress"
    /\ UNCHANGED <<tasks, served>>

DataNext == ExecuteTask \/ ResumePendingBridge

DataSpec == DataInit /\ [][DataNext]_dataVars

----------------------------------------------------------------------------
Types == [i \in DOMAIN tasks |-> tasks[i].type]

\* The values in another by a key; the key of an array is a position from the start, or
\* from the end when it is negative.
Members(js, key) ==
    CASE js.type = "array" /\ key.type = "number" ->
            {js.items[i] : i \in {j \in DOMAIN js.items :
                key.n \in {j - 1, j - 1 - Len(js.items)}}}
      [] js.type = "object" /\ key.type = "word" ->
            {js.members[k] : k \in DOMAIN js.members \intersect {key.word}}
      [] OTHER -> {}

\* The values that a path leads to in a document: the ends of the trails along it.
Trails(doc, path) ==
    {t \in {<<doc>> \o rest : rest \in [1 .. Len(path) -> Values]} :
        \A n \in 1 .. Len(path) : t[n + 1] \in Members(t[n], path[n])}
Followed(doc, path) == {t[Len(path) + 1] : t \in Trails(doc, path)}

\* A job that fetches, parses and multiplies by a factor of its own completes with the
\* number that its path leads to in the document served, times that factor, whatever the
\* request says and however the number is written: as long as the numbers are safe ones
\* or texts.
CompletedResultIsTheDocuments ==
    dataStatus = "completed" /\ Types = <<"httpget", "jsonparse", "multiply">>
    /\ "times" \in DOMAIN tasks[3].params
        => \E v \in Followed(served, tasks[2].path) :
             LET times == tasks[3].params["times"]
             IN  /\ IsNumeric(String(v))
                 /\ v = Float(v) /\ times = Float(times) =>
                       Result(taskOutputs[3]) = Text(Number((String(v).n * times.n) \div 4))

\* "only error if any keys prior to the last one in the path are nonexistent"
OnlyTheLastKeyMayBeMissing ==
    Len(taskOutputs) >= 2 /\ Types[1] = "httpget" /\ Types[2] = "jsonparse"
    /\ served.type \in {"array", "object"} =>
        (dataStatus = "errored" /\ Len(taskOutputs) = 2
            <=> Followed(served, Front(tasks[2].path)) = {})

\* "Perform returns the input RunResult after waiting": a task after a sleep has
\* the result that the sleep was given.  It does not hold.
SleepKeepsTheResult ==
    \A i \in 2 .. Len(taskOutputs) :
        Types[i] = "sleep" => Result(taskOutputs[i]) = Result(taskOutputs[i - 1])

\* The number of the document is what a job completes with, and only the last key of a
\* path may be missing from it.
ResultIsTheDocuments == CompletedResultIsTheDocuments /\ OnlyTheLastKeyMayBeMissing
=============================================================================
