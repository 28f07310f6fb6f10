----------------------------- MODULE MCComponents -----------------------------
(****************************************************************************)
(* The components that share no state with another in the model, side by    *)
(* side: each behaviour is one of one of them, and the others rest.  The    *)
(* sizes of the instances are here; they are named in the README.           *)
(****************************************************************************)
EXTENDS SleeperTask, StatsPusher, DatabaseLock, Scheduler, Sessions, NodeKeys, LogEvents,
        HttpTasks, StoredRecords, PriceFeeds, DataTasks, Vrf, TLC

CONSTANT Parts      \* the components to check

----------------------------------------------------------------------------
(* DatabaseLock, KeyStores: the values that a .cfg cannot hold.             *)

OldAndNew == [p \in Processes |-> IF p = "old" THEN 1 ELSE 2]
SecondHasAnother == [a \in Accounts |-> IF a = "a2" THEN "q" ELSE "p"]

----------------------------------------------------------------------------
(* Registry: jobs that name a bridge in a task or as a feed, and others.    *)

LowerCase == [n \in {"b", "B", "e", "E"} |-> IF n \in {"b", "B"} THEN "b" ELSE "e"]

Initr(type) ==
    [type |-> type, time |-> -1, schedule |-> TRUE, name |-> "none", address |-> TRUE,
     idleThreshold |-> 2, pollingInterval |-> 1, threshold |-> 1, feeds |-> <<"url">>]
Task(type) == [type |-> type, readable |-> TRUE, params |-> {}]
Job(i, t) == [initiators |-> i, tasks |-> t, startAt |-> 1, endAt |-> 4, agreement |-> TRUE]

JobSpecs ==
    [bridged  |-> Job(<<Initr("execagreement")>>, <<Task("copy"), Task("b")>>),
     external |-> Job(<<[Initr("external") EXCEPT !.name = "E"]>>, <<Task("copy")>>),
     fed      |-> Job(<<[Initr("fluxmonitor") EXCEPT !.feeds = <<"url", "b", "url">>]>>,
                      <<Task("ethtx")>>),
     timed    |-> Job(<<[Initr("runat") EXCEPT !.time = 0]>>, <<Task("noop")>>),
     runlog   |-> Job(<<Initr("runlog"), Initr("cron")>>,
                      <<[Task("ethtx") EXCEPT !.params = {"address"}], Task("copy")>>)]

----------------------------------------------------------------------------
(* Vrf, DistributedSignature: the curve y^2 = x^3 + 7 over 43 elements,     *)
(* whose 31 points are a group of prime order.                              *)

OnTheCurve == <<2, 12>>

HashSalt == 101
Secrets == <<3, 8, 20>>
Threshold == 2
LongKeys == {<<5, 9>>, <<30, 1>>}
NonceKey == <<11, 6>>
OldNonceKey == <<4, 22>>
Messages == {1, 2}

----------------------------------------------------------------------------
(* LogEvents: initiators with and without an address and requesters, and    *)
(* requests of each version, some short of payment, cut or not well-formed. *)

LogInitr(type, jobId, address, requesters) ==
    [type |-> type, job |-> jobId, address |-> address, requesters |-> requesters,
     from |-> 0, to |-> 0, topics |-> <<>>]

OurInitiators ==
    {LogInitr("runlog", 1, 0, {41}), LogInitr("runlog", 2, 31, {}),
     LogInitr("execagreement", 3, 31, {42}), LogInitr("randomnesslog", 1, 32, {}),
     [LogInitr("ethlog", 2, 0, {}) EXCEPT !.from = 3, !.to = 4, !.topics = <<{}, {11}>>]}

SomeHaveAMinimum == <<1, -1, 0>>
SomeCost == <<1, 0, 1>>

Asks(version, jobId, requester, payment, payload, cut, oracle) ==
    [version |-> version, job |-> jobId, requester |-> requester, payment |-> payment,
     payload |-> payload, cut |-> cut, oracle |-> oracle, key |-> 51, callback |-> <<61, 62>>]

Askings ==
    {Asks(1, 11, 41, 2, <<71>>, 0, 31), Asks(2, 21, 41, 2, <<71>>, 0, 31),
     Asks(3, 21, 41, 2, <<71>>, 0, 31), Asks(3, 11, 41, 1, <<>>, 0, 31),
     Asks(2, 12, 42, 0, <<71>>, 0, 31), Asks(3, 22, 41, 1, <<71, 99>>, 0, 31),
     Asks(3, 22, 41, 1, <<71, 72>>, 3, 31), Asks(4, 13, 42, 1, <<71>>, 0, 31),
     Asks(5, 11, 41, 2, <<>>, 0, 32), Asks(5, 11, 41, 1, <<>>, 0, 31)}

----------------------------------------------------------------------------
(* AbiEncoding: words of three bytes of two digits each.                    *)

WordLen == 3
AddressLen == 2
SafeBits == 2
Int64Max == 15
DataPrefixes == {0, 1}

Type(t, size) == [T |-> t, Size |-> size]
SliceOf(type) == [T |-> "slice", Size |-> 0, Elem |-> type]
ArrayOf(n, type) == [T |-> "array", Size |-> n, Elem |-> type]
Argument(name, type) == [name |-> name, type |-> type]

Functions ==
    {<<Argument("a", Type("int", 4)), Argument("b", Type("uint", 2))>>,
     <<Argument("a", Type("bytes", 0)), Argument("b", Type("string", 0))>>,
     <<Argument("a", Type("bytes", 0)),
       Argument("b", SliceOf(ArrayOf(2, Type("int", 4))))>>,
     <<Argument("a", ArrayOf(2, Type("bool", 0))),
       Argument("b", SliceOf(Type("address", 0)))>>,
     <<Argument("a", Type("fixedBytes", 2)), Argument("b", Type("address", 0))>>,
     <<Argument("a", Type("uint", 3)), Argument("b", Type("bool", 0))>>,
     <<Argument("a", Type("function", 0)), Argument("b", Type("bool", 0))>>,
     <<Argument("a", SliceOf(Type("bytes", 0))), Argument("b", Type("bool", 0))>>,
     <<Argument("a", Type("bool", 0))>>}

JNumber(q) == [kind |-> "number", quarters |-> q, chars |-> <<2, 2>>]
JText(c) == [kind |-> "string", form |-> "text", chars |-> c, digits |-> <<>>, quarters |-> 0]
JHex(h) == [kind |-> "string", form |-> "hex", chars |-> <<2>>, digits |-> h, quarters |-> 0]
JDecimal(q) ==
    [kind |-> "string", form |-> "decimal", chars |-> <<3>>, digits |-> <<>>, quarters |-> q]
JBool(v) == [kind |-> "bool", value |-> v, chars |-> <<4>>]
JArray(items) == [kind |-> "array", items |-> items, chars |-> <<5>>]
JObject(f) == [kind |-> "object", members |-> f, chars |-> <<6>>]
JNull == [kind |-> "null", chars |-> <<>>]

Results ==
    {JNumber(q) : q \in {0, 4, -4, 12, 7, 100, -100}}
    \cup {JText(c) : c \in {<<>>, <<1, 2, 3>>, <<2, 1, 3, 1>>}}
    \cup {JHex(h) : h \in {<<>>, <<1>>, <<1, 0>>, <<1, 1, 0, 1>>, <<1, 0, 1, 1, 0, 1, 1, 1>>}}
    \cup {JDecimal(q) : q \in {4, -31, -128, 124, 252, 256, 7, 10}}
    \cup {JBool(v) : v \in BOOLEAN}
    \cup {JArray(<<>>), JArray(<<JBool(TRUE), JBool(FALSE)>>),
          JArray(<<JHex(<<1, 0>>), JHex(<<1, 1, 0, 1>>)>>),
          JArray(<<JNumber(4), JNumber(8)>>),
          JArray(<<JArray(<<JNumber(4), JDecimal(-8)>>), JArray(<<JDecimal(28), JDecimal(-32)>>)>>),
          JNull}

ABIArguments ==
    {JObject([n \in {"a", "b"} |-> IF n = "a" THEN v ELSE w]) : v \in Results, w \in Results}

----------------------------------------------------------------------------
(* HttpTasks: the query of a task is read from an array, a text or a map.   *)

Location(path, query) == [path |-> path, query |-> query]
HttpTask(method, body, size, own, path, quoted, query) ==
    [method |-> method, URL |-> Location(<<"a">>, {}), own |-> own, extPath |-> path,
     quoted |-> quoted, query |-> query, Body |-> body, data |-> size]

OurHttpTasks ==
    {HttpTask("GET", <<>>, 1, <<>>, <<"b", "..", "c">>, TRUE, <<"?", "k", "=", "v">>),
     HttpTask("GET", <<>>, 1, <<Location(<<"", "d">>, {<<<<"k">>, <<"w">>>>})>>, <<>>, FALSE,
              <<<<"k">>, <<"v">>, <<"l">>, <<"v">>, <<"l">>, <<"w">>>>),
     HttpTask("POST", <<>>, 1, <<>>, <<>>, TRUE, <<"k", "=", "&", "l", "=">>),
     HttpTask("POST", <<0>>, 1, <<>>, <<>>, TRUE, <<"k", "=">>),
     HttpTask("POST", <<2>>, 1, <<>>, <<>>, TRUE, <<>>),
     HttpTask("POST", <<0>>, 1, <<>>, <<>>, TRUE, <<>>)}

----------------------------------------------------------------------------
(* PriceFeeds: a bridge that exists and one that does not.                  *)

Url(name) == [kind |-> "url", name |-> name]
BridgeFeed(name) == [kind |-> "bridge", name |-> name]

JobFeeds ==
    {<<Url("u1")>>,
     <<Url("u1"), BridgeFeed("b1"), Url("u2")>>,
     <<Url("u1"), BridgeFeed("b2")>>,
     <<Url("u1"), BridgeFeed("b1"), Url("u2"), Url("u3")>>,
     <<Url("u1"), BridgeFeed("b1"), Url("u2"), Url("u3"), Url("u4")>>}

URLOfBridge == [b \in {"b1"} |-> "u9"]

FeedAnswer(reached, decoded, error, status, result) ==
    [reached |-> reached, decoded |-> decoded, error |-> error, status |-> status,
     result |-> result]

AnswersOfFeeds ==
    {FeedAnswer(FALSE, FALSE, FALSE, 0, <<>>), FeedAnswer(TRUE, TRUE, FALSE, 200, <<>>),
     FeedAnswer(TRUE, TRUE, TRUE, 200, <<40>>), FeedAnswer(TRUE, TRUE, FALSE, 500, <<42>>)}
    \cup {FeedAnswer(TRUE, TRUE, FALSE, 200, <<v>>) : v \in {0, 40, 42, 90}}

----------------------------------------------------------------------------
(* DataTasks: jobs of up to four tasks; numbers are in quarters.            *)

Items(s) == [type |-> "array", items |-> s]
One(k, v) == [x \in {k} |-> v]

Step(type, params) == [type |-> type, params |-> params, path |-> <<>>]
Along(type, path) == [type |-> type, params |-> NoMembers, path |-> path]

OurPipelines ==
    {<<Step("httpget", NoMembers), Along("jsonparse", p),
       Step("multiply", One("times", Number(8)))>> :
        p \in {<<>>, <<Plain("a")>>, <<Number(1), Plain("a")>>, <<Number(-1)>>,
               <<Number(-2), Plain("a")>>, <<Plain("b"), Number(-3)>>,
               <<Plain("b"), Number(2)>>}}
    \cup {<<Step("httpget", NoMembers), Step("sleep", NoMembers),
            Along("jsonparse", <<Plain("a")>>)>>,
          <<Step("bridge", NoMembers), Step("noop", NoMembers),
            Step("quotient", One("dividend", Number(16)))>>,
          <<Step("noop", NoMembers), Step("bridge", One("x", Number(4))),
            Along("copy", <<Plain("x")>>), Step("multiply", NoMembers)>>,
          <<Step("nooppend", NoMembers)>>, <<Step("quotient", NoMembers)>>}
    \cup {<<Step("noop", NoMembers),
            Step("compare", [k \in {"operator", "value"} |->
                                IF k = "operator" THEN Plain(o) ELSE Number(4)])>> :
             o \in {"eq", "neq", "gt", "gte", "lt", "lte", "is"}}
    \cup {<<Step("noop", NoMembers), Step("compare", One("operator", Plain("eq")))>>}

RunParams ==
    {NoMembers, One("times", Number(12)), One("x", Text(Number(8)))}
    \cup {One("result", v) :
            v \in {Number(8), Number(0), Text(Number(4)), Number(101), Text(Plain("w"))}}

ServedDocuments ==
    {Plain("w"), Number(4), Object(One("a", Text(Number(101)))), Object(One("a", Number(102))),
     Object(One("a", Number(101))), Object(One("a", Null)),
     Object(One("b", Items(<<Number(4), Number(8)>>))),
     Items(<<Number(4), Object(One("a", Number(12)))>>),
     Items(<<Object(One("a", Number(-4))), Number(16)>>), Items(<<>>)}

WithParts(values) ==
    values \cup UNION {CASE v.type = "array"  -> Range(v.items)
                         [] v.type = "object" -> Range(v.members)
                         [] OTHER             -> {} : v \in values}
PartsOfDocuments == WithParts(WithParts(ServedDocuments))

AdapterAnswers ==
    [error : BOOLEAN, pending : BOOLEAN,
     data : {Null, Number(8), Text(Number(8)), Object(NoMembers),
             Object(One("result", Number(8))), Object(One("x", Number(16)))}]

----------------------------------------------------------------------------
(* The components.                                                          *)

VARIABLES
    part,           \* the component that a behaviour is of; the variables of the others rest
    longKey, message, dss, network, conversion, encoding, encoded

dssVars ==
    <<longKey, message, dss, network>>
encodingVars ==
    <<conversion, encoding, encoded>>

allVars ==
    <<part, vars, pusherVars, batchVars, schedulerVars, keyVars, vrfKeyVars, lockVars,
      registryVars, sessionVars, vrfVars, dssVars, encodingVars, logEventVars, httpVars,
      feedVars, dataVars>>

\* The component of each module.
Dss == INSTANCE DistributedSignature
Abi == INSTANCE AbiEncoding

\* The components that begin in one of several states have none when it is not their turn.
ComponentsInit ==
    /\ part \in Parts
    /\ Init
    /\ PusherInit
    /\ IF part = "batches" THEN BatchInit
       ELSE paged = "jobs" /\ rows = <<>> /\ batchOffset = 0 /\ passed = <<>> /\ done = FALSE
    /\ SchedulerInit
    /\ KeysInit
    /\ VRFKeysInit
    /\ LockInit
    /\ RegistryInit
    /\ SessionsInit
    /\ IF part = "vrf" THEN VrfInit
       ELSE salt = 0 /\ proving = Nothing /\ outputs = {}
    /\ IF part = "dss" THEN Dss!DssInit
       ELSE longKey = 0 /\ message = 0 /\ dss = 0 /\ network = 0
    /\ IF part = "abi" THEN Abi!EncodingInit
       ELSE conversion = 0 /\ encoding = 0 /\ encoded = 0
    /\ LogEventInit
    /\ IF part = "http" THEN HttpInit
       ELSE httpTask = 0 /\ httpRequest = [body |-> 0] /\ unread = 0 /\ attempts = 0 /\
            handled = 0 /\ response = NoResponse /\ mbr = NoReader /\ httpOutput = Running
    /\ IF part = "feeds" THEN FeedInit
       ELSE feedURLs = <<>> /\ feedAnswers = <<>> /\ prices = <<>> /\ fetchErrors = 0 /\ fetch = Fetching
    /\ IF part = "data" THEN DataInit
       ELSE tasks = <<>> /\ requestParams = NoMembers /\ taskOutputs = <<>> /\
            dataStatus = "in_progress" /\ served = Plain("")

\* What a step of the component p leaves alone.
Rest(p) ==
    /\ UNCHANGED part
    /\ IF p = "sleeper" THEN TRUE ELSE UNCHANGED vars
    /\ IF p = "pusher" THEN TRUE ELSE UNCHANGED pusherVars
    /\ IF p = "batches" THEN TRUE ELSE UNCHANGED batchVars
    /\ IF p = "scheduler" THEN TRUE ELSE UNCHANGED schedulerVars
    /\ IF p = "accounts" THEN TRUE ELSE UNCHANGED keyVars
    /\ IF p = "vrfkeys" THEN TRUE ELSE UNCHANGED vrfKeyVars
    /\ IF p = "lock" THEN TRUE ELSE UNCHANGED lockVars
    /\ IF p = "registry" THEN TRUE ELSE UNCHANGED registryVars
    /\ IF p = "sessions" THEN TRUE ELSE UNCHANGED sessionVars
    /\ IF p = "vrf" THEN TRUE ELSE UNCHANGED vrfVars
    /\ IF p = "dss" THEN TRUE ELSE UNCHANGED dssVars
    /\ IF p = "abi" THEN TRUE ELSE UNCHANGED encodingVars
    /\ IF p = "logs" THEN TRUE ELSE UNCHANGED logEventVars
    /\ IF p = "http" THEN TRUE ELSE UNCHANGED httpVars
    /\ IF p = "feeds" THEN TRUE ELSE UNCHANGED feedVars
    /\ IF p = "data" THEN TRUE ELSE UNCHANGED dataVars

ComponentsNext ==
    \/ part = "sleeper" /\ Next /\ Rest("sleeper")
    \/ part = "pusher" /\ PusherNext /\ Rest("pusher")
    \/ part = "batches" /\ BatchNext /\ Rest("batches")
    \/ part = "scheduler" /\ SchedulerNext /\ Rest("scheduler")
    \/ part = "accounts" /\ KeysNext /\ Rest("accounts")
    \/ part = "vrfkeys" /\ VRFKeysNext /\ Rest("vrfkeys")
    \/ part = "lock" /\ LockNext /\ Rest("lock")
    \/ part = "registry" /\ RegistryNext /\ Rest("registry")
    \/ part = "sessions" /\ SessionsNext /\ Rest("sessions")
    \/ part = "vrf" /\ VrfNext /\ Rest("vrf")
    \/ part = "dss" /\ Dss!DssNext /\ Rest("dss")
    \/ part = "abi" /\ Abi!EncodingNext /\ Rest("abi")
    \/ part = "logs" /\ LogEventNext /\ Rest("logs")
    \/ part = "http" /\ HttpNext /\ Rest("http")
    \/ part = "feeds" /\ FeedNext /\ Rest("feeds")
    \/ part = "data" /\ DataNext /\ Rest("data")

----------------------------------------------------------------------------
(* Goroutines run: the fairness of the components whose properties need it. *)

ComponentsFairness ==
    /\ \A c \in Callers : WF_vars(part = "sleeper" /\ WakeUp(c))
    /\ WF_vars(part = "sleeper" /\ WorkerStep)
    /\ WF_vars(part = "sleeper" /\ StopReturns)
    /\ WF_pusherVars(part = "pusher" /\ LoopStep)
    /\ WF_pusherVars(part = "pusher" /\ Send)
    /\ SF_pusherVars(part = "pusher" /\ EndEventLoop)
    /\ WF_pusherVars(part = "pusher" /\ DialExplorer)
    /\ WF_pusherVars(part = "pusher" /\ ExplorerStores)
    /\ WF_pusherVars(part = "pusher" /\ OfferAnswer)
    /\ \A p \in Nodes : WF_lockVars(part = "lock" /\ PanicStops(p))

ComponentsSpec ==
    ComponentsInit /\ [][ComponentsNext]_allVars /\ ComponentsFairness

----------------------------------------------------------------------------
(* The properties of each component, under its name.                        *)

\* What has been left for a sleeper task is worked on, before Stop returns, and Stop does.
WorkIsDone ==
    part = "sleeper" => EveryWakeUpIsWorkedOn /\ StopEnds /\ []StopWorksOff

\* What the node encodes, others read: the contract the arguments and numbers as the values of
\* the results, and enough partial signatures as a signature by the long-term key.
OthersReadIt ==
    /\ part = "abi" => Abi!ArgumentsReadBack /\ Abi!NumbersReadBack
    /\ part = "dss" => Dss!EnoughIsASignature
=============================================================================
