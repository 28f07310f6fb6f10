-------------------------------- MODULE Registry --------------------------------
(****************************************************************************)
(* What the API lets an operator register: jobs and service agreements,     *)
(* bridges, external initiators (core/web, core/services/validators.go and  *)
(* their tables in core/store/orm/orm.go).                                  *)
(*                                                                          *)
(* Each request is a goroutine that checks, in one or more queries, and     *)
(* then writes; requests interleave between their queries, and a query that *)
(* writes may fail.  A request that makes a job gives the job its name.     *)
(*                                                                          *)
(* A job spec is a record: its initiators and tasks, each with what the     *)
(* validation looks at, and its period.  Times are in half seconds.         *)
(****************************************************************************)
EXTENDS Integers, FiniteSets, Sequences

CONSTANTS
    MaxRequests,    \* bound on the requests
    SpecOf,         \* the job specs that requests ask for, by their names
    BridgeNames,    \* names of bridges as requests give them
    ExternalNames,  \* names of external initiators as requests give them
    Lower,          \* each name in lower case
    Dev             \* is the node in development mode

ASSUME RegistryAssumption ==
    /\ MaxRequests \in Nat
    /\ \A n \in ExternalNames : Lower[Lower[n]] = Lower[n]

VARIABLES
    requests,       \* each request: the operation, its argument, and where it is
    bridges,        \* the bridges, each with the token that the last Create gave it
    jobs,           \* the state of each job: "absent", "stored" or "archived"
    subscribed,     \* the jobs that the flux monitor and the job subscriber have
    agreements,     \* the service agreements
    externals,      \* the external initiators
    noticed,        \* history: the jobs that an external initiator was told of
    raced,          \* history: the jobs stored while or after a bridge of theirs was removed
    orphaned,       \* history: the jobs whose bridge was removed under another spelling
    tokens          \* history: the token that was answered last for each bridge

registryVars == <<requests, bridges, jobs, subscribed, agreements, externals,
                  noticed, raced, orphaned, tokens>>
history == <<noticed, raced, orphaned, tokens>>

Requests == 1 .. MaxRequests
Bridges == {Lower[n] : n \in BridgeNames}
NoTime == -1
NoBridgeToken == 0

RegistryInit ==
    /\ requests = [r \in Requests |->
                     [op |-> "none", on |-> "none", at |-> "none", token |-> NoBridgeToken]]
    /\ bridges = [b \in Bridges |-> NoBridgeToken]
    /\ jobs = [r \in Requests |-> "absent"]
    /\ subscribed = {} /\ agreements = {} /\ externals = {}
    /\ noticed = {} /\ raced = {} /\ orphaned = {}
    /\ tokens = [b \in Bridges |-> NoBridgeToken]

----------------------------------------------------------------------------
(* Validation.                                                              *)

Adapters == {"copy", "ethbool", "ethbytes32", "ethint256", "ethuint256", "ethtx",
    "ethtxabiencode", "httpget", "httppost", "jsonparse", "multiply", "noop", "nooppend",
    "sleep", "wasm", "random", "compare", "quotient"}

HasBridge(name) == name \in Bridges /\ bridges[name] # NoBridgeToken

\* adapters.For: an adapter of the node, if its parameters can be read, or a bridge.
AdapterFor(task) == (task.type \in Adapters /\ task.readable) \/ HasBridge(task.type)

\* Without the development mode two adapters are refused; an unknown type makes the
\* handler panic there, which refuses it too.
validateTask(task) ==
    /\ AdapterFor(task)
    /\ Dev \/ task.type \notin {"sleep", "ethtxabiencode"}

\* Times are compared to the second.
Unix(t) == t \div 2

validateRunAtInitiator(i, j) ==
    /\ i.time # NoTime
    /\ j.startAt # NoTime => Unix(i.time) >= Unix(j.startAt)
    /\ j.endAt # NoTime => Unix(i.time) <= Unix(j.endAt)

EthTxs(j) == {k \in DOMAIN j.tasks : j.tasks[k].type = "ethtx"}

validateRunLogInitiator(j) ==
    /\ Cardinality(EthTxs(j)) <= 1
    /\ \A k \in EthTxs(j) : j.tasks[k].params \cap {"functionselector", "address"} = {}

\* Every named feed is a bridge, and no bridge is named twice.
validateFeeds(feeds) ==
    /\ feeds # <<>>
    /\ \A k \in DOMAIN feeds : HasBridge(feeds[k]) \/ feeds[k] = "url"
    /\ \A k, n \in DOMAIN feeds : feeds[k] = feeds[n] /\ k # n => feeds[k] = "url"

validateFluxMonitor(i) ==
    /\ i.address
    /\ i.idleThreshold = 0 \/ i.idleThreshold >= i.pollingInterval
    /\ i.threshold > 0
    /\ i.pollingInterval >= 1
    /\ validateFeeds(i.feeds)

ValidateInitiator(i, j) ==
    \/ i.type \in {"web", "ethlog"}
    \/ i.type = "runat" /\ validateRunAtInitiator(i, j)
    \/ i.type = "cron" /\ i.schedule
    \/ i.type = "external" /\ i.name # "none"
    \/ i.type = "execagreement" /\ Len(j.initiators) = 1
    \/ i.type = "runlog" /\ validateRunLogInitiator(j)
    \/ i.type = "fluxmonitor" /\ validateFluxMonitor(i)
    \/ i.type = "randomnesslog" /\ Len(j.initiators) = 1 /\ i.address

ValidateJob(j) ==
    /\ j.startAt # NoTime /\ j.endAt # NoTime => j.startAt <= j.endAt
    /\ Len(j.initiators) >= 1 /\ Len(j.tasks) >= 1
    /\ \A k \in DOMAIN j.initiators : ValidateInitiator(j.initiators[k], j)
    /\ \A k \in DOMAIN j.tasks : validateTask(j.tasks[k])

InitiatorsFor(j, type) == {k \in DOMAIN j.initiators : j.initiators[k].type = type}

\* Job.Started and Job.Ended, which the scheduler and the run manager ask.
OpenAt(j, t) ==
    /\ j.startAt # NoTime => t >= j.startAt
    /\ j.endAt # NoTime => t <= j.endAt

----------------------------------------------------------------------------
(* The requests.                                                            *)

Wanted(r) == SpecOf[requests[r].on]
IsAt(r, op, step) == requests[r].op = op /\ requests[r].at = step
GoesTo(r, step) == requests' = [requests EXCEPT ![r].at = step]
Finishes(r) == GoesTo(r, "done")

BeginRequest(r, op, on) ==
    /\ requests[r].op = "none"
    /\ \A q \in 1 .. r - 1 : requests[q].op # "none"
    /\ requests' = [requests EXCEPT ![r] =
                        [op |-> op, on |-> on, at |-> "begin", token |-> NoBridgeToken]]
    /\ UNCHANGED <<bridges, jobs, subscribed, agreements, externals, history>>

\* A job is refused when it is not valid, then when its external initiator is not
\* there or there are several.
CheckJob(r) ==
    /\ IsAt(r, "job", "begin")
    /\ GoesTo(r, IF ValidateJob(Wanted(r)) THEN "notify" ELSE "done")
    /\ UNCHANGED <<bridges, jobs, subscribed, agreements, externals, history>>

NotifyExternalInitiator(r) ==
    /\ IsAt(r, "job", "notify")
    /\ LET named == {Wanted(r).initiators[k].name : k \in InitiatorsFor(Wanted(r), "external")} IN
       \/ named = {} /\ GoesTo(r, "store") /\ UNCHANGED noticed
       \/ /\ Cardinality(InitiatorsFor(Wanted(r), "external")) = 1
          /\ \E e \in externals : Lower[e] \in {Lower[n] : n \in named}
          /\ GoesTo(r, "store")
          /\ noticed' \in {noticed, noticed \cup {r}}
       \/ named # {} /\ Finishes(r) /\ UNCHANGED noticed
    /\ UNCHANGED <<bridges, jobs, subscribed, agreements, externals, raced, orphaned, tokens>>

\* The bridges that the tasks of a job name.
BridgesOf(j) == {j.tasks[k].type : k \in DOMAIN j.tasks} \ Adapters

BeingRemoved(b) == \E q \in Requests : IsAt(q, "destroy", "delete") /\ Lower[requests[q].on] = b

StoreJob(r) ==
    /\ jobs' = [jobs EXCEPT ![r] = "stored"]
    /\ raced' = raced \cup
          (IF \E b \in BridgesOf(Wanted(r)) : ~HasBridge(b) \/ BeingRemoved(b) THEN {r} ELSE {})

CreateJobSpec(r) ==
    /\ IsAt(r, "job", "store")
    /\ \/ StoreJob(r) /\ GoesTo(r, "add")
       \/ Finishes(r) /\ UNCHANGED <<jobs, raced>>
    /\ UNCHANGED <<bridges, subscribed, agreements, externals, noticed, orphaned, tokens>>

\* ServiceAgreementsController.Create: an agreement that is there is answered as it
\* is, and so is a query that fails for another reason than that it is not there.
FindServiceAgreement(r) ==
    /\ IsAt(r, "agreement", "begin")
    /\ GoesTo(r, "check") \/ GoesTo(r, "answered")
    /\ requests'[r].at = "check" => requests[r].on \notin agreements
    /\ UNCHANGED <<bridges, jobs, subscribed, agreements, externals, history>>

\* ValidateServiceAgreement: the payment, the expiration, the oracles and the period
\* (agreement), and the job.
CheckAgreement(r) ==
    /\ IsAt(r, "agreement", "check")
    /\ GoesTo(r, IF Wanted(r).agreement /\ ValidateJob(Wanted(r)) THEN "store" ELSE "done")
    /\ UNCHANGED <<bridges, jobs, subscribed, agreements, externals, history>>

\* One transaction for the job and the agreement, whose key must be new.
CreateServiceAgreement(r) ==
    /\ IsAt(r, "agreement", "store")
    /\ \/ /\ requests[r].on \notin agreements
          /\ agreements' = agreements \cup {requests[r].on}
          /\ StoreJob(r)
          /\ GoesTo(r, "add")
       \/ Finishes(r) /\ UNCHANGED <<agreements, jobs, raced>>
    /\ UNCHANGED <<bridges, subscribed, externals, noticed, orphaned, tokens>>

\* The end of AddJob and AddServiceAgreement: the services are told, errors are logged.
AddToServices(r) ==
    /\ IsAt(r, "job", "add") \/ IsAt(r, "agreement", "add")
    /\ subscribed' \in {subscribed, subscribed \cup {r}}
    /\ GoesTo(r, "answered")
    /\ UNCHANGED <<bridges, jobs, agreements, externals, history>>

RemoveFromServices(r) ==
    /\ IsAt(r, "archive", "begin")
    /\ subscribed' = subscribed \ {requests[r].on}
    /\ GoesTo(r, "archive")
    /\ UNCHANGED <<bridges, jobs, agreements, externals, history>>

\* The tasks and initiators of the job go with it.
ArchiveJobSpec(r) ==
    /\ IsAt(r, "archive", "archive")
    /\ jobs' = IF jobs[requests[r].on] = "stored"
               THEN [jobs EXCEPT ![requests[r].on] = "archived"] ELSE jobs
    /\ Finishes(r)
    /\ UNCHANGED <<bridges, subscribed, agreements, externals, history>>

\* A bridge is known by its name in lower case.
Bridge(r) == Lower[requests[r].on]

CheckBridge(r) ==
    /\ IsAt(r, "newBridge", "begin")
    /\ GoesTo(r, IF Bridge(r) \in Adapters \/ HasBridge(Bridge(r)) THEN "done" ELSE "store")
    /\ UNCHANGED <<bridges, jobs, subscribed, agreements, externals, history>>

\* The name is the key.
CreateBridgeType(r) ==
    /\ IsAt(r, "newBridge", "store")
    /\ \/ /\ ~HasBridge(Bridge(r))
          /\ bridges' = [bridges EXCEPT ![Bridge(r)] = r]
          /\ tokens' = [tokens EXCEPT ![Bridge(r)] = r]
       \/ UNCHANGED <<bridges, tokens>>
    /\ Finishes(r)
    /\ UNCHANGED <<jobs, subscribed, agreements, externals, noticed, raced, orphaned>>

FindBridge(r) ==
    /\ requests[r].op \in {"update", "destroy"} /\ requests[r].at = "begin"
    /\ requests' = [requests EXCEPT ![r].at = IF ~HasBridge(Bridge(r)) THEN "done" ELSE "found",
                                  ![r].token = bridges[Bridge(r)]]
    /\ UNCHANGED <<bridges, jobs, subscribed, agreements, externals, history>>

\* Save of the whole row that was read, which makes the row if it is gone.
UpdateBridgeType(r) ==
    /\ IsAt(r, "update", "found")
    /\ bridges' = [bridges EXCEPT ![Bridge(r)] = requests[r].token]
    /\ Finishes(r)
    /\ UNCHANGED <<jobs, subscribed, agreements, externals, history>>

UsersOf(name) == {j \in Requests : jobs[j] = "stored" /\ name \in BridgesOf(Wanted(j))}

\* Mutant: the jobs are not asked for.
AnyJobWithType_Skipped(r) ==
    /\ IsAt(r, "destroy", "found")
    /\ GoesTo(r, "delete")
    /\ UNCHANGED <<bridges, jobs, subscribed, agreements, externals, history>>

\* The jobs are asked for with the name as it was given.
AnyJobWithType(r) ==
    /\ IsAt(r, "destroy", "found")
    /\ GoesTo(r, IF UsersOf(requests[r].on) # {} THEN "done" ELSE "delete")
    /\ UNCHANGED <<bridges, jobs, subscribed, agreements, externals, history>>

DeleteBridgeType(r) ==
    /\ IsAt(r, "destroy", "delete")
    /\ bridges' = [bridges EXCEPT ![Bridge(r)] = NoBridgeToken]
    /\ orphaned' = IF requests[r].on = Bridge(r) THEN orphaned
                   ELSE orphaned \cup (UsersOf(Bridge(r)) \ raced)
    /\ Finishes(r)
    /\ UNCHANGED <<jobs, subscribed, agreements, externals, noticed, raced, tokens>>

CheckExternal(r) ==
    /\ IsAt(r, "newExternal", "begin")
    /\ GoesTo(r, IF \E e \in externals : Lower[e] = Lower[requests[r].on] THEN "done" ELSE "store")
    /\ UNCHANGED <<bridges, jobs, subscribed, agreements, externals, history>>

\* Mutant: the name is stored as it was given.
CreateExternalInitiator_AsGiven(r) ==
    /\ IsAt(r, "newExternal", "store")
    /\ externals' \in {externals, externals \cup {requests[r].on}}
    /\ Finishes(r)
    /\ UNCHANGED <<bridges, jobs, subscribed, agreements, history>>

\* The name is stored in lower case, and unique.
CreateExternalInitiator(r) ==
    /\ IsAt(r, "newExternal", "store")
    /\ externals' \in {externals, externals \cup {Lower[requests[r].on]}}
    /\ Finishes(r)
    /\ UNCHANGED <<bridges, jobs, subscribed, agreements, history>>

FindExternal(r) ==
    /\ IsAt(r, "endExternal", "begin")
    /\ Dev
    /\ GoesTo(r, IF \E e \in externals : Lower[e] = Lower[requests[r].on] THEN "delete" ELSE "done")
    /\ UNCHANGED <<bridges, jobs, subscribed, agreements, externals, history>>

\* The model has no primary key, so the Delete of gorm has no condition: it removes
\* every external initiator.
DeleteExternalInitiator(r) ==
    /\ IsAt(r, "endExternal", "delete")
    /\ externals' = {}
    /\ Finishes(r)
    /\ UNCHANGED <<bridges, jobs, subscribed, agreements, history>>

----------------------------------------------------------------------------

BeginAny(r) ==
    \/ \E s \in DOMAIN SpecOf :
        BeginRequest(r, "job", s) \/ (Dev /\ BeginRequest(r, "agreement", s))
    \/ \E b \in BridgeNames, op \in {"newBridge", "update", "destroy"} : BeginRequest(r, op, b)
    \/ \E n \in ExternalNames, op \in {"newExternal", "endExternal"} : BeginRequest(r, op, n)
    \/ \E j \in Requests : jobs[j] # "absent" /\ BeginRequest(r, "archive", j)

RegistryNext ==
    \E r \in Requests :
        \/ BeginAny(r)
        \/ CheckJob(r) \/ NotifyExternalInitiator(r) \/ CreateJobSpec(r) \/ AddToServices(r)
        \/ FindServiceAgreement(r) \/ CheckAgreement(r) \/ CreateServiceAgreement(r)
        \/ RemoveFromServices(r) \/ ArchiveJobSpec(r)
        \/ CheckBridge(r) \/ CreateBridgeType(r)
        \/ FindBridge(r) \/ UpdateBridgeType(r) \/ AnyJobWithType(r) \/ DeleteBridgeType(r)
        \/ CheckExternal(r) \/ CreateExternalInitiator(r)
        \/ FindExternal(r) \/ DeleteExternalInitiator(r)

RegistrySpec == RegistryInit /\ [][RegistryNext]_registryVars

----------------------------------------------------------------------------
(* Properties.                                                              *)

\* A job that is stored has the bridges that its tasks name, though requests that make
\* and remove bridges run beside the one that made the job: unless it was stored while
\* a bridge was being removed, or the bridge was removed under another spelling.
JobsHaveTheirBridges ==
    \A j \in Requests \ (raced \cup orphaned) :
        jobs[j] = "stored" => \A b \in BridgesOf(Wanted(j)) : HasBridge(b)

\* No two external initiators have names that are equal but for their case, though
\* each is looked for before another is stored.
NamesAreUnique == \A e, f \in externals : Lower[e] = Lower[f] => e = f

\* bridge_types_controller.go:145: "Can't remove the bridge because there are jobs
\* associated with it."  Not so when the bridge is named with a capital letter.
UsedBridgeStays == orphaned = {}

Quiet == \A r \in Requests : requests[r].at \in {"none", "done", "answered"}

\* application.go: "ArchiveJob silences the job from the system."  Not so when the job
\* is archived while it is added.
ArchivedIsSilent == Quiet => \A j \in subscribed : jobs[j] = "stored"

\* external_initiators.go: "JobSpecNotice is sent to the External Initiator when
\* JobSpecs are created."  It is sent before, and stands when the job is not stored.
NoticedIsStored == Quiet => \A j \in noticed : jobs[j] # "absent"

\* An agreement that is answered is there.  Not so when the first query fails.
AnsweredAgreementIsStored ==
    \A r \in Requests : IsAt(r, "agreement", "answered") => requests[r].on \in agreements

\* The token that was answered for a bridge is the one it has.  Not so when an update
\* writes back a row that was removed, and made again, since it was read.
AnsweredTokenWorks ==
    Quiet => \A b \in Bridges : bridges[b] = NoBridgeToken \/ bridges[b] = tokens[b]

\* A job with a runat initiator is open at that time.  Not so within the first or last
\* second of its period.
RunAtIsOpen ==
    \A j \in Requests : jobs[j] = "stored" =>
        \A k \in InitiatorsFor(Wanted(j), "runat") : OpenAt(Wanted(j), Wanted(j).initiators[k].time)

\* orm.go:379: "DeleteExternalInitiator removes an external initiator", and no other.
OneIsRemoved ==
    [][\A r \in Requests : IsAt(r, "endExternal", "delete") /\ requests'[r].at = "done" =>
          \A e \in externals \ externals' : Lower[e] = Lower[requests[r].on]]_registryVars
=============================================================================
