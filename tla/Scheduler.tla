------------------------------- MODULE Scheduler -------------------------------
(****************************************************************************)
(* The scheduler (core/services/scheduler.go), which creates the runs of a  *)
(* job's cron and runat initiators, from the start of the node to its stop. *)
(*                                                                          *)
(* There is one job, with cron initiators and one runat initiator.  Time is a bounded     *)
(* clock; the cron schedule may fire at any moment, the one-time initiator  *)
(* is due at RunAt.  The job's page of Jobs is in Batches, what becomes of  *)
(* a run in JobRuns.                                                        *)
(****************************************************************************)
EXTENDS Integers, FiniteSets

CONSTANTS
    StartAt, EndAt,   \* the period of the job
    RunAt,            \* the time of its runat initiator
    Crons,            \* the number of its cron initiators
    MaxClock,         \* bound on the clock
    MaxFires,         \* bound on the runs that cron begins
    MaxStarts         \* bound on the starts of the node

VARIABLES
    clock,
    job,        \* is the job "absent", "stored" or "archived"
    ran,        \* is the runat initiator marked as ran
    scheduler,  \* is the scheduler "off", "loading", "started", "stopping" or "stopped"
    starts,     \* the starts so far
    cron,       \* the cron entries of the job, one for each of its cron initiators
    firing,     \* the runs that cron has begun and not created: each with its entry
    timer,      \* the goroutine of the runat initiator: where it is
    adding,     \* is the job stored and AddJob yet to be called
    fired,      \* history: the runs that cron has begun
    onceRuns,   \* history: the runs created for the runat initiator
    quietRuns,  \* history: the runs that cron creates while the scheduler is stopped
    createdFor  \* history: for the runs of an entry, the initiator they were created with

memory == <<scheduler, starts, cron, firing, timer, adding>>
schedulerVars == <<clock, job, ran, memory, fired, onceRuns, quietRuns, createdFor>>

SchedulerInit ==
    /\ clock = 0
    /\ job = "absent" /\ ran = FALSE
    /\ scheduler = "off" /\ starts = 0
    /\ cron = {} /\ firing = {} /\ timer = "none" /\ adding = FALSE
    /\ fired = 0 /\ onceRuns = 0 /\ quietRuns = 0 /\ createdFor = {}

Tick ==
    /\ clock < MaxClock
    /\ clock' = clock + 1
    /\ UNCHANGED <<job, ran, memory, fired, onceRuns, quietRuns, createdFor>>

\* Started and Ended of the job.
Open == StartAt <= clock /\ clock <= EndAt

----------------------------------------------------------------------------
(* Start, Stop and AddJob, which exclude each other by startedMutex.        *)

\* addJob: an entry for each cron initiator, and a goroutine that waits for the time.
\* Whether the runat initiator has ran is not asked.
AddToSchedule ==
    /\ cron' = 1 .. Crons
    /\ timer' = "waiting"

Start ==
    /\ scheduler = "off"
    /\ starts < MaxStarts
    /\ starts' = starts + 1
    /\ scheduler' = "started"
    /\ IF job = "stored" THEN AddToSchedule ELSE UNCHANGED <<cron, timer>>
    /\ UNCHANGED <<clock, job, ran, firing, adding, fired, onceRuns, quietRuns, createdFor>>

\* ChainlinkApplication.AddJob: the job is stored, then added.  The API that creates
\* jobs is served when Start has returned, and until the process ends.
CreateJob ==
    /\ job = "absent"
    /\ scheduler # "off"
    /\ job' = "stored"
    /\ adding' = TRUE
    /\ UNCHANGED <<clock, ran, scheduler, starts, cron, firing, timer, fired, onceRuns, quietRuns, createdFor>>

AddJob ==
    /\ adding
    /\ scheduler \in {"started", "stopped"}
    /\ adding' = FALSE
    /\ IF scheduler = "started" THEN AddToSchedule ELSE UNCHANGED <<cron, timer>>
    /\ UNCHANGED <<clock, job, ran, scheduler, starts, firing, fired, onceRuns, quietRuns, createdFor>>

ArchiveJob ==
    /\ job = "stored"
    /\ scheduler # "off"
    /\ job' = "archived"
    /\ UNCHANGED <<clock, ran, memory, fired, onceRuns, quietRuns, createdFor>>

\* Recurring.Stop: no entry fires any more, and the runs under way are waited for.
StopCron ==
    /\ scheduler = "started"
    /\ scheduler' = "stopping"
    /\ cron' = {}
    /\ UNCHANGED <<clock, job, ran, starts, firing, timer, adding, fired, onceRuns, quietRuns, createdFor>>

\* Mutant: the runs under way are not waited for.
StopOneTime_NoWait ==
    /\ scheduler = "stopping"
    /\ scheduler' = "stopped"
    /\ UNCHANGED <<clock, job, ran, starts, cron, firing, timer, adding, fired, onceRuns, quietRuns, createdFor>>

StopOneTime ==
    /\ scheduler = "stopping"
    /\ firing = {}
    /\ scheduler' = "stopped"
    /\ UNCHANGED <<clock, job, ran, starts, cron, firing, timer, adding, fired, onceRuns, quietRuns, createdFor>>

\* The process ends, after Stop or in the middle of anything.
Crash ==
    /\ scheduler # "off"
    /\ scheduler' = "off"
    /\ cron' = {} /\ firing' = {} /\ timer' = "none" /\ adding' = FALSE
    /\ UNCHANGED <<clock, job, ran, starts, fired, onceRuns, quietRuns, createdFor>>

----------------------------------------------------------------------------
(* The runs.                                                                *)

\* What runManager.Create does with the job: it stores a run, it returns an expected
\* error for a job that is archived or not open, or it fails.
Creates == job = "stored" /\ Open
Expected == job = "archived" \/ ~Open

\* The function of a cron entry, up to Create.
Fire ==
    /\ fired < MaxFires
    /\ Open
    /\ fired' = fired + 1
    /\ \E entry \in cron : firing' = firing \cup {<<fired', entry>>}
    /\ UNCHANGED <<clock, job, ran, scheduler, starts, cron, timer, adding, onceRuns, quietRuns, createdFor>>

\* The entries share the variable of the loop that made them, so each run is created
\* with the last initiator.
LoopVariable == Crons

CreateRecurring ==
    /\ \E f \in firing :
        /\ firing' = firing \ {f}
        /\ createdFor' = IF Creates THEN createdFor \cup {<<f[2], LoopVariable>>} ELSE createdFor
    /\ quietRuns' = IF Creates /\ scheduler = "stopped" THEN quietRuns + 1 ELSE quietRuns
    /\ UNCHANGED <<clock, job, ran, scheduler, starts, cron, timer, adding, fired, onceRuns>>

\* RunJobAt goes on when the time has come, although done may be closed too.
Due ==
    /\ timer = "waiting"
    /\ clock >= RunAt
    /\ timer' = IF Open THEN "due" ELSE "none"
    /\ UNCHANGED <<clock, job, ran, scheduler, starts, cron, firing, adding, fired, onceRuns, quietRuns, createdFor>>

Done ==
    /\ timer = "waiting"
    /\ scheduler = "stopped"
    /\ timer' = "none"
    /\ UNCHANGED <<clock, job, ran, scheduler, starts, cron, firing, adding, fired, onceRuns, quietRuns, createdFor>>

CreateOnce ==
    /\ timer = "due"
    /\ \/ Creates /\ timer' = "created" /\ onceRuns' = onceRuns + 1
       \/ Expected /\ timer' = "created" /\ UNCHANGED onceRuns
       \/ timer' = "none" /\ UNCHANGED onceRuns
    /\ UNCHANGED <<clock, job, ran, scheduler, starts, cron, firing, adding, fired, quietRuns, createdFor>>

\* MarkRan does not find the initiator of an archived job, and may fail.
MarkRan ==
    /\ timer = "created"
    /\ timer' = "none"
    /\ ran' \in {ran, ran \/ job = "stored"}
    /\ UNCHANGED <<clock, job, scheduler, starts, cron, firing, adding, fired, onceRuns, quietRuns, createdFor>>

----------------------------------------------------------------------------

SchedulerNext ==
    \/ Tick
    \/ Start \/ CreateJob \/ AddJob \/ ArchiveJob \/ StopCron \/ StopOneTime \/ Crash
    \/ Fire \/ CreateRecurring
    \/ Due \/ Done \/ CreateOnce \/ MarkRan

SchedulerSpec == SchedulerInit /\ [][SchedulerNext]_schedulerVars

----------------------------------------------------------------------------
(* Properties.                                                              *)

\* When Stop has returned, cron creates no run: it is waited for, though a run may
\* have begun just before.
CronIsQuiet == quietRuns = 0

\* scheduler.go:142: "OneTime represents runs that are to be executed only once."
RunsOnce == onceRuns <= 1

\* The run of a cron entry is created with the initiator that the entry was made for.
\* Not so for a job with several (go.mod: Go 1.12, one variable for all the iterations).
OwnInitiator == \A c \in createdFor : c[1] = c[2]
=============================================================================
