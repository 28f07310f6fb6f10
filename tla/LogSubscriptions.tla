--------------------------- MODULE LogSubscriptions ---------------------------
(****************************************************************************)
(* The log subscriptions of the jobs (core/services/job_subscriber.go and   *)
(* subscription.go).  When the head tracker connects, the job subscriber    *)
(* subscribes every job of the database to its logs, from the block after   *)
(* the tracker's head; when it disconnects all subscriptions are given      *)
(* back.  Meanwhile the API adds and archives jobs, in goroutines of its    *)
(* own.  Each subscription has a goroutine that first fetches the old logs  *)
(* (the backfill) and then takes the new ones, and makes a run of the job   *)
(* for each of them.                                                        *)
(*                                                                          *)
(* Every block holds one log for each initiator, named by its block; the    *)
(* chain does not reorganise.                                               *)
(****************************************************************************)
EXTENDS Integers, Sequences, FiniteSets, SequencesExt

CONSTANTS
    Jobs,           \* the jobs that log initiators run
    Initiators,     \* the log initiators
    JobOf,          \* the job of each initiator
    FirstHead,      \* the head in the database at the start, 0 when there is none
    Replay,         \* Config.ReplayFromBlock, 0 when it is not set
    MaxBlock,       \* bound on the blocks mined
    MaxSubs         \* bound on the subscriptions made

ASSUME ConstantsAssumption ==
    /\ JobOf \in [Initiators -> Jobs]
    /\ IsFiniteSet(Initiators)
    /\ Replay \in Nat
    /\ FirstHead \in 0 .. MaxBlock
    /\ MaxBlock \in Nat
    /\ MaxSubs \in Nat

VARIABLES
    height,     \* the blocks mined
    head,       \* the head of the head tracker, which a restart finds again
    reachable,  \* can the Ethereum node be reached
    tracking,   \* is the head tracker's own subscription alive
    conn,       \* the listener of the head tracker, in the job subscriber's Connect
    table,      \* js.jobSubscriptions, the subscriptions of each job
    api,        \* where the API is with each job
    held,       \* the subscriptions the API has in hand for each job
    subs        \* the subscriptions made so far

vars == <<height, head, reachable, tracking, conn, table, api, held, subs>>

Blocks == 1 .. MaxBlock
Ids == 1 .. MaxSubs
InitiatorsFor(j) == {i \in Initiators : JobOf[i] = j}

\* The steps of the API: AddJob creates the job and subscribes it, ArchiveJob
\* removes it from the table, gives its subscriptions back and archives it.
ApiSteps == {"absent", "subscribe", "insert", "ready", "unsubscribe", "archive", "archived"}
InDb(j) == api[j] \notin {"absent", "archived"}

Connections ==
    [at : {"off", "walk", "insert", "on"}, bn : 0 .. MaxBlock,
     todo : SUBSET Jobs, ids : SUBSET Ids]
Off == [at |-> "off", bn |-> 0, todo |-> {}, ids |-> {}]

\* A subscription: its initiator, the head and first block it was made with (0
\* is none), whether the node serves it and whether Unsubscribe has closed it,
\* where its goroutine is, the logs in its channel, those it knows from the
\* backfill, those of them still to do, and how often it has made a run of each.
Subscriptions ==
    [initr : Initiators, bn : 0 .. MaxBlock, from : Nat,
     live : BOOLEAN, closed : BOOLEAN, at : {"backfill", "listen", "create", "done"},
     log : 0 .. MaxBlock, pending : SUBSET Blocks, seen : SUBSET Blocks,
     todo : SUBSET Blocks, runs : [Blocks -> Nat]]

\* The values the variables take; what is in hand, or in the table, has been made.
TypeOK ==
    /\ height \in 0 .. MaxBlock
    /\ head \in 0 .. height
    /\ reachable \in BOOLEAN
    /\ tracking \in BOOLEAN
    /\ conn \in Connections
    /\ conn.at = "insert" <=> conn.ids # {}
    /\ table \in [Jobs -> SUBSET (1 .. Len(subs))]
    /\ api \in [Jobs -> ApiSteps]
    /\ held \in [Jobs -> SUBSET (1 .. Len(subs))]
    /\ subs \in Seq(Subscriptions)

\* The database has some of the jobs; its head, and what is below it, has been
\* mined before.
Init ==
    /\ height = FirstHead
    /\ head = FirstHead
    /\ reachable = TRUE
    /\ tracking = FALSE
    /\ conn = Off
    /\ table = [j \in Jobs |-> {}]
    /\ api \in [Jobs -> {"absent", "ready"}]
    /\ held = [j \in Jobs |-> {}]
    /\ subs = <<>>

----------------------------------------------------------------------------
(* StartJobSubscription.                                                    *)

\* Mutant: the subscription begins at the current block.
NextHead_Inclusive(bn) == IF Replay > 0 THEN Replay ELSE bn

\* The block after the head; a head that is nil gives none.
NextHead(bn) ==
    IF Replay > 0 THEN Replay ELSE IF bn = 0 THEN 0 ELSE bn + 1

NewSubscription(i, bn) ==
    [initr |-> i, bn |-> bn, from |-> NextHead(bn), live |-> TRUE, closed |-> FALSE,
     at |-> "backfill", log |-> 0, pending |-> {}, seen |-> {}, todo |-> {},
     runs |-> [b \in Blocks |-> 0]]

\* The initiators made of a job are subscribed; the others have failed.
Subscribe(made, bn) ==
    LET opened == SetToSeq({NewSubscription(i, bn) : i \in made})
    IN  /\ made = {} \/ reachable
        /\ Len(subs) + Len(opened) <= MaxSubs
        /\ subs' = subs \o opened

\* What AddJob goes on with: if any initiator has failed, its error comes back
\* along with the subscription of the others, and AddJob drops it.
Kept(j, made) ==
    IF made = InitiatorsFor(j) THEN Len(subs) + 1 .. Len(subs) + Cardinality(made) ELSE {}

\* Unsubscribe on each of ids: the channel of the logs is closed.
Unsubscribed(ids) ==
    [s \in DOMAIN subs |->
        IF s \in ids
        THEN [subs[s] EXCEPT !.live = FALSE, !.closed = TRUE, !.pending = {}]
        ELSE subs[s]]

----------------------------------------------------------------------------
(* Connect and Disconnect, called by the listener of the head tracker.      *)

\* Connect reads the jobs of the database.
Connect ==
    /\ conn.at = "off"
    /\ reachable
    /\ tracking' = TRUE
    /\ conn' = [at |-> "walk", bn |-> head, todo |-> {j \in Jobs : InDb(j)}, ids |-> {}]
    /\ UNCHANGED <<height, head, reachable, table, api, held, subs>>

\* AddJob for the next job of Connect, up to StartJobSubscription.
ConnectSubscribes(j) ==
    /\ conn.at = "walk"
    /\ j \in conn.todo
    /\ \E made \in SUBSET InitiatorsFor(j) :
        /\ Subscribe(made, conn.bn)
        /\ conn' = IF Kept(j, made) = {}
                   THEN [conn EXCEPT !.todo = @ \ {j}]
                   ELSE [conn EXCEPT !.at = "insert", !.ids = Kept(j, made)]
    /\ UNCHANGED <<height, head, reachable, tracking, table, api, held>>

\* addSubscription for that job, whatever the table holds for it.
ConnectInserts(j) ==
    /\ conn.at = "insert"
    /\ \A s \in conn.ids : JobOf[subs[s].initr] = j
    /\ table' = [table EXCEPT ![j] = conn.ids]
    /\ conn' = [conn EXCEPT !.at = "walk", !.todo = @ \ {j}, !.ids = {}]
    /\ UNCHANGED <<height, head, reachable, tracking, api, held, subs>>

ConnectReturns ==
    /\ conn.at = "walk"
    /\ conn.todo = {}
    /\ conn' = [conn EXCEPT !.at = "on"]
    /\ UNCHANGED <<height, head, reachable, tracking, table, api, held, subs>>

\* Mutant: the table is emptied, and nothing else.
Disconnect_TableOnly ==
    /\ conn.at = "on"
    /\ conn' = Off
    /\ tracking' = FALSE
    /\ table' = [j \in Jobs |-> {}]
    /\ UNCHANGED <<height, head, reachable, api, held, subs>>

\* The head tracker has lost its subscription, or stops: all that the table
\* holds is unsubscribed, under the lock.
Disconnect ==
    /\ conn.at = "on"
    /\ conn' = Off
    /\ tracking' = FALSE
    /\ subs' = Unsubscribed(UNION {table[j] : j \in Jobs})
    /\ table' = [j \in Jobs |-> {}]
    /\ UNCHANGED <<height, head, reachable, api, held>>

\* A head reaches the tracker, which has missed those below it or not, before
\* or after the logs of its block reach the subscriptions.
HeadArrives(n) ==
    /\ conn.at = "on"
    /\ tracking
    /\ n \in head + 1 .. height
    /\ head' = n
    /\ UNCHANGED <<height, reachable, tracking, conn, table, api, held, subs>>

----------------------------------------------------------------------------
(* AddJob and ArchiveJob of the application.                                *)

CreateJob(j) ==
    /\ api[j] = "absent"
    /\ api' = [api EXCEPT ![j] = "subscribe"]
    /\ UNCHANGED <<height, head, reachable, tracking, conn, table, held, subs>>

\* JobSubscriber.AddJob with no head, connected or not.
ApiSubscribes(j) ==
    /\ api[j] = "subscribe"
    /\ \E made \in SUBSET InitiatorsFor(j) :
        /\ Subscribe(made, 0)
        /\ held' = [held EXCEPT ![j] = Kept(j, made)]
        /\ api' = [api EXCEPT ![j] = IF Kept(j, made) = {} THEN "ready" ELSE "insert"]
    /\ UNCHANGED <<height, head, reachable, tracking, conn, table>>

ApiInserts(j) ==
    /\ api[j] = "insert"
    /\ table' = [table EXCEPT ![j] = held[j]]
    /\ api' = [api EXCEPT ![j] = "ready"]
    /\ held' = [held EXCEPT ![j] = {}]
    /\ UNCHANGED <<height, head, reachable, tracking, conn, subs>>

\* RemoveJob takes the job out of the table, under the lock; that there is
\* none is an error ArchiveJob ignores.
RemoveJob(j) ==
    /\ api[j] = "ready"
    /\ held' = [held EXCEPT ![j] = table[j]]
    /\ table' = [table EXCEPT ![j] = {}]
    /\ api' = [api EXCEPT ![j] = "unsubscribe"]
    /\ UNCHANGED <<height, head, reachable, tracking, conn, subs>>

UnsubscribeRemoved(j) ==
    /\ api[j] = "unsubscribe"
    /\ subs' = Unsubscribed(held[j])
    /\ held' = [held EXCEPT ![j] = {}]
    /\ api' = [api EXCEPT ![j] = "archive"]
    /\ UNCHANGED <<height, head, reachable, tracking, conn, table>>

ArchiveJob(j) ==
    /\ api[j] = "archive"
    /\ api' = [api EXCEPT ![j] = "archived"]
    /\ UNCHANGED <<height, head, reachable, tracking, conn, table, held, subs>>

----------------------------------------------------------------------------
(* listenToLogs, the goroutine of a subscription.                           *)

Known(s) == {b \in Blocks : subs[s].from # 0 /\ subs[s].from <= b /\ b <= height}

\* Mutant: the set of the backfilled blocks is not kept.
Backfill_ForgetsSet(s) ==
    /\ subs[s].at = "backfill"
    /\ reachable \/ subs[s].from = 0
    /\ subs' = [subs EXCEPT ![s].at = "listen", ![s].todo = Known(s)]
    /\ UNCHANGED <<height, head, reachable, tracking, conn, table, api, held>>

\* GetLogs, unless there is no first block.
Backfill(s) ==
    /\ subs[s].at = "backfill"
    /\ reachable \/ subs[s].from = 0
    /\ subs' = [subs EXCEPT ![s].at = "listen", ![s].seen = Known(s), ![s].todo = Known(s)]
    /\ UNCHANGED <<height, head, reachable, tracking, conn, table, api, held>>

\* Mutant: the blocks count as backfilled before their logs have been fetched.
BackfillFails_MarksSeen(s) ==
    /\ subs[s].at = "backfill"
    /\ subs' = [subs EXCEPT ![s].at = "listen", ![s].seen = Known(s)]
    /\ UNCHANGED <<height, head, reachable, tracking, conn, table, api, held>>

\* GetLogs fails: only the new logs will be taken.
BackfillFails(s) ==
    /\ subs[s].at = "backfill"
    /\ subs' = [subs EXCEPT ![s].at = "listen"]
    /\ UNCHANGED <<height, head, reachable, tracking, conn, table, api, held>>

\* RunManager.Create is called for log b.  It reads the job; a job that is
\* archived makes no run.
ToRun(sub, b) ==
    IF InDb(JobOf[sub.initr])
    THEN [sub EXCEPT !.at = "create", !.log = b]
    ELSE sub

\* The next log of the backfill, which goes on though the subscription is closed.
TakeBackfilled(s) ==
    /\ subs[s].at = "listen"
    /\ subs[s].todo # {}
    /\ LET b == Min(subs[s].todo)
       IN  subs' = [subs EXCEPT ![s] = ToRun([subs[s] EXCEPT !.todo = @ \ {b}], b)]
    /\ UNCHANGED <<height, head, reachable, tracking, conn, table, api, held>>

\* The next log of the channel, unless its block has been backfilled.
TakeLog(s) ==
    /\ subs[s].at = "listen"
    /\ subs[s].todo = {}
    /\ subs[s].pending # {}
    /\ LET b == Min(subs[s].pending)
           taken == [subs[s] EXCEPT !.pending = @ \ {b}]
       IN  subs' = [subs EXCEPT ![s] = IF b \in taken.seen THEN taken ELSE ToRun(taken, b)]
    /\ UNCHANGED <<height, head, reachable, tracking, conn, table, api, held>>

\* RunManager.Create, once it has read the job: the run is saved.
CreateRun(s) ==
    /\ subs[s].at = "create"
    /\ subs' = [subs EXCEPT ![s].at = "listen", ![s].log = 0, ![s].runs[subs[s].log] = @ + 1]
    /\ UNCHANGED <<height, head, reachable, tracking, conn, table, api, held>>

\* The channel is closed, and the backfill done.
EndListening(s) ==
    /\ subs[s].at = "listen"
    /\ subs[s].todo = {}
    /\ subs[s].closed
    /\ subs' = [subs EXCEPT ![s].at = "done", ![s].seen = {}]
    /\ UNCHANGED <<height, head, reachable, tracking, conn, table, api, held>>

----------------------------------------------------------------------------
(* The Ethereum node, and the end of the process.                           *)

\* A block is mined, and its logs are sent to whoever is subscribed.
Mine ==
    /\ height < MaxBlock
    /\ height' = height + 1
    /\ subs' = [s \in DOMAIN subs |->
                   IF subs[s].live
                   THEN [subs[s] EXCEPT !.pending = @ \cup {height + 1}]
                   ELSE subs[s]]
    /\ UNCHANGED <<head, reachable, tracking, conn, table, api, held>>

\* The websocket breaks, and all subscriptions with it.  listenToLogs logs the
\* error of its own, and waits on.
LoseConnection ==
    /\ reachable
    /\ reachable' = FALSE
    /\ tracking' = FALSE
    /\ subs' = [s \in DOMAIN subs |-> [subs[s] EXCEPT !.live = FALSE]]
    /\ UNCHANGED <<height, head, conn, table, api, held>>

RegainConnection ==
    /\ ~reachable
    /\ reachable' = TRUE
    /\ UNCHANGED <<height, head, tracking, conn, table, api, held, subs>>

\* The process ends; the database keeps the head and the jobs.
Crash ==
    /\ conn.at # "off"
    /\ conn' = Off
    /\ tracking' = FALSE
    /\ table' = [j \in Jobs |-> {}]
    /\ held' = [j \in Jobs |-> {}]
    /\ api' = [j \in Jobs |-> IF InDb(j) THEN "ready" ELSE api[j]]
    /\ subs' = [s \in DOMAIN subs |->
                   [subs[s] EXCEPT !.live = FALSE, !.closed = TRUE, !.at = "done",
                                   !.log = 0, !.pending = {}, !.seen = {}, !.todo = {}]]
    /\ UNCHANGED <<height, head, reachable>>

----------------------------------------------------------------------------

Api(j) ==
    \/ CreateJob(j) \/ ApiSubscribes(j) \/ ApiInserts(j)
    \/ RemoveJob(j) \/ UnsubscribeRemoved(j) \/ ArchiveJob(j)

Listening(s) ==
    \/ Backfill(s) \/ BackfillFails(s)
    \/ TakeBackfilled(s) \/ TakeLog(s) \/ CreateRun(s) \/ EndListening(s)

Next ==
    \/ Connect
    \/ \E j \in Jobs : ConnectSubscribes(j) \/ ConnectInserts(j)
    \/ ConnectReturns
    \/ Disconnect
    \/ \E n \in Blocks : HeadArrives(n)
    \/ \E j \in Jobs : Api(j)
    \/ \E s \in DOMAIN subs : Listening(s)
    \/ Mine
    \/ LoseConnection
    \/ RegainConnection
    \/ Crash

Spec == Init /\ [][Next]_vars

\* The goroutines of the subscriptions run.
Fairness == \A s \in Ids : WF_vars(s \in DOMAIN subs /\ Listening(s))

FairSpec == Spec /\ Fairness

----------------------------------------------------------------------------
(* Properties.                                                              *)

\* A subscription runs the job at most once for a log, though the node may send
\* it live and in the backfill (subscription_test.go:77, PreventsDoubleDispatch).
NoDoubleDispatch == \A s \in DOMAIN subs : \A b \in Blocks : subs[s].runs[b] <= 1

\* A log whose block the tracker had seen when it connected is not run again
\* ("Exclude current block from subscription", subscription.go:41), unless the
\* operator asks for it with ReplayFromBlock.  A log that overtook its head is: it
\* is still ahead of the head of the next Connect.
RunAgainOnlyAhead ==
    \A s, r \in DOMAIN subs : \A b \in Blocks :
        (/\ s < r
         /\ subs[s].initr = subs[r].initr
         /\ subs[s].runs[b] > 0
         /\ subs[r].runs[b] > 0) => b > subs[r].bn \/ (Replay > 0 /\ Replay <= b)

\* Whatever the order of logs, backfills and heads, a log is run once as long as it may be.
LogsAreRunOnce == TypeOK /\ NoDoubleDispatch /\ RunAgainOnlyAhead

OneInitiatorEach == \A i, k \in Initiators : JobOf[i] = JobOf[k] => i = k

InHand(j) == table[j] \cup held[j]

\* A subscription that has not been closed is one the table holds, or one that
\* whoever has made it, or removed it, still has in hand; so that each of them
\* is unsubscribed some day.  The one exception is a job that has been subscribed
\* a second time, where one of the two was made with no head, as the AddJob of
\* the API does (DisconnectLeavesNone).  This takes OneInitiatorEach, since the
\* others of one that fails are dropped alive (Kept).
NoneIsLost ==
    \A s \in DOMAIN subs :
        \/ subs[s].closed
        \/ s \in conn.ids
        \/ s \in InHand(JobOf[subs[s].initr])
        \/ \E r \in DOMAIN subs \ {s} :
              /\ subs[r].initr = subs[s].initr
              /\ 0 \in {subs[r].bn, subs[s].bn}

\* A log that a subscription has been sent is run, unless the subscription is
\* closed or the job archived first; a failed backfill takes nothing from it.
LogsAreRun ==
    \A s \in Ids : \A b \in Blocks :
        (s \in DOMAIN subs /\ b \in subs[s].pending)
            ~> (s \in DOMAIN subs /\ (\/ subs[s].closed
                                     \/ ~InDb(JobOf[subs[s].initr])
                                     \/ subs[s].runs[b] > 0))

\* application.go:206: "ArchiveJob silences the job from the system, preventing
\* future job runs."
ArchivedIsSilent ==
    [][\A s \in DOMAIN subs :
          api[JobOf[subs[s].initr]] = "archived" => subs'[s].runs = subs[s].runs]_vars

\* job_subscriber.go:136: "Disconnect disconnects all subscriptions associated
\* with jobs belonging to this listener."  The API may have one in hand.
DisconnectLeavesNone ==
    [][Disconnect => \A s \in DOMAIN subs :
                        subs'[s].closed \/ s \in held[JobOf[subs[s].initr]]]_vars
=============================================================================
