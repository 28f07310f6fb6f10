----------------------------- MODULE StatsPusher -----------------------------
(****************************************************************************)
(* The stats pusher (core/services/synchronization): each save of a job run *)
(* leaves an event in the database, in the same transaction; an event loop  *)
(* sends the events to the explorer over a websocket, one at a time, and    *)
(* deletes each of them when the explorer has answered that it is created.  *)
(* The answers carry a status and nothing else.                             *)
(*                                                                          *)
(* Events are numbered in the order of their saving, which is the order in  *)
(* which AllSyncEvents reads them.                                          *)
(****************************************************************************)
EXTENDS Integers, Sequences, FiniteSets, FiniteSetsExt

CONSTANTS
    MaxEvents,  \* bound on the events saved
    Limit,      \* the size of a page of ORM.Batch (1000 in the code)
    Late,       \* may an answer come after Receive has timed out
    MaxOut,     \* bound on the messages under way
    MaxFailures \* bound on the failures: crashes, broken connections, refusals

ASSUME PusherAssumption ==
    /\ MaxEvents \in Nat
    /\ MaxFailures \in Nat
    /\ Limit \in Nat \ {0}
    /\ Late \in BOOLEAN

VARIABLES
    saved,      \* the events saved so far
    events,     \* those in the database
    waker,      \* is there a token in sp.waker
    loop,       \* the event loop
    due,        \* the events that were there when pushEvents began
    up,         \* is there a connection, with a write pump and a read pump
    holding,    \* does the connection's read pump hold an answer
    sent,       \* the messages on their way to the explorer
    answers,    \* the answers on their way back
    parked,     \* the answers that read pumps, old ones too, offer in w.receive
    stored,     \* the events the explorer has stored
    latest,     \* the event it has stored last
    pusherClosed, \* has Close been called
    failures,   \* the failures so far
    passedOver  \* history: the events that a later page has left out

pusherVars == <<saved, events, waker, loop, due, up, holding, sent, answers, parked,
                stored, latest, pusherClosed, failures, passedOver>>

wire == <<up, holding, sent, answers, parked>>
explorer == <<stored, latest>>
ending == <<pusherClosed, failures>>

Events == 1 .. MaxEvents

\* What the explorer answers: that the event has been created, or not.
Statuses == {"created", "refused"}

Loops == [at : {"idle", "query", "event", "send", "receive", "delete", "backoff", "ended"},
          page : SUBSET Events, offset : Nat, count : Nat]
IdleLoop == [at |-> "idle", page |-> {}, offset |-> 0, count |-> 0]

\* The values the variables take; while an event is sent its page is not empty.
PusherTypeOK ==
    /\ saved \in 0 .. MaxEvents
    /\ events \in SUBSET (1 .. saved)
    /\ waker \in BOOLEAN
    /\ loop \in Loops
    /\ loop.at \in {"send", "receive", "delete"} => loop.page # {}
    /\ due \in SUBSET Events
    /\ up \in BOOLEAN
    /\ holding \in BOOLEAN
    /\ sent \in Seq(Events)
    /\ answers \in Seq(Statuses)
    /\ parked \in Seq(Statuses)
    /\ holding => parked # <<>>
    /\ stored \in SUBSET (1 .. saved)
    /\ latest \in 0 .. saved
    /\ pusherClosed \in BOOLEAN
    /\ failures \in 0 .. MaxFailures
    /\ passedOver \in SUBSET (1 .. saved)

PusherInit ==
    /\ saved = 0
    /\ events = {}
    /\ waker = FALSE
    /\ loop = IdleLoop
    /\ due = {}
    /\ up = FALSE
    /\ holding = FALSE
    /\ sent = <<>>
    /\ answers = <<>>
    /\ parked = <<>>
    /\ stored = {}
    /\ latest = 0
    /\ pusherClosed = FALSE
    /\ failures = 0
    /\ passedOver = {}

\* Connections break, and explorers and processes fail, a number of times.
Failure ==
    /\ failures < MaxFailures
    /\ failures' = failures + 1

----------------------------------------------------------------------------
(* The savers of job runs.                                                  *)

\* A run is created or updated, and its event with it.
SaveRun ==
    /\ saved < MaxEvents
    /\ saved' = saved + 1
    /\ events' = events \cup {saved + 1}
    /\ UNCHANGED <<waker, loop, due, wire, explorer, ending, passedOver>>

\* A token goes into the channel unless there is one.
PushNow ==
    /\ ~waker
    /\ waker' = TRUE
    /\ UNCHANGED <<saved, events, loop, due, wire, explorer, ending, passedOver>>

----------------------------------------------------------------------------
(* The event loop.                                                          *)

\* pusherLoop is woken, or its period is over; pushEvents begins.
BeginPush ==
    /\ loop.at = "idle"
    /\ waker' \in {FALSE, waker}
    /\ loop' = [IdleLoop EXCEPT !.at = "query"]
    /\ due' = events
    /\ UNCHANGED <<saved, events, wire, explorer, ending, passedOver>>

\* The number of events that are read before e.
Rank(e) == Cardinality({f \in events : f < e})

\* The events of a page, which begins after offset of them.
Page(offset) == {e \in events : Rank(e) \in offset .. offset + Limit - 1}

\* Mutant: the page begins one event too late.
Query_OffByOne ==
    /\ loop.at = "query"
    /\ LET page == Page(loop.offset + 1)
       IN  loop' = [loop EXCEPT !.at = "event", !.page = page, !.count = Cardinality(page)]
    /\ passedOver' = passedOver \cup {e \in events : Rank(e) < loop.offset}
    /\ UNCHANGED <<saved, events, waker, due, wire, explorer, ending>>

\* AllSyncEvents reads a page.  Its offset counts the rows that are there now, and
\* those of the pages before have been deleted: as many others are left out.
Query ==
    /\ loop.at = "query"
    /\ LET page == Page(loop.offset)
       IN  loop' = [loop EXCEPT !.at = "event", !.page = page, !.count = Cardinality(page)]
    /\ passedOver' = passedOver \cup {e \in events : Rank(e) < loop.offset}
    /\ UNCHANGED <<saved, events, waker, due, wire, explorer, ending>>

\* syncEvent is called for the next event of the page.
NextEvent ==
    /\ loop.at = "event"
    /\ loop.page # {}
    /\ loop' = [loop EXCEPT !.at = "send"]
    /\ UNCHANGED <<saved, events, waker, due, wire, explorer, ending, passedOver>>

\* Batch goes on to the next page after a full one.
NextPage ==
    /\ loop.at = "event"
    /\ loop.page = {}
    /\ loop.count >= Limit
    /\ loop' = [loop EXCEPT !.at = "query", !.offset = @ + Limit]
    /\ UNCHANGED <<saved, events, waker, due, wire, explorer, ending, passedOver>>

EndPush ==
    /\ loop.at = "event"
    /\ loop.page = {}
    /\ loop.count < Limit
    /\ loop' = IdleLoop
    /\ due' = {}
    /\ UNCHANGED <<saved, events, waker, wire, explorer, ending, passedOver>>

\* Send hands the message to the write pump, which there is while the connection
\* is up.
Send ==
    /\ loop.at = "send"
    /\ up
    /\ Len(sent) + Len(answers) + Len(parked) < MaxOut
    /\ loop' = [loop EXCEPT !.at = "receive"]
    /\ sent' = Append(sent, Min(loop.page))
    /\ UNCHANGED <<saved, events, waker, due, up, holding, answers, parked, explorer, ending,
                   passedOver>>

\* The connection breaks, with what is under way on it.  A read pump that offers
\* an answer goes on offering it.
Disconnected ==
    /\ up' = FALSE
    /\ holding' = FALSE
    /\ sent' = <<>>
    /\ answers' = <<>>
    /\ UNCHANGED parked

\* The write pump takes the message, fails to write it, and ends.
SendFails ==
    /\ Failure
    /\ loop.at = "send"
    /\ up
    /\ loop' = [loop EXCEPT !.at = "receive"]
    /\ Disconnected
    /\ UNCHANGED <<saved, events, waker, due, explorer, pusherClosed, passedOver>>

\* syncEvent returns an error, and so do AllSyncEvents and pushEvents.
Fail ==
    /\ loop' = [IdleLoop EXCEPT !.at = "backoff"]
    /\ due' = {}

\* Mutant: the status of the answer is not looked at.
ReceiveAnswer_AnyStatus ==
    /\ loop.at = "receive"
    /\ parked # <<>>
    /\ parked' = Tail(parked)
    /\ holding' = (holding /\ Len(parked) > 1)
    /\ loop' = [loop EXCEPT !.at = "delete"]
    /\ UNCHANGED <<saved, events, waker, due, up, sent, answers, explorer, ending,
                   passedOver>>

\* Mutant: an event that is refused is passed over.
ReceiveAnswer_PassesOver ==
    /\ loop.at = "receive"
    /\ parked # <<>>
    /\ parked' = Tail(parked)
    /\ holding' = (holding /\ Len(parked) > 1)
    /\ loop' = IF Head(parked) = "created"
               THEN [loop EXCEPT !.at = "delete"]
               ELSE [loop EXCEPT !.at = "event", !.page = @ \ {Min(loop.page)}]
    /\ UNCHANGED <<saved, events, waker, due, up, sent, answers, explorer, ending,
                   passedOver>>

\* Receive takes the answer that has been offered first, whichever message it
\* answers.
ReceiveAnswer ==
    /\ loop.at = "receive"
    /\ parked # <<>>
    /\ parked' = Tail(parked)
    /\ holding' = (holding /\ Len(parked) > 1)
    /\ IF Head(parked) = "created"
       THEN loop' = [loop EXCEPT !.at = "delete"] /\ UNCHANGED due
       ELSE Fail
    /\ UNCHANGED <<saved, events, waker, up, sent, answers, explorer, ending, passedOver>>

\* Receive times out.  Unless answers may come late there is none to come.
ReceiveTimesOut ==
    /\ loop.at = "receive"
    /\ parked = <<>>
    /\ Late \/ (sent = <<>> /\ answers = <<>>)
    /\ Fail
    /\ UNCHANGED <<saved, events, waker, wire, explorer, ending, passedOver>>

DeleteEvent ==
    /\ loop.at = "delete"
    /\ events' = events \ {Min(loop.page)}
    /\ loop' = [loop EXCEPT !.at = "event", !.page = @ \ {Min(loop.page)}]
    /\ UNCHANGED <<saved, waker, due, wire, explorer, ending, passedOver>>

\* eventLoop sleeps, and goes back to wait for a token or for the period.
EndBackoff ==
    /\ loop.at = "backoff"
    /\ loop' = IdleLoop
    /\ UNCHANGED <<saved, events, waker, due, wire, explorer, ending, passedOver>>

\* The loop finds its context done where it waits.
EndEventLoop ==
    /\ loop.at \in {"idle", "backoff"}
    /\ pusherClosed
    /\ loop' = [IdleLoop EXCEPT !.at = "ended"]
    /\ UNCHANGED <<saved, events, waker, due, wire, explorer, ending, passedOver>>

----------------------------------------------------------------------------
(* The websocket and the explorer.                                          *)

\* connectAndWritePump dials until Close.
DialExplorer ==
    /\ ~up
    /\ ~pusherClosed
    /\ up' = TRUE
    /\ UNCHANGED <<saved, events, waker, loop, due, holding, sent, answers, parked,
                   explorer, ending, passedOver>>

\* The connection ends, as the read pump or a ping finds out.
BreakConnection ==
    /\ Failure
    /\ up
    /\ Disconnected
    /\ UNCHANGED <<saved, events, waker, loop, due, explorer, pusherClosed, passedOver>>

\* The explorer stores the event, for the first time or again.
ExplorerStores ==
    /\ sent # <<>>
    /\ stored' = stored \cup {Head(sent)}
    /\ latest' = Head(sent)
    /\ sent' = Tail(sent)
    /\ answers' = Append(answers, "created")
    /\ UNCHANGED <<saved, events, waker, loop, due, up, holding, parked, ending,
                   passedOver>>

ExplorerRefuses ==
    /\ Failure
    /\ sent # <<>>
    /\ sent' = Tail(sent)
    /\ answers' = Append(answers, "refused")
    /\ UNCHANGED <<saved, events, waker, loop, due, up, holding, parked, explorer, pusherClosed,
                   passedOver>>

\* readPump reads an answer and offers it in w.receive, which has no buffer.
OfferAnswer ==
    /\ answers # <<>>
    /\ ~holding
    /\ holding' = TRUE
    /\ parked' = Append(parked, Head(answers))
    /\ answers' = Tail(answers)
    /\ UNCHANGED <<saved, events, waker, loop, due, up, sent, explorer, ending,
                   passedOver>>

\* Close ends the event loop where it waits, and the connection for good.
Close ==
    /\ ~pusherClosed
    /\ pusherClosed' = TRUE
    /\ Disconnected
    /\ UNCHANGED <<saved, events, waker, loop, due, explorer, failures, passedOver>>

\* The process ends and starts again.
ProcessCrashes ==
    /\ Failure
    /\ loop # IdleLoop
    /\ ~pusherClosed
    /\ loop' = IdleLoop
    /\ due' = {}
    /\ waker' = FALSE
    /\ up' = FALSE
    /\ holding' = FALSE
    /\ sent' = <<>>
    /\ answers' = <<>>
    /\ parked' = <<>>
    /\ UNCHANGED <<saved, events, explorer, pusherClosed, passedOver>>

----------------------------------------------------------------------------

LoopStep ==
    \/ BeginPush \/ Query \/ NextEvent \/ NextPage \/ EndPush
    \/ ReceiveAnswer \/ ReceiveTimesOut \/ DeleteEvent \/ EndBackoff

PusherNext ==
    \/ SaveRun
    \/ PushNow
    \/ LoopStep
    \/ Send
    \/ SendFails
    \/ EndEventLoop
    \/ DialExplorer
    \/ BreakConnection
    \/ ExplorerStores
    \/ ExplorerRefuses
    \/ OfferAnswer
    \/ Close
    \/ ProcessCrashes

PusherSpec == PusherInit /\ [][PusherNext]_pusherVars

\* The goroutines run, the loop's period comes to an end, and the explorer can
\* be reached and stores what it is sent once nothing fails any more.  Select
\* takes the branch of Close some time, though the period is over each time.
PusherFairness ==
    /\ WF_pusherVars(LoopStep)
    /\ WF_pusherVars(Send)
    /\ SF_pusherVars(EndEventLoop)
    /\ WF_pusherVars(DialExplorer)
    /\ WF_pusherVars(ExplorerStores)
    /\ WF_pusherVars(OfferAnswer)

PusherFairSpec == PusherSpec /\ PusherFairness

----------------------------------------------------------------------------
(* Properties.                                                              *)

\* An event leaves the database only when the explorer has stored it
\* (stats_pusher_test.go:65, NoAckLeavesEvent), whatever connection, explorer
\* or process fails.  It needs that no answer comes after Receive has given it
\* up: a late one is taken for the answer to the next event.
EventLeftUntilStored == \A e \in 1 .. saved : e \in events \/ e \in stored

\* The explorer gets the states of the runs in the order of their saving, whatever is
\* sent again: only an event that a page has left out comes after later ones.
StoredInOrder ==
    [][latest' # latest => latest' > latest \/ latest' \in passedOver]_pusherVars

\* What the explorer has of the events: all that have left the database, in order.
ExplorerHasThem == []EventLeftUntilStored /\ StoredInOrder

\* An event that is saved is stored by the explorer, unless the pusher is closed.
EventIsStored == \A e \in Events : e \in events ~> (e \in stored \/ pusherClosed)

\* orm.go:278: "AllSyncEvents returns all sync events".
AllEventsPushed == [][EndPush => due \cap events = {}]_pusherVars

\* web_socket_client.go:113: "Send sends data asynchronously across the
\* websocket if it's open, or holds it in a small buffer until connection".
SendReturns == loop.at = "send" ~> loop.at # "send"
=============================================================================
