---------------------------- MODULE ComponentsProofs ----------------------------
(****************************************************************************)
(* Proofs about the components that MCComponents checks, for any values of  *)
(* their constants: the sleeper task (whose specification is Spec), the     *)
(* statistics pusher, the database lock, the scheduler, the user's          *)
(* sessions, the key stores, the logs of requests, the HTTP tasks, the      *)
(* registry of jobs and bridges with the queries that page through it, the  *)
(* price feeds, the tasks on data, and the verifiable random function.      *)
(* They have no variable in common: each theorem is of one specification,   *)
(* or of two side by side.                                                  *)
(****************************************************************************)
EXTENDS SleeperTask, StatsPusher, DatabaseLock, Scheduler, Sessions, NodeKeys, LogEvents,
        HttpTasks, StoredRecords, PriceFeeds, DataTasks, Vrf,
        FiniteSetTheorems, SequenceTheorems, WellFoundedInduction, TLAPS

----------------------------------------------------------------------------
(* SleeperTask.                                                             *)

\* Once Stop has been called nobody wakes the task any more, and the loop ends
\* on a drained channel only.
Shutdown ==
    /\ closed <=> stop # "ready"
    /\ closed => waking = {}
    /\ worker \in {"leaving", "done"} => closed /\ queue = 0
    /\ stop = "returned" => worker = "done"

SleeperInv == TypeOK /\ NothingOverlooked /\ Shutdown

LEMMA SleeperInvInit == Init => SleeperInv
<1> SUFFICES ASSUME Init
             PROVE  SleeperInv
  OBVIOUS
<1>1. TypeOK
  <2>1. 0 \in 0 .. MaxLeft
    BY MaxLeftAssumption
  <2>2. waking \in SUBSET Callers
    BY DEF Init
  <2>3. left \in 0 .. MaxLeft /\ queue \in 0 .. 1 /\ seen \in 0 .. MaxLeft
    BY <2>1 DEF Init
  <2>4. closed \in BOOLEAN
    BY DEF Init
  <2>5. worker \in {"waiting", "woken", "working", "leaving", "done"}
    BY DEF Init
  <2>6. stop \in {"ready", "waiting", "returned"}
    BY DEF Init
  <2> QED
    BY <2>2, <2>3, <2>4, <2>5, <2>6 DEF TypeOK
<1>2. NothingOverlooked
  BY DEF Init, NothingOverlooked
<1>3. Shutdown
  BY DEF Init, Shutdown
<1> QED
  BY <1>1, <1>2, <1>3 DEF SleeperInv

LEMMA SleeperInvNext == SleeperInv /\ [Next]_vars => SleeperInv'
<1> SUFFICES ASSUME SleeperInv, [Next]_vars
             PROVE  SleeperInv'
  OBVIOUS
<1> USE MaxLeftAssumption DEF SleeperInv, TypeOK, NothingOverlooked, Shutdown
<1>1. ASSUME NEW c \in Callers, Leave(c)
      PROVE  SleeperInv'
  BY <1>1 DEF Leave
<1>2. ASSUME NEW c \in Callers, WakeUp(c)
      PROVE  SleeperInv'
  BY <1>2 DEF WakeUp
<1>3. CASE Receive
  BY <1>3 DEF Receive
<1>4. CASE BeginWork
  BY <1>4 DEF BeginWork
<1>5. CASE EndWork
  BY <1>5 DEF EndWork
<1>6. CASE EndLoop
  BY <1>6 DEF EndLoop
<1>7. CASE LeaveLoop
  BY <1>7 DEF LeaveLoop
<1>8. CASE Stop
  BY <1>8 DEF Stop
<1>9. CASE StopReturns
  BY <1>9 DEF StopReturns
<1>10. CASE UNCHANGED vars
  BY <1>10 DEF vars
<1> QED
  BY <1>1, <1>2, <1>3, <1>4, <1>5, <1>6, <1>7, <1>8, <1>9, <1>10
     DEF Next, WorkerStep

LEMMA SleeperInvariant == Spec => []SleeperInv
BY SleeperInvInit, SleeperInvNext, PTL DEF Spec

\* The channel of the sleeper task never holds more than its one token.
THEOREM OneTokenAtMost == Spec => []TypeOK
BY SleeperInvariant, PTL DEF SleeperInv

\* What has been left before a WakeUp is seen by the Work begun last, or another
\* Work is still to begin: no head that the job subscriber stores is overlooked,
\* however its goroutine and the worker's are interleaved.
THEOREM NothingIsOverlooked == Spec => []NothingOverlooked
BY SleeperInvariant, PTL DEF SleeperInv

\* When Stop returns, all that has been left has been worked on.
THEOREM StopLeavesNothing == Spec => []StopWorksOff
<1>1. SleeperInv => StopWorksOff
  BY DEF SleeperInv, TypeOK, NothingOverlooked, Shutdown, StopWorksOff
<1> QED
  BY <1>1, SleeperInvariant, PTL

----------------------------------------------------------------------------
(* StatsPusher.                                                             *)

NumbersOK ==
    /\ saved \in 0 .. MaxEvents /\ latest \in 0 .. saved /\ failures \in 0 .. MaxFailures
    /\ events \subseteq 1 .. saved /\ stored \subseteq 1 .. saved
    /\ due \subseteq 1 .. saved /\ passedOver \subseteq 1 .. saved

FlagsOK == waker \in BOOLEAN /\ up \in BOOLEAN /\ holding \in BOOLEAN /\ pusherClosed \in BOOLEAN

\* No message is under way, in either direction.
NothingIsOut == sent = <<>> /\ answers = <<>> /\ parked = <<>> /\ ~holding

\* The loop's message is under way, or its answer, which says that the event is stored
\* only if it is.  So each answer is one to the event that the loop is at.
OneIsOut ==
    \/ sent = <<Min(loop.page)>> /\ answers = <<>> /\ parked = <<>> /\ ~holding
    \/ \E status \in Statuses :
          /\ status = "created" => Min(loop.page) \in stored
          /\ sent = <<>>
          /\ \/ answers = <<status>> /\ parked = <<>> /\ ~holding
             \/ answers = <<>> /\ parked = <<status>>

AnswersFit == NothingIsOut \/ (loop.at = "receive" /\ OneIsOut)

\* The page has what is left of the events read, of which none is skipped: those before
\* are in it, or have been left out by an earlier page.
PageIsNext ==
    /\ loop.page \subseteq events
    /\ loop.at \in {"idle", "query", "backoff", "ended"} => loop.page = {}
    /\ loop.at \in {"send", "receive", "delete"} => loop.page # {}
    /\ \A p \in loop.page : \A e \in events : e < p => e \in loop.page \/ e \in passedOver

\* What has been overtaken is in the database because a page left it out.
OvertakenIsPassedOver == \A e \in events : e < latest => e \in passedOver

DeletedIsStored == loop.at = "delete" => Min(loop.page) \in stored

\* The explorer has what the database no longer has, and nothing out of order.
ExplorerKnows == OvertakenIsPassedOver /\ DeletedIsStored /\ EventLeftUntilStored

PusherInv ==
    NumbersOK /\ FlagsOK /\ loop \in Loops /\ AnswersFit /\ PageIsNext /\ ExplorerKnows

LEMMA LeastIsFirst ==
    ASSUME NEW S, S \subseteq Nat, S # {}
    PROVE  Min(S) \in S /\ \A x \in S : Min(S) <= x
<1>1. PICK m \in S : \A x \in S : <<x, m>> \notin OpToRel(<, Nat)
  BY WFMin, NatLessThanWellFounded, Zenon
<1>2. \A x \in S : ~(x < m)
  BY <1>1, Zenon DEF OpToRel
<1>3. m \in S /\ \A x \in S : m <= x
  BY <1>2
<1> QED
  BY <1>3 DEF Min

LEMMA PusherInvInit == PusherInit => PusherInv
<1> SUFFICES ASSUME PusherInit
             PROVE  PusherInv
  OBVIOUS
<1>1. NumbersOK
  BY PusherAssumption DEF PusherInit, NumbersOK
<1>2. loop \in Loops /\ loop.at = "idle" /\ loop.page = {}
  BY DEF PusherInit, Loops, IdleLoop
<1>3. FlagsOK /\ AnswersFit
  BY DEF PusherInit, FlagsOK, AnswersFit, NothingIsOut
<1>4. PageIsNext /\ OvertakenIsPassedOver /\ DeletedIsStored
  BY <1>2 DEF PusherInit, PageIsNext, OvertakenIsPassedOver, DeletedIsStored
<1>5. EventLeftUntilStored
  BY DEF PusherInit, EventLeftUntilStored
<1> QED
  BY <1>1, <1>2, <1>3, <1>4, <1>5 DEF PusherInv, ExplorerKnows

LEMMA NumbersAre ==
    ASSUME PusherInv
    PROVE  /\ saved \in Nat /\ latest \in Nat /\ MaxEvents \in Nat /\ saved <= MaxEvents
           /\ latest <= saved
           /\ \A e \in events : e \in Nat /\ 1 <= e /\ e <= saved
           /\ \A e \in loop.page : e \in Nat /\ e \in events
           /\ events \subseteq Nat /\ loop.page \subseteq Nat /\ loop.page \subseteq events
<1>1. saved \in Nat /\ latest \in Nat /\ MaxEvents \in Nat /\ saved <= MaxEvents /\ latest <= saved
  BY PusherAssumption DEF PusherInv, NumbersOK
<1>2. \A e \in events : e \in Nat /\ 1 <= e /\ e <= saved
  BY <1>1 DEF PusherInv, NumbersOK
<1>3. loop.page \subseteq events
  BY DEF PusherInv, PageIsNext
<1>4. \A e \in loop.page : e \in Nat /\ e \in events
  BY <1>2, <1>3, Zenon
<1>5. events \subseteq Nat /\ loop.page \subseteq Nat
  BY <1>2, <1>4, Zenon
<1> QED
  BY <1>1, <1>2, <1>3, <1>4, <1>5, Zenon

\* While the loop is at an event, that is one of the database.
LEMMA FirstOfPage ==
    ASSUME PusherInv, loop.page # {}
    PROVE  /\ Min(loop.page) \in loop.page /\ Min(loop.page) \in events
           /\ Min(loop.page) \in Nat /\ 1 <= Min(loop.page) /\ Min(loop.page) <= saved
           /\ \A x \in loop.page : Min(loop.page) <= x
<1>1. Min(loop.page) \in loop.page /\ \A x \in loop.page : Min(loop.page) <= x
  BY NumbersAre, LeastIsFirst
<1> QED
  BY <1>1, NumbersAre

\* What comes before an event of a page is in it too, or passed over by its offset.
LEMMA PageIsConvex ==
    ASSUME PusherInv, NEW offset \in Nat, NEW p \in Page(offset), NEW e \in events, e < p
    PROVE  e \in Page(offset) \/ Rank(e) < offset
<1> DEFINE Before(x) == {f \in events : f < x}
<1>1. saved \in Nat /\ events \subseteq 1 .. saved
  BY NumbersAre
<1>2. IsFiniteSet(1 .. saved)
  BY <1>1, FS_Interval
<1>3. IsFiniteSet(events)
  BY <1>1, <1>2, FS_Subset
<1>4. p \in events
  BY DEF Page
<1>5. p \in Nat /\ e \in Nat
  BY <1>4, NumbersAre
<1>6. \A f \in events : f < e => f < p
  BY <1>5, NumbersAre
<1>7. Before(e) \subseteq Before(p) /\ Before(p) \subseteq events
  BY <1>6, Zenon
<1> HIDE DEF Before
<1>8. IsFiniteSet(Before(p)) /\ IsFiniteSet(Before(e))
  BY <1>3, <1>7, FS_Subset, Zenon
<1>9. Cardinality(Before(e)) <= Cardinality(Before(p))
  BY <1>7, <1>8, FS_Subset
<1>10. Cardinality(Before(e)) \in Nat /\ Cardinality(Before(p)) \in Nat
  BY <1>8, FS_CardinalityType
<1>11. Rank(e) = Cardinality(Before(e)) /\ Rank(p) = Cardinality(Before(p))
  BY DEF Rank, Before
<1>12. Rank(p) \in offset .. offset + Limit - 1
  BY DEF Page
<1>13. Rank(e) \in offset .. offset + Limit - 1 \/ Rank(e) < offset
  BY <1>9, <1>10, <1>11, <1>12, PusherAssumption
<1> QED
  BY <1>13, Zenon DEF Page

\* What is under way is the message of the loop's event.
LEMMA SentIsFirst ==
    ASSUME PusherInv, sent # <<>>
    PROVE  /\ loop.at = "receive" /\ sent = <<Min(loop.page)>> /\ Head(sent) = Min(loop.page)
           /\ Tail(sent) = <<>> /\ answers = <<>> /\ parked = <<>> /\ ~holding
           /\ loop.page # {}
<1>1. loop.at = "receive" /\ sent = <<Min(loop.page)>> /\ answers = <<>> /\ parked = <<>> /\ ~holding
  BY DEF PusherInv, AnswersFit, NothingIsOut, OneIsOut
<1>2. loop.page # {}
  BY <1>1 DEF PusherInv, PageIsNext
<1>3. \A x : Head(<<x>>) = x /\ Tail(<<x>>) = <<>>
  OBVIOUS
<1> QED
  BY <1>1, <1>2, <1>3

LEMMA NumbersNext ==
    ASSUME PusherInv, PusherNext
    PROVE  NumbersOK'
<1>0. NumbersOK
  BY DEF PusherInv
<1> USE PusherAssumption DEF ending, explorer, wire
<1>1. CASE SaveRun
  BY <1>0, <1>1 DEF SaveRun, NumbersOK
<1>2. CASE PushNow
  BY <1>0, <1>2 DEF PushNow, NumbersOK
<1>3. CASE BeginPush
  BY <1>0, <1>3 DEF BeginPush, NumbersOK
<1>4. CASE Query
  BY <1>0, <1>4 DEF Query, NumbersOK
<1>5. CASE NextEvent \/ NextPage \/ EndPush \/ EndBackoff \/ EndEventLoop
  BY <1>0, <1>5 DEF NextEvent, NextPage, EndPush, EndBackoff, EndEventLoop, NumbersOK
<1>6. CASE ReceiveAnswer \/ ReceiveTimesOut
  <2>1. due' \in {due, {}}
    BY <1>6 DEF ReceiveAnswer, ReceiveTimesOut, Fail
  <2>2. UNCHANGED <<saved, latest, failures, events, stored, passedOver>>
    BY <1>6 DEF ReceiveAnswer, ReceiveTimesOut
  <2> QED
    BY <1>0, <2>1, <2>2 DEF NumbersOK
<1>7. CASE DeleteEvent
  BY <1>0, <1>7 DEF DeleteEvent, NumbersOK
<1>8. CASE Send \/ DialExplorer \/ OfferAnswer \/ Close
  BY <1>0, <1>8 DEF Send, DialExplorer, OfferAnswer, Close, NumbersOK
<1>9. CASE SendFails \/ BreakConnection \/ ExplorerRefuses
  BY <1>0, <1>9 DEF SendFails, BreakConnection, ExplorerRefuses, Failure, NumbersOK
<1>10. CASE ExplorerStores
  <2>1. sent # <<>>
    BY <1>10 DEF ExplorerStores
  <2>2. Head(sent) \in Nat /\ 1 <= Head(sent) /\ Head(sent) <= saved
    BY <2>1, SentIsFirst, FirstOfPage
  <2>3. stored' = stored \cup {Head(sent)} /\ latest' = Head(sent)
    BY <1>10 DEF ExplorerStores
  <2>4. UNCHANGED <<saved, failures, events, due, passedOver>>
    BY <1>10 DEF ExplorerStores
  <2>5. stored' \subseteq 1 .. saved /\ latest' \in 0 .. saved
    <3>1. saved \in Nat /\ Head(sent) \in 1 .. saved /\ Head(sent) \in 0 .. saved
      BY <2>2, NumbersAre
    <3>2. stored \subseteq 1 .. saved
      BY <1>0 DEF NumbersOK
    <3> QED
      BY <2>3, <3>1, <3>2
  <2> QED
    BY <1>0, <2>4, <2>5 DEF NumbersOK
<1>11. CASE ProcessCrashes
  BY <1>0, <1>11 DEF ProcessCrashes, Failure, NumbersOK
<1> QED
  BY <1>1, <1>2, <1>3, <1>4, <1>5, <1>6, <1>7, <1>8, <1>9, <1>10, <1>11 DEF PusherNext, LoopStep

LEMMA FlagsNext ==
    ASSUME PusherInv, PusherNext
    PROVE  FlagsOK'
<1>0. FlagsOK
  BY DEF PusherInv
<1>1. waker' \in BOOLEAN
  <2>1. waker' \in {waker, FALSE, TRUE}
    BY DEF PusherNext, LoopStep, SaveRun, PushNow, BeginPush, Query, NextEvent, NextPage, EndPush,
           ReceiveAnswer, ReceiveTimesOut, DeleteEvent, EndBackoff, EndEventLoop, Send, SendFails,
           DialExplorer, BreakConnection, ExplorerStores, ExplorerRefuses, OfferAnswer, Close,
           ProcessCrashes
  <2> QED
    BY <1>0, <2>1, Zenon DEF FlagsOK
<1>2. up' \in BOOLEAN
  <2>1. up' \in {up, FALSE, TRUE}
    BY DEF PusherNext, LoopStep, SaveRun, PushNow, BeginPush, Query, NextEvent, NextPage, EndPush,
           ReceiveAnswer, ReceiveTimesOut, DeleteEvent, EndBackoff, EndEventLoop, Send, SendFails,
           DialExplorer, BreakConnection, ExplorerStores, ExplorerRefuses, OfferAnswer, Close,
           ProcessCrashes, Disconnected, wire
  <2> QED
    BY <1>0, <2>1, Zenon DEF FlagsOK
<1>3. pusherClosed' \in BOOLEAN
  <2>1. pusherClosed' \in {pusherClosed, TRUE}
    BY DEF PusherNext, LoopStep, SaveRun, PushNow, BeginPush, Query, NextEvent, NextPage, EndPush,
           ReceiveAnswer, ReceiveTimesOut, DeleteEvent, EndBackoff, EndEventLoop, Send, SendFails,
           DialExplorer, BreakConnection, ExplorerStores, ExplorerRefuses, OfferAnswer, Close,
           ProcessCrashes, ending
  <2> QED
    BY <1>0, <2>1, Zenon DEF FlagsOK
<1>4. holding' \in BOOLEAN
  <2>1. CASE ReceiveAnswer
    BY <2>1, Zenon DEF ReceiveAnswer
  <2>2. CASE ~ReceiveAnswer
    <3>1. holding' \in {holding, FALSE, TRUE}
      BY <2>2
         DEF PusherNext, LoopStep, SaveRun, PushNow, BeginPush, Query, NextEvent, NextPage, EndPush,
             ReceiveTimesOut, DeleteEvent, EndBackoff, EndEventLoop, Send, SendFails,
             DialExplorer, BreakConnection, ExplorerStores, ExplorerRefuses, OfferAnswer, Close,
             ProcessCrashes, Disconnected, wire
    <3> QED
      BY <1>0, <3>1, Zenon DEF FlagsOK
  <2> QED
    BY <2>1, <2>2
<1> QED
  BY <1>1, <1>2, <1>3, <1>4 DEF FlagsOK

LEMMA LoopNext ==
    ASSUME PusherInv, PusherNext
    PROVE  loop' \in Loops
<1>0. loop \in Loops /\ IdleLoop \in Loops
  BY DEF PusherInv, Loops, IdleLoop
<1>1. \A at \in {"query", "event", "send", "receive", "delete", "backoff", "ended"} :
        [loop EXCEPT !.at = at] \in Loops /\ [IdleLoop EXCEPT !.at = at] \in Loops
  BY <1>0 DEF Loops
<1>2. CASE Query
  <2>1. Page(loop.offset) \subseteq events
    BY DEF Page
  <2>2. saved \in Nat /\ events \subseteq 1 .. saved /\ events \subseteq Events
    BY NumbersAre DEF Events
  <2>3. IsFiniteSet(1 .. saved)
    BY <2>2, FS_Interval
  <2>4. IsFiniteSet(Page(loop.offset))
    BY <2>1, <2>2, <2>3, FS_Subset, Zenon
  <2>5. Cardinality(Page(loop.offset)) \in Nat
    BY <2>4, FS_CardinalityType
  <2>6. loop' = [loop EXCEPT !.at = "event", !.page = Page(loop.offset),
                             !.count = Cardinality(Page(loop.offset))]
    BY <1>2 DEF Query
  <2>7. Page(loop.offset) \in SUBSET Events
    BY <2>1, <2>2, Zenon
  <2> HIDE DEF Page
  <2> QED
    BY <1>0, <2>5, <2>6, <2>7 DEF Loops
<1>3. CASE NextPage
  <2>1. loop' = [loop EXCEPT !.at = "query", !.offset = loop.offset + Limit]
    BY <1>3 DEF NextPage
  <2>2. loop.offset + Limit \in Nat
    BY <1>0, PusherAssumption DEF Loops
  <2> QED
    BY <1>0, <2>1, <2>2 DEF Loops
<1>4. CASE DeleteEvent
  <2>1. loop' = [loop EXCEPT !.at = "event", !.page = loop.page \ {Min(loop.page)}]
    BY <1>4 DEF DeleteEvent
  <2>2. loop.page \ {Min(loop.page)} \in SUBSET Events
    <3>1. loop.page \in SUBSET Events
      BY <1>0 DEF Loops
    <3> QED
      BY <3>1, Zenon
  <2> QED
    BY <1>0, <2>1, <2>2 DEF Loops
<1>5. CASE \/ BeginPush \/ NextEvent \/ EndPush \/ ReceiveAnswer \/ ReceiveTimesOut \/ EndBackoff
           \/ EndEventLoop \/ Send \/ SendFails \/ ProcessCrashes
  BY <1>0, <1>1, <1>5
     DEF BeginPush, NextEvent, EndPush, ReceiveAnswer, ReceiveTimesOut, EndBackoff, EndEventLoop,
         Send, SendFails, ProcessCrashes, Fail
<1>6. CASE \/ SaveRun \/ PushNow \/ DialExplorer \/ BreakConnection \/ ExplorerStores
           \/ ExplorerRefuses \/ OfferAnswer \/ Close
  BY <1>0, <1>6
     DEF SaveRun, PushNow, DialExplorer, BreakConnection, ExplorerStores, ExplorerRefuses,
         OfferAnswer, Close
<1> QED
  BY <1>2, <1>3, <1>4, <1>5, <1>6 DEF PusherNext, LoopStep

\* The queues under way hold one message or answer, that of the event in turn.  Answers
\* that come late would break it: Receive must not give up while one may come.
LEMMA AnswersFitNext ==
    ASSUME PusherInv, ~Late, PusherNext
    PROVE  AnswersFit'
<1>0. AnswersFit /\ loop \in Loops
  BY DEF PusherInv
<1>1. CASE UNCHANGED <<wire, loop>> /\ stored \subseteq stored'
  BY <1>0, <1>1 DEF AnswersFit, NothingIsOut, OneIsOut, wire
<1>2. CASE loop.at # "receive" /\ UNCHANGED wire
  BY <1>0, <1>2 DEF AnswersFit, NothingIsOut, wire
<1>3. CASE Send
  <2>1. NothingIsOut
    BY <1>0, <1>3 DEF Send, AnswersFit
  <2>2. loop'.at = "receive" /\ loop'.page = loop.page
    BY <1>0, <1>3 DEF Send, Loops
  <2>3. sent' = Append(sent, Min(loop.page)) /\ UNCHANGED <<answers, parked, holding>>
    BY <1>3 DEF Send
  <2>4. sent' = <<Min(loop'.page)>>
    BY <2>1, <2>2, <2>3 DEF NothingIsOut
  <2> QED
    BY <2>1, <2>2, <2>3, <2>4 DEF AnswersFit, OneIsOut, NothingIsOut
<1>4. CASE Disconnected /\ UNCHANGED <<loop, stored>>
  BY <1>0, <1>4 DEF AnswersFit, NothingIsOut, OneIsOut, Disconnected
<1>5. CASE SendFails
  BY <1>0, <1>5 DEF SendFails, AnswersFit, NothingIsOut, Disconnected
<1>6. CASE ReceiveAnswer
  <2>1. PICK status : parked = <<status>> /\ sent = <<>> /\ answers = <<>>
    BY <1>0, <1>6 DEF ReceiveAnswer, AnswersFit, NothingIsOut, OneIsOut
  <2>2. parked' = Tail(parked) /\ UNCHANGED <<sent, answers>>
    BY <1>6 DEF ReceiveAnswer
  <2>3. Tail(<<status>>) = <<>> /\ Len(<<status>>) = 1
    OBVIOUS
  <2>4. ~(Len(parked) > 1) /\ parked' = <<>>
    BY <2>1, <2>2, <2>3
  <2>5. ~holding'
    BY <1>6, <2>4 DEF ReceiveAnswer
  <2> QED
    BY <2>1, <2>2, <2>4, <2>5 DEF AnswersFit, NothingIsOut
<1>7. CASE ReceiveTimesOut
  BY <1>0, <1>7 DEF ReceiveTimesOut, AnswersFit, NothingIsOut, OneIsOut, wire
<1>8. CASE ExplorerStores \/ ExplorerRefuses
  <2>1. sent # <<>>
    BY <1>8 DEF ExplorerStores, ExplorerRefuses
  <2>2. sent' = Tail(sent) /\ UNCHANGED <<loop, parked, holding>>
    BY <1>8 DEF ExplorerStores, ExplorerRefuses
  <2>3. PICK status \in Statuses : /\ answers' = Append(answers, status)
                                   /\ status = "created" => Head(sent) \in stored'
    BY <1>8 DEF ExplorerStores, ExplorerRefuses, Statuses
  <2>4. answers' = <<status>>
    BY <2>1, <2>3, SentIsFirst
  <2> QED
    BY <2>1, <2>2, <2>3, <2>4, SentIsFirst DEF AnswersFit, OneIsOut
<1>9. CASE OfferAnswer
  <2>1. PICK status \in Statuses : /\ status = "created" => Min(loop.page) \in stored
                                   /\ answers = <<status>> /\ parked = <<>> /\ sent = <<>>
    BY <1>0, <1>9 DEF OfferAnswer, AnswersFit, NothingIsOut, OneIsOut
  <2>2. parked' = Append(parked, Head(answers)) /\ answers' = Tail(answers)
    BY <1>9 DEF OfferAnswer
  <2>3. Head(<<status>>) = status /\ Tail(<<status>>) = <<>> /\ Append(<<>>, status) = <<status>>
    OBVIOUS
  <2>4. parked' = <<status>> /\ answers' = <<>>
    BY <2>1, <2>2, <2>3
  <2>5. UNCHANGED <<sent, loop, stored>> /\ loop.at = "receive"
    BY <1>0, <1>9 DEF OfferAnswer, AnswersFit, NothingIsOut, explorer
  <2> QED
    BY <2>1, <2>4, <2>5 DEF AnswersFit, OneIsOut
<1>10. CASE ProcessCrashes
  BY <1>10 DEF ProcessCrashes, AnswersFit, NothingIsOut
<1>11. CASE SaveRun \/ PushNow
  BY <1>1, <1>11 DEF SaveRun, PushNow, explorer
<1>12. CASE DialExplorer
  BY <1>0, <1>12 DEF DialExplorer, AnswersFit, NothingIsOut, OneIsOut, explorer
<1>13. CASE BreakConnection \/ Close
  BY <1>4, <1>13 DEF BreakConnection, Close, explorer
<1>14. CASE \/ BeginPush \/ Query \/ NextEvent \/ NextPage \/ EndPush \/ DeleteEvent
            \/ EndBackoff \/ EndEventLoop
  BY <1>2, <1>14
     DEF BeginPush, Query, NextEvent, NextPage, EndPush, DeleteEvent, EndBackoff, EndEventLoop
<1> QED
  BY <1>3, <1>5, <1>6, <1>7, <1>8, <1>9, <1>10, <1>11, <1>12, <1>13, <1>14
     DEF PusherNext, LoopStep

LEMMA IdleLoops ==
    /\ IdleLoop.at = "idle" /\ IdleLoop.page = {}
    /\ \A at : [IdleLoop EXCEPT !.at = at].at = at /\ [IdleLoop EXCEPT !.at = at].page = {}
BY DEF IdleLoop

LEMMA PageNext ==
    ASSUME PusherInv, PusherNext
    PROVE  PageIsNext'
<1>0. PageIsNext /\ loop \in Loops
  BY DEF PusherInv
<1> USE DEF ending, explorer, wire
<1>1. CASE SaveRun
  <2>1. events' = events \cup {saved + 1} /\ UNCHANGED <<loop, passedOver>>
    BY <1>1 DEF SaveRun
  <2>2. \A p \in loop.page : ~(saved + 1 < p)
    BY NumbersAre
  <2> QED
    BY <1>0, <2>1, <2>2 DEF PageIsNext
<1>2. CASE UNCHANGED <<loop, events, passedOver>>
  BY <1>0, <1>2 DEF PageIsNext
<1>3. CASE loop'.page = {} /\ loop'.at \notin {"send", "receive", "delete"}
  BY <1>3 DEF PageIsNext
<1>4. CASE Query
  <2>1. loop'.at = "event" /\ loop'.page = Page(loop.offset)
    BY <1>0, <1>4 DEF Query, Loops
  <2>2. events' = events /\ passedOver' = passedOver \cup {e \in events : Rank(e) < loop.offset}
    BY <1>4 DEF Query
  <2>3. loop.offset \in Nat
    BY <1>0 DEF Loops
  <2>4. \A p \in Page(loop.offset) : \A e \in events :
           e < p => e \in Page(loop.offset) \/ Rank(e) < loop.offset
    BY <2>3, PageIsConvex
  <2>5. Page(loop.offset) \subseteq events
    BY DEF Page
  <2> QED
    BY <2>1, <2>2, <2>4, <2>5, Zenon DEF PageIsNext
<1>5. CASE \/ NextEvent \/ Send \/ SendFails
           \/ (ReceiveAnswer /\ loop' = [loop EXCEPT !.at = "delete"])
  <2>1. loop'.at \in {"send", "receive", "delete"} /\ loop'.page = loop.page /\ loop.page # {}
    BY <1>0, <1>5 DEF NextEvent, Send, SendFails, ReceiveAnswer, PageIsNext, Loops
  <2>2. UNCHANGED <<events, passedOver>>
    BY <1>5 DEF NextEvent, Send, SendFails, ReceiveAnswer
  <2> QED
    BY <1>0, <2>1, <2>2 DEF PageIsNext
<1>6. CASE DeleteEvent
  <2>1. loop'.at = "event" /\ loop'.page = loop.page \ {Min(loop.page)}
    BY <1>0, <1>6 DEF DeleteEvent, Loops
  <2>2. events' = events \ {Min(loop.page)} /\ passedOver' = passedOver
    BY <1>6 DEF DeleteEvent
  <2> QED
    BY <1>0, <2>1, <2>2 DEF PageIsNext
<1>7. CASE \/ BeginPush \/ EndPush \/ ReceiveTimesOut \/ EndBackoff \/ EndEventLoop
           \/ ProcessCrashes \/ (ReceiveAnswer /\ Fail)
  <2>1. loop' = IdleLoop \/ \E at \in {"query", "backoff", "ended"} : loop' = [IdleLoop EXCEPT !.at = at]
    BY <1>7
       DEF BeginPush, EndPush, ReceiveTimesOut, EndBackoff, EndEventLoop, ProcessCrashes, Fail
  <2> QED
    BY <1>3, <2>1, IdleLoops
<1>8. CASE NextPage
  <2>1. loop'.at = "query" /\ loop'.page = {}
    BY <1>0, <1>8 DEF NextPage, Loops
  <2> QED
    BY <1>3, <2>1
<1>9. CASE \/ PushNow \/ DialExplorer \/ BreakConnection \/ ExplorerStores \/ ExplorerRefuses
           \/ OfferAnswer \/ Close
  BY <1>2, <1>9
     DEF PushNow, DialExplorer, BreakConnection, ExplorerStores, ExplorerRefuses, OfferAnswer, Close
<1>10. ReceiveAnswer => Fail \/ loop' = [loop EXCEPT !.at = "delete"]
  BY DEF ReceiveAnswer
<1> QED
  BY <1>1, <1>4, <1>5, <1>6, <1>7, <1>8, <1>9, <1>10 DEF PusherNext, LoopStep

LEMMA KnowsNext ==
    ASSUME PusherInv, PusherNext
    PROVE  ExplorerKnows'
<1>0. OvertakenIsPassedOver /\ DeletedIsStored /\ EventLeftUntilStored /\ PageIsNext /\ loop \in Loops
  BY DEF PusherInv, ExplorerKnows
<1> USE DEF ending, explorer, wire
<1>1. CASE SaveRun
  <2>1. saved' = saved + 1 /\ events' = events \cup {saved + 1}
        /\ UNCHANGED <<loop, stored, latest, passedOver>>
    BY <1>1 DEF SaveRun
  <2>2. ~(saved + 1 < latest)
    BY NumbersAre
  <2>3. \A e \in 1 .. (saved + 1) : e \in 1 .. saved \/ e = saved + 1
    BY NumbersAre
  <2>4. OvertakenIsPassedOver' /\ DeletedIsStored'
    BY <1>0, <2>1, <2>2 DEF OvertakenIsPassedOver, DeletedIsStored
  <2>5. EventLeftUntilStored'
    BY <1>0, <2>1, <2>3 DEF EventLeftUntilStored
  <2> QED
    BY <2>4, <2>5 DEF ExplorerKnows
<1>2. CASE UNCHANGED <<saved, events, stored, latest>> /\ passedOver \subseteq passedOver'
            /\ loop'.at # "delete"
  BY <1>0, <1>2 DEF ExplorerKnows, OvertakenIsPassedOver, DeletedIsStored, EventLeftUntilStored
<1>3. CASE UNCHANGED <<saved, events, stored, latest, passedOver, loop>>
  BY <1>0, <1>3 DEF ExplorerKnows, OvertakenIsPassedOver, DeletedIsStored, EventLeftUntilStored
<1>4. CASE ReceiveAnswer /\ ~Fail
  <2>1. Head(parked) = "created" /\ loop' = [loop EXCEPT !.at = "delete"] /\ parked # <<>>
    BY <1>4 DEF ReceiveAnswer
  <2>2. PICK status : parked = <<status>> /\ (status = "created" => Min(loop.page) \in stored)
    BY <2>1 DEF PusherInv, AnswersFit, NothingIsOut, OneIsOut
  <2>3. \A x : Head(<<x>>) = x
    OBVIOUS
  <2>4. Min(loop.page) \in stored /\ loop'.page = loop.page
    BY <1>0, <2>1, <2>2, <2>3 DEF Loops
  <2>5. UNCHANGED <<saved, events, stored, latest, passedOver>>
    BY <1>4 DEF ReceiveAnswer
  <2> QED
    BY <1>0, <2>4, <2>5
       DEF ExplorerKnows, OvertakenIsPassedOver, DeletedIsStored, EventLeftUntilStored
<1>5. CASE DeleteEvent
  <2>1. events' = events \ {Min(loop.page)} /\ UNCHANGED <<saved, stored, latest, passedOver>>
    BY <1>5 DEF DeleteEvent
  <2>2. loop'.at = "event"
    BY <1>0, <1>5 DEF DeleteEvent, Loops
  <2>3. Min(loop.page) \in stored
    BY <1>0, <1>5 DEF DeleteEvent, DeletedIsStored
  <2> QED
    BY <1>0, <2>1, <2>2, <2>3
       DEF ExplorerKnows, OvertakenIsPassedOver, DeletedIsStored, EventLeftUntilStored
<1>6. CASE ExplorerStores
  <2>1. sent # <<>> /\ stored' = stored \cup {Head(sent)} /\ latest' = Head(sent)
        /\ UNCHANGED <<saved, events, loop, passedOver>>
    BY <1>6 DEF ExplorerStores
  <2>2. loop.at = "receive" /\ Head(sent) = Min(loop.page) /\ loop.page # {}
    BY <2>1, SentIsFirst
  <2>3. \A e \in events : e < Min(loop.page) => e \in passedOver
    BY <1>0, <2>2, FirstOfPage, NumbersAre DEF PageIsNext
  <2> QED
    BY <1>0, <2>1, <2>2, <2>3
       DEF ExplorerKnows, OvertakenIsPassedOver, DeletedIsStored, EventLeftUntilStored
<1>7. CASE \/ BeginPush \/ NextEvent \/ NextPage \/ EndPush \/ (ReceiveAnswer /\ Fail)
           \/ ReceiveTimesOut \/ EndBackoff \/ EndEventLoop \/ Send \/ SendFails \/ ProcessCrashes
  <2>1. loop'.at # "delete"
    <3>1. CASE NextEvent \/ NextPage \/ Send \/ SendFails
      BY <1>0, <3>1 DEF NextEvent, NextPage, Send, SendFails, Loops
    <3>2. CASE \/ BeginPush \/ EndPush \/ ReceiveTimesOut \/ EndBackoff \/ EndEventLoop
               \/ ProcessCrashes \/ (ReceiveAnswer /\ Fail)
      <4>1. loop' = IdleLoop \/ \E at \in {"query", "backoff", "ended"} :
                                   loop' = [IdleLoop EXCEPT !.at = at]
        BY <3>2
           DEF BeginPush, EndPush, ReceiveTimesOut, EndBackoff, EndEventLoop, ProcessCrashes, Fail
      <4> QED
        BY <4>1, IdleLoops
    <3> QED
      BY <1>7, <3>1, <3>2
  <2>2. UNCHANGED <<saved, events, stored, latest, passedOver>>
    BY <1>7
       DEF BeginPush, NextEvent, NextPage, EndPush, ReceiveAnswer, ReceiveTimesOut, EndBackoff,
           EndEventLoop, Send, SendFails, ProcessCrashes
  <2> QED
    BY <1>2, <2>1, <2>2
<1>8. CASE Query
  <2>1. loop'.at # "delete"
    BY <1>0, <1>8 DEF Query, Loops
  <2>2. UNCHANGED <<saved, events, stored, latest>> /\ passedOver \subseteq passedOver'
    BY <1>8 DEF Query
  <2> QED
    BY <1>2, <2>1, <2>2
<1>9. CASE \/ PushNow \/ DialExplorer \/ BreakConnection \/ ExplorerRefuses \/ OfferAnswer \/ Close
  BY <1>3, <1>9 DEF PushNow, DialExplorer, BreakConnection, ExplorerRefuses, OfferAnswer, Close
<1> QED
  BY <1>1, <1>4, <1>5, <1>6, <1>7, <1>8, <1>9 DEF PusherNext, LoopStep

LEMMA PusherInvNext ==
    ASSUME PusherInv, ~Late, [PusherNext]_pusherVars
    PROVE  PusherInv'
<1>1. CASE PusherNext
  BY <1>1, NumbersNext, FlagsNext, LoopNext, AnswersFitNext, PageNext, KnowsNext DEF PusherInv
<1>2. CASE UNCHANGED pusherVars
  BY <1>2 DEF pusherVars, PusherInv, NumbersOK, FlagsOK, Loops, AnswersFit, NothingIsOut, OneIsOut,
              PageIsNext, ExplorerKnows, OvertakenIsPassedOver, DeletedIsStored, EventLeftUntilStored
<1> QED
  BY <1>1, <1>2

\* Types follow: what is under way is one message or one answer at most.
LEMMA PusherIsTyped ==
    ASSUME PusherInv
    PROVE  PusherTypeOK
<1>1. sent \in Seq(Events)
  <2>1. CASE sent = <<>>
    BY <2>1
  <2>2. CASE sent # <<>>
    <3>1. sent = <<Min(loop.page)>> /\ Min(loop.page) \in Nat /\ 1 <= Min(loop.page)
          /\ Min(loop.page) <= saved
      BY <2>2, SentIsFirst, FirstOfPage
    <3>2. Min(loop.page) \in Events
      BY <3>1, NumbersAre DEF Events
    <3> QED
      BY <3>1, <3>2
  <2> QED
    BY <2>1, <2>2
<1>2. /\ answers = <<>> \/ \E status \in Statuses : answers = <<status>>
      /\ parked = <<>> \/ \E status \in Statuses : parked = <<status>>
      /\ holding => parked # <<>>
  BY DEF PusherInv, AnswersFit, NothingIsOut, OneIsOut
<1>3. answers \in Seq(Statuses) /\ parked \in Seq(Statuses)
  <2>1. <<>> \in Seq(Statuses) /\ \A status \in Statuses : <<status>> \in Seq(Statuses)
    OBVIOUS
  <2> QED
    BY <1>2, <2>1, Zenon
<1>4. due \in SUBSET Events
  <2>1. due \subseteq 1 .. saved
    BY DEF PusherInv, NumbersOK
  <2> QED
    BY <2>1, NumbersAre DEF Events
<1>5. loop \in Loops /\ (loop.at \in {"send", "receive", "delete"} => loop.page # {})
  BY DEF PusherInv, PageIsNext
<1> QED
  BY <1>1, <1>2, <1>3, <1>4, <1>5, Zenon DEF PusherInv, NumbersOK, FlagsOK, PusherTypeOK

\* For pages of any size and any number of events, connections, refusals and crashes, if
\* no answer comes late: the explorer has each event that has left the database, and has
\* them in order, but for events that a page left out.
THEOREM ExplorerGetsThemInOrder ==
    ASSUME ~Late
    PROVE  PusherSpec => ExplorerHasThem
<1>1. PusherInit => PusherInv
  BY PusherInvInit
<1>2. PusherInv /\ [PusherNext]_pusherVars => PusherInv'
  BY PusherInvNext
<1>3. PusherInv => EventLeftUntilStored
  BY DEF PusherInv, ExplorerKnows
<1>4. PusherInv /\ [PusherNext]_pusherVars =>
         [latest' # latest => latest' > latest \/ latest' \in passedOver]_pusherVars
  <2> SUFFICES ASSUME PusherInv, PusherNext, latest' # latest
               PROVE  latest' > latest \/ latest' \in passedOver
    OBVIOUS
  <2>1. ExplorerStores
    BY DEF PusherNext, LoopStep, SaveRun, PushNow, BeginPush, Query, NextEvent, NextPage, EndPush,
           ReceiveAnswer, ReceiveTimesOut, DeleteEvent, EndBackoff, EndEventLoop, Send, SendFails,
           DialExplorer, BreakConnection, ExplorerRefuses, OfferAnswer, Close, ProcessCrashes,
           explorer
  <2>2. sent # <<>> /\ latest' = Head(sent)
    BY <2>1 DEF ExplorerStores
  <2>3. latest' \in events /\ latest' \in Nat
    BY <2>2, SentIsFirst, FirstOfPage
  <2>4. latest' < latest => latest' \in passedOver
    BY <2>3 DEF PusherInv, ExplorerKnows, OvertakenIsPassedOver
  <2> QED
    BY <2>3, <2>4, NumbersAre
<1> QED
  BY <1>1, <1>2, <1>3, <1>4, PTL DEF PusherSpec, ExplorerHasThem, StoredInOrder

----------------------------------------------------------------------------
(* DatabaseLock.                                                            *)

\* The processes that have been through NewORM.
Past == {"raw", "count", "migrate", "ready", "call", "access"}

LockTypeOK ==
    /\ connection \in [Processes -> {"none", "open", "lost"}]
    /\ lockStep \in [Processes -> {"off", "lock"} \cup Past]
    /\ panicked \in SUBSET Processes
    /\ schema \in Nat
    /\ breached \in BOOLEAN

\* Who is past the lock has it, or knows that it has not.
HasOrKnows ==
    \A p \in Processes :
        lockStep[p] \in Past => holder = p \/ p \in panicked \/ connection[p] = "lost"

\* As long as nobody has gone on without the lock, who is past it has it, and whoever
\* has been through the migrations knows all that are in the database.
HasIt ==
    ~breached =>
        \A p \in Processes :
            /\ lockStep[p] \in Past => holder = p
            /\ lockStep[p] \in {"migrate", "ready", "call", "access"} => schema <= Migrations[p]

LockInv == LockTypeOK /\ HasOrKnows /\ HasIt

LEMMA LockInvInit == LockInit => LockInv
<1> SUFFICES ASSUME LockInit
             PROVE  LockInv
  OBVIOUS
<1>1. LockTypeOK
  BY DEF LockInit, LockTypeOK, Past
<1>2. \A p \in Processes : lockStep[p] \notin Past
  BY DEF LockInit, Past
<1>3. HasOrKnows /\ HasIt
  BY <1>2 DEF HasOrKnows, HasIt, Past
<1> QED
  BY <1>1, <1>3 DEF LockInv

LEMMA LockInvNext == LockInv /\ [LockNext]_lockVars => LockInv'
<1> SUFFICES ASSUME LockInv, [LockNext]_lockVars
             PROVE  LockInv'
  OBVIOUS
<1> USE VersionsAssumption DEF LockInv, LockTypeOK, HasOrKnows, HasIt, Past
<1>l. ASSUME NEW p \in Processes, NEW step \in Past, MustEnsureAdvisoryLock(p, step),
             UNCHANGED <<started, schema, losses>>,
             lockStep[p] \in {"lock", "raw", "call"},
             step \in {"migrate", "ready", "call", "access"} => lockStep[p] = "call"
      PROVE  LockInv'
  <2>1. CASE Acquires(p)
    BY <1>l, <2>1 DEF MustEnsureAdvisoryLock, Acquires, Goes
  <2>2. CASE FailsToLock(p)
    BY <1>l, <2>2 DEF MustEnsureAdvisoryLock, FailsToLock, Goes
  <2> QED
    BY <1>l, <2>1, <2>2 DEF MustEnsureAdvisoryLock
<1>e. ASSUME NEW p \in Processes, Ends(p), UNCHANGED <<schema, losses>>
      PROVE  LockInv'
  BY <1>e DEF Ends, Goes
<1>1. ASSUME NEW p \in Processes, Launch(p)
      PROVE  LockInv'
  BY <1>1 DEF Launch, Goes
<1>2. ASSUME NEW p \in Processes, NewORM(p)
      PROVE  LockInv'
  BY <1>2, <1>l DEF NewORM
<1>3. ASSUME NEW p \in Processes, RawDB(p)
      PROVE  LockInv'
  BY <1>3, <1>l DEF RawDB
<1>4. ASSUME NEW p \in Processes, CountMigrations(p)
      PROVE  LockInv'
  BY <1>4, <1>e DEF CountMigrations, Goes
<1>5. ASSUME NEW p \in Processes, MigrateTo(p)
      PROVE  LockInv'
  BY <1>5 DEF MigrateTo, Goes
<1>6. ASSUME NEW p \in Processes, CallORM(p)
      PROVE  LockInv'
  BY <1>6 DEF CallORM, Goes
<1>7. ASSUME NEW p \in Processes, EnsureLock(p)
      PROVE  LockInv'
  BY <1>7, <1>l DEF EnsureLock
<1>8. ASSUME NEW p \in Processes, Access(p)
      PROVE  LockInv'
  BY <1>8 DEF Access, Goes
<1>9. ASSUME NEW p \in Processes, StartNode(p)
      PROVE  LockInv'
  BY <1>9 DEF StartNode
<1>10. ASSUME NEW p \in Processes, PanicStops(p) \/ ProcessExits(p)
       PROVE  LockInv'
  BY <1>10, <1>e DEF PanicStops, ProcessExits
<1>11. ASSUME NEW p \in Processes, Disconnect(p)
       PROVE  LockInv'
  BY <1>11 DEF Disconnect
<1>12. CASE UNCHANGED lockVars
  BY <1>12 DEF lockVars
<1> QED
  BY <1>1, <1>2, <1>3, <1>4, <1>5, <1>6, <1>7, <1>8, <1>9, <1>10, <1>11, <1>12 DEF LockNext

\* For any number of processes of any versions: two are in the database at once only if
\* one of them has been told that it does not have the lock, or has lost its connection;
\* and as long as nobody goes on without the lock, none works with a schema newer than
\* itself.
THEOREM DatabaseStaysGuarded == LockSpec => []DatabaseIsGuarded
<1>1. LockInv => ToldOrAlone
  BY DEF LockInv, HasOrKnows, ToldOrAlone, Inside, Past
<1>2. LockInv => SchemaIsKnown
  BY DEF LockInv, HasIt, SchemaIsKnown
<1> QED
  BY LockInvInit, LockInvNext, <1>1, <1>2, PTL DEF LockSpec, DatabaseIsGuarded

----------------------------------------------------------------------------
(* Scheduler.                                                               *)

\* There is an entry only while the scheduler is started, and a stopped scheduler has
\* waited for the runs under way.
NothingFires ==
    /\ scheduler # "started" => cron = {}
    /\ scheduler = "stopped" => firing = {}
    /\ CronIsQuiet

LEMMA QuietInit == SchedulerInit => NothingFires
BY DEF SchedulerInit, NothingFires, CronIsQuiet

LEMMA QuietNext == NothingFires /\ [SchedulerNext]_schedulerVars => NothingFires'
<1> SUFFICES ASSUME NothingFires, [SchedulerNext]_schedulerVars
             PROVE  NothingFires'
  OBVIOUS
<1> USE DEF NothingFires, CronIsQuiet
<1>1. CASE Tick \/ ArchiveJob
  BY <1>1 DEF Tick, ArchiveJob, memory
<1>2. CASE Start
  BY <1>2 DEF Start
<1>3. CASE CreateJob
  BY <1>3 DEF CreateJob
<1>4. CASE AddJob
  BY <1>4 DEF AddJob
<1>5. CASE StopCron
  BY <1>5 DEF StopCron
<1>6. CASE StopOneTime
  BY <1>6 DEF StopOneTime
<1>7. CASE Crash
  BY <1>7 DEF Crash
<1>8. CASE Fire
  <2>1. cron # {}
    BY <1>8 DEF Fire
  <2> QED
    BY <1>8, <2>1 DEF Fire
<1>9. CASE CreateRecurring
  <2>1. firing # {}
    BY <1>9 DEF CreateRecurring
  <2>2. scheduler # "stopped" /\ UNCHANGED <<scheduler, cron>>
    BY <1>9, <2>1 DEF CreateRecurring
  <2> QED
    BY <1>9, <2>2 DEF CreateRecurring
<1>10. CASE Due
  BY <1>10 DEF Due
<1>11. CASE Done
  BY <1>11 DEF Done
<1>12. CASE CreateOnce
  BY <1>12 DEF CreateOnce
<1>13. CASE MarkRan
  BY <1>13 DEF MarkRan
<1>14. CASE UNCHANGED schedulerVars
  BY <1>14 DEF schedulerVars, memory
<1> QED
  BY <1>1, <1>2, <1>3, <1>4, <1>5, <1>6, <1>7, <1>8, <1>9, <1>10, <1>11, <1>12, <1>13, <1>14
     DEF SchedulerNext

\* When Stop has returned cron creates no run, for any number of entries and any clock:
\* neither a run that had begun, nor one of a job that is added too late.
THEOREM StoppedCronIsQuiet == SchedulerSpec => []CronIsQuiet
<1>1. NothingFires => CronIsQuiet
  BY DEF NothingFires
<1> QED
  BY QuietInit, QuietNext, <1>1, PTL DEF SchedulerSpec

----------------------------------------------------------------------------
(* KeyStores.                                                               *)

\* The account that is made and not yet stored is on the disk of a node that runs, which
\* no other process clears.
CreatedIsOnDisk ==
    /\ keyFaults \in Nat
    /\ created \subseteq disk
    /\ created # {} => process = "running"
    /\ ReportedKeyIsKept

LEMMA ReportedInit == KeysInit => CreatedIsOnDisk
BY DEF KeysInit, CreatedIsOnDisk, ReportedKeyIsKept

LEMMA SyncKeeps ==
    ASSUME keyFaults \in Nat, SyncDiskKeyStoreToDB
    PROVE  /\ keyFaults' \in Nat
           /\ db \subseteq db'
           /\ keyFaults' = keyFaults => disk \subseteq db'
BY DEF SyncDiskKeyStoreToDB, Fails

LEMMA ReportedNext == CreatedIsOnDisk /\ [KeysNext]_keyVars => CreatedIsOnDisk'
<1> SUFFICES ASSUME CreatedIsOnDisk, [KeysNext]_keyVars
             PROVE  CreatedIsOnDisk'
  OBVIOUS
<1> USE DEF CreatedIsOnDisk, ReportedKeyIsKept
<1>1. CASE RemoveKeysDir
  BY <1>1 DEF RemoveKeysDir
<1>2. CASE WriteKeysDir
  BY <1>2 DEF WriteKeysDir
<1>3. CASE ProcessEnds
  BY <1>3 DEF ProcessEnds, Fails
<1>4. CASE Authenticate
  <2>1. created' = {} /\ UNCHANGED <<db, reported, keyFaults>>
    BY <1>4 DEF Authenticate, Exit
  <2> QED
    BY <2>1
<1>5. CASE StartStore
  <2>1. created = {} /\ UNCHANGED <<disk, created, reported>>
    BY <1>5 DEF StartStore
  <2> QED
    BY <1>5, <2>1, SyncKeeps DEF StartStore
<1>6. CASE StopNode
  BY <1>6 DEF StopNode, Exit
<1>7. CASE CreateKey
  BY <1>7 DEF CreateKey
<1>8. CASE StoreKey
  BY <1>8, SyncKeeps DEF StoreKey
<1>9. CASE ImportKey
  BY <1>9 DEF ImportKey, Exit, Fails
<1>10. CASE UNCHANGED keyVars
  BY <1>10 DEF keyVars
<1> QED
  BY <1>1, <1>2, <1>3, <1>4, <1>5, <1>6, <1>7, <1>8, <1>9, <1>10 DEF KeysNext

\* An account whose creation or import was reported is in the database, and so survives
\* the files of the next process, whatever calls fail and whenever a process ends.
LEMMA ReportedAccountsAreKept == KeysSpec => []ReportedKeyIsKept
<1>1. CreatedIsOnDisk => ReportedKeyIsKept
  BY DEF CreatedIsOnDisk
<1> QED
  BY ReportedInit, ReportedNext, <1>1, PTL DEF KeysSpec

----------------------------------------------------------------------------
(* Sessions.                                                                *)

Steps == {"none", "begin", "session", "found", "authorised", "store", "clear", "write", "done"}
Secret == Passwords \cup {FirstPassword}
User == [password : Secret, token : Nat]
Request ==
    [op : Ops \cup {"none"}, session : Nat, token : Nat, password : Secret, at : Steps,
     row : User, read : Nat, before : SUBSET Nat]

SessionsTypeOK ==
    /\ now \in Nat /\ reaper \in Nat
    /\ user \in User
    /\ sessions \in [Calls -> Nat]
    /\ call \in [Calls -> Request]

\* The logins that have been answered; the sessions that there have been are among them.
Logins == {c \in Calls : call[c].op = "login" /\ call[c].at = "done"}

\* A request y names a session that there has been, and remembers no more than what had
\* ended when it began.
RequestOK(y) ==
    /\ y.session \in {NoSession} \cup Logins
    /\ y.before \subseteq ended
    /\ y.at = "store" => y.op = "login"
    /\ y.at = "found" => y.session \in Calls /\ y.session \notin y.before \ restored

\* What was ended is gone, unless it was written back.
EndedIsGone ==
    /\ ended \subseteq {NoSession} \cup Logins
    /\ \A s \in Calls : sessions[s] # Gone => s \in Logins
    /\ \A s \in Calls : s \in ended \ restored => sessions[s] = Gone

\* The reaper goes by a time that leaves no session in use before it.
ReaperIsLate ==
    /\ Timeout + Expiration < now
    /\ reaper \notin {Idle, Woken} => reaper + Timeout + Expiration <= now

SessionInv ==
    /\ SessionsTypeOK
    /\ \A c \in Calls : RequestOK(call[c])
    /\ EndedIsGone
    /\ ReaperIsLate

LEMMA NoCallIsARequest ==
    /\ NoCall \in Request
    /\ NoCall.op = "none" /\ NoCall.at = "none" /\ NoCall.session = NoSession /\ NoCall.before = {}
BY DEF NoCall, Request, Ops, Steps, User, Secret, NoSession, NoToken

LEMMA SessionInvInit ==
    ASSUME SessionsInit
    PROVE  SessionInv
<1>1. now \in Nat /\ Timeout \in Nat /\ Expiration \in Nat /\ now = Timeout + Expiration + 1
  BY SessionsAssumption DEF SessionsInit
<1>2. user \in User
  BY DEF SessionsInit, User, Secret, NoToken
<1>3. /\ sessions \in [Calls -> Nat]
      /\ \A s \in Calls : sessions[s] # Gone => s \in {1, 2}
  BY <1>1 DEF SessionsInit, Gone
<1> DEFINE login == [NoCall EXCEPT !.op = "login", !.at = "done"]
<1>4. /\ login \in Request /\ login.op = "login" /\ login.at = "done"
      /\ login.session = NoSession /\ login.before = {}
  BY NoCallIsARequest DEF Request, Ops, Steps
<1>5. call = [c \in Calls |-> IF c \in {1, 2} THEN login ELSE NoCall]
  BY DEF SessionsInit
<1> HIDE DEF login
<1>6. call \in [Calls -> Request]
  BY <1>4, <1>5, NoCallIsARequest
<1>7. \A c \in Calls : RequestOK(call[c])
  BY <1>4, <1>5, NoCallIsARequest DEF RequestOK
<1>8. \A s \in Calls : s \in {1, 2} => s \in Logins
  BY <1>4, <1>5 DEF Logins
<1>9. reaper = Idle /\ ended = {}
  BY DEF SessionsInit
<1> QED
  BY <1>1, <1>2, <1>3, <1>6, <1>7, <1>8, <1>9 DEF SessionInv, SessionsTypeOK, EndedIsGone, ReaperIsLate, Idle

\* Request c goes on as y; whatever else changes keeps EndedIsGone.
LEMMA RequestGoesOn ==
    ASSUME SessionInv, NEW c \in Calls, NEW y \in Request, call' = [call EXCEPT ![c] = y],
           y.session \in {NoSession} \cup Logins, y.before \subseteq ended,
           y.at = "store" => y.op = "login",
           y.at = "found" => y.session \in Calls /\ y.session \notin y.before \ restored,
           call[c].op = "login" /\ call[c].at = "done" => y.op = "login" /\ y.at = "done",
           now' = now, reaper' \in {reaper, Idle, Woken}, reaper' \in Nat,
           user' \in User, sessions' \in [Calls -> Nat],
           ended \subseteq ended', restored \subseteq restored', EndedIsGone'
    PROVE  SessionInv'
<1>1. call' \in [Calls -> Request] /\ call'[c] = y /\ \A d \in Calls \ {c} : call'[d] = call[d]
  BY DEF SessionInv, SessionsTypeOK
<1>2. SessionsTypeOK'
  BY <1>1 DEF SessionInv, SessionsTypeOK
<1>3. Logins \subseteq Logins'
  BY <1>1 DEF Logins
<1>4. ASSUME NEW d \in Calls
      PROVE  RequestOK(call[d])'
  <2>1. CASE d = c
    BY <1>1, <1>3, <2>1 DEF RequestOK
  <2>2. CASE d # c
    BY <1>1, <1>3, <2>2 DEF RequestOK, SessionInv
  <2> QED
    BY <2>1, <2>2
<1>5. ReaperIsLate'
  BY DEF SessionInv, ReaperIsLate, Idle, Woken
<1> QED
  BY <1>2, <1>4, <1>5 DEF SessionInv

\* If no session is touched, that is all.
LEMMA EndedStaysGone ==
    ASSUME SessionInv, NEW c \in Calls, NEW y \in Request, call' = [call EXCEPT ![c] = y],
           call[c].op = "login" /\ call[c].at = "done" => y.op = "login" /\ y.at = "done",
           UNCHANGED <<sessions, ended, restored>>
    PROVE  EndedIsGone'
<1>1. call'[c] = y /\ \A d \in Calls \ {c} : call'[d] = call[d]
  BY DEF SessionInv, SessionsTypeOK
<1>2. Logins \subseteq Logins'
  BY <1>1 DEF Logins
<1> QED
  BY <1>2 DEF SessionInv, EndedIsGone

Reply(x) == [NoCall EXCEPT !.op = x.op, !.at = "done"]

LEMMA ReplyIsARequest ==
    ASSUME NEW x \in Request
    PROVE  /\ Reply(x) \in Request /\ Reply(x).op = x.op /\ Reply(x).at = "done"
           /\ Reply(x).session = NoSession /\ Reply(x).before = {}
<1> DEFINE n == NoCall
<1>1. n \in Request /\ n.session = NoSession /\ n.before = {}
  BY NoCallIsARequest
<1>2. x.op \in Ops \cup {"none"} /\ "done" \in Steps
  BY DEF Request, Steps
<1>3. Reply(x) = [n EXCEPT !.op = x.op, !.at = "done"]
  BY DEF Reply
<1> HIDE DEF n
<1> QED
  BY <1>1, <1>2, <1>3 DEF Request

LEMMA RequestsAre ==
    ASSUME SessionInv
    PROVE  /\ \A c \in Calls : call[c] \in Request /\ RequestOK(call[c])
           /\ DOMAIN call = Calls /\ DOMAIN sessions = Calls /\ sessions \in [Calls -> Nat]
           /\ user \in User /\ now \in Nat /\ reaper \in Nat
BY DEF SessionInv, SessionsTypeOK

\* An answer that leaves the sessions alone.
LEMMA AnsweredKeeps ==
    ASSUME SessionInv, NEW c \in Calls, Answered(c), call[c].at # "done",
           UNCHANGED <<now, sessions, ended, restored>>,
           reaper' \in {reaper, Idle, Woken}, reaper' \in Nat, user' \in User
    PROVE  SessionInv'
<1> DEFINE y == Reply(call[c])
<1>1. y \in Request /\ y.at = "done" /\ y.session = NoSession /\ y.before = {} /\ y.op = call[c].op
  BY ReplyIsARequest, RequestsAre
<1>2. call' = [call EXCEPT ![c] = y]
  BY DEF Answered, Reply
<1> HIDE DEF y
<1>3. EndedIsGone'
  BY <1>1, <1>2, EndedStaysGone
<1> QED
  BY <1>1, <1>2, <1>3, RequestsAre, RequestGoesOn

LEMMA WakesIsTyped ==
    ASSUME SessionInv, Wakes
    PROVE  reaper' \in {reaper, Idle, Woken} /\ reaper' \in Nat
BY SessionsAssumption, RequestsAre DEF Wakes, Woken

\* The steps that leave the sessions alone.
LEMMA QuietRequestKeeps ==
    ASSUME SessionInv, NEW c \in Calls,
           \/ AuthenticateByToken(c) \/ FindSession(c) \/ CheckLogin(c) \/ Use(c)
           \/ ReadUser(c) \/ SaveUser(c)
    PROVE  SessionInv'
<1> DEFINE x == call[c]
<1>1. x \in Request /\ RequestOK(x) /\ user \in User
  BY RequestsAre
<1>2. CASE AuthenticateByToken(c)
  <2> DEFINE step == IF x.op # "logout" /\ user.token # NoToken /\ x.token = user.token
                     THEN "authorised" ELSE "session"
             y == [x EXCEPT !.token = NoToken, !.at = step]
  <2>1. /\ x.at = "begin" /\ call' = [call EXCEPT ![c] = y]
        /\ UNCHANGED <<now, user, sessions, reaper, ended, restored>>
    BY <1>2 DEF AuthenticateByToken, At
  <2>2. step \in {"authorised", "session"} /\ step \in Steps
    BY DEF Steps
  <2> HIDE DEF step
  <2>3. y \in Request /\ y.session = x.session /\ y.before = x.before /\ y.at = step
    BY <1>1, <2>2 DEF Request, NoToken
  <2> HIDE DEF y
  <2>4. EndedIsGone'
    BY <2>1, <2>3, EndedStaysGone
  <2> QED
    BY <1>1, <2>1, <2>2, <2>3, <2>4, RequestsAre, RequestGoesOn DEF RequestOK
<1>3. CASE FindSession(c)
  <2>1. /\ x.at = "session" /\ UNCHANGED <<now, user, sessions, reaper, ended, restored>>
    BY <1>3 DEF FindSession, At
  <2>2. CASE Alive(x.session)
    <3> DEFINE y == [x EXCEPT !.at = "found", !.read = now]
    <3>1. call' = [call EXCEPT ![c] = y]
      BY <1>3, <2>2 DEF FindSession
    <3>2. y \in Request /\ y.session = x.session /\ y.before = x.before /\ y.at = "found"
      BY <1>1, RequestsAre DEF Request, Steps
    <3> HIDE DEF y
    <3>3. x.session \in Calls /\ sessions[x.session] # Gone
      BY <1>1, <2>2 DEF Alive, RequestOK, Logins
    <3>4. x.session \notin x.before \ restored
      BY <1>1, <3>3 DEF RequestOK, SessionInv, EndedIsGone
    <3>5. EndedIsGone'
      BY <2>1, <3>1, <3>2, EndedStaysGone
    <3> QED
      BY <1>1, <2>1, <3>1, <3>2, <3>3, <3>4, <3>5, RequestsAre, RequestGoesOn DEF RequestOK
  <2>3. CASE ~Alive(x.session)
    <3>1. Answered(c)
      BY <1>3, <2>3 DEF FindSession
    <3> QED
      BY <2>1, <3>1, RequestsAre, AnsweredKeeps
  <2> QED
    BY <2>2, <2>3
<1>4. CASE CheckLogin(c)
  <2>1. /\ x.at = "begin" /\ x.op = "login" /\ UNCHANGED <<now, user, sessions, ended, restored>>
    BY <1>4 DEF CheckLogin, At
  <2>2. CASE call' = [call EXCEPT ![c].at = "store", ![c].password = FirstPassword] /\ UNCHANGED reaper
    <3> DEFINE y == [x EXCEPT !.at = "store", !.password = FirstPassword]
    <3>1. call' = [call EXCEPT ![c] = y]
      BY <2>2
    <3>2. y \in Request /\ y.session = x.session /\ y.before = x.before /\ y.at = "store" /\ y.op = x.op
      BY <1>1 DEF Request, Steps, Secret
    <3> HIDE DEF y
    <3>3. EndedIsGone'
      BY <2>1, <3>1, <3>2, EndedStaysGone
    <3>4. y.session \in {NoSession} \cup Logins /\ y.before \subseteq ended
      BY <1>1, <3>2 DEF RequestOK
    <3>5. reaper' \in {reaper, Idle, Woken} /\ reaper' \in Nat /\ user' \in User
      BY <1>1, <2>1, <2>2, RequestsAre
    <3>6. sessions' \in [Calls -> Nat] /\ y.op = "login" /\ y.at # "found" /\ x.at # "done"
      BY <2>1, <3>2, RequestsAre
    <3> QED
      BY <2>1, <3>1, <3>2, <3>3, <3>4, <3>5, <3>6, RequestGoesOn
  <2>3. CASE Answered(c) /\ Wakes
    BY <2>1, <2>3, WakesIsTyped, RequestsAre, AnsweredKeeps
  <2> QED
    BY <1>4, <2>2, <2>3 DEF CheckLogin
<1>5. CASE Use(c)
  <2>1. Answered(c) /\ x.at # "done" /\ UNCHANGED <<now, user, sessions, reaper, ended, restored>>
    BY <1>5 DEF Use, At
  <2> QED
    BY <2>1, RequestsAre, AnsweredKeeps
<1>6. CASE ReadUser(c)
  <2>1. /\ x.at = "authorised" /\ UNCHANGED <<now, user, sessions, reaper, ended, restored>>
    BY <1>6 DEF ReadUser, At
  <2>2. CASE Answered(c)
    BY <2>1, <2>2, RequestsAre, AnsweredKeeps
  <2>3. CASE ~Answered(c)
    <3> DEFINE step == IF x.op = "changePassword" THEN "clear" ELSE "write"
               y == [x EXCEPT !.row = user, !.password = FirstPassword, !.at = step]
    <3>1. call' = [call EXCEPT ![c] = y]
      BY <1>6, <2>3 DEF ReadUser
    <3>2. step \in {"clear", "write"} /\ step \in Steps
      BY DEF Steps
    <3> HIDE DEF step
    <3>3. y \in Request /\ y.session = x.session /\ y.before = x.before /\ y.at = step
      BY <1>1, <3>2 DEF Request, Secret
    <3> HIDE DEF y
    <3>4. EndedIsGone'
      BY <2>1, <3>1, <3>3, EndedStaysGone
    <3> QED
      BY <1>1, <2>1, <3>1, <3>2, <3>3, <3>4, RequestsAre, RequestGoesOn DEF RequestOK
  <2> QED
    BY <2>2, <2>3
<1>7. CASE SaveUser(c)
  <2>1. /\ x.at = "write" /\ Answered(c) /\ UNCHANGED <<now, sessions, reaper, ended, restored>>
    BY <1>7 DEF SaveUser, At
  <2>2. x.row \in User
    BY <1>1 DEF Request
  <2>3. user' \in User
    <3>1. ASSUME NEW p \in Passwords
          PROVE  [x.row EXCEPT !.password = p] \in User
      BY <2>2 DEF User, Secret
    <3>2. ASSUME NEW t \in Nat
          PROVE  [x.row EXCEPT !.token = t] \in User
      BY <2>2 DEF User
    <3>3. c \in Nat /\ NoToken \in Nat
      BY DEF Calls, NoToken
    <3> QED
      BY <1>7, <3>1, <3>2, <3>3 DEF SaveUser
  <2> QED
    BY <2>1, <2>3, RequestsAre, AnsweredKeeps
<1> QED
  BY <1>2, <1>3, <1>4, <1>5, <1>6, <1>7

\* A request begins, with the name of a session that there has been.
LEMMA BeginKeeps ==
    ASSUME SessionInv, NEW c \in Calls, NEW op \in Ops, NEW s \in {NoSession} \cup Logins,
           NEW t \in Nat, NEW p \in Passwords, Begin(c, op, s, t, p)
    PROVE  SessionInv'
<1> DEFINE n == NoCall
           y == [n EXCEPT !.op = op, !.session = s, !.token = t, !.password = p,
                          !.at = "begin", !.before = ended]
<1>1. n \in Request
  BY NoCallIsARequest
<1>2. /\ call[c].op = "none" /\ call' = [call EXCEPT ![c] = y]
      /\ UNCHANGED <<now, user, sessions, reaper, ended, restored>>
  BY DEF Begin
<1>3. s \in Nat /\ ended \in SUBSET Nat /\ "begin" \in Steps /\ p \in Secret
  BY DEF Logins, SessionInv, EndedIsGone, NoSession, Calls, Steps, Secret
<1> HIDE DEF n
<1>4. y \in Request /\ y.session = s /\ y.before = ended /\ y.at = "begin"
  BY <1>1, <1>3 DEF Request
<1> HIDE DEF y
<1>5. EndedIsGone'
  BY <1>2, <1>4, EndedStaysGone
<1>6. reaper' \in {reaper, Idle, Woken} /\ reaper' \in Nat /\ user' \in User /\ sessions' \in [Calls -> Nat]
  BY <1>2, RequestsAre
<1> QED
  BY <1>2, <1>4, <1>5, <1>6, RequestGoesOn

\* The session that was read is written, whether it has been ended since or not.
LEMMA SaveSessionKeeps ==
    ASSUME SessionInv, NEW c \in Calls, SaveSession(c)
    PROVE  SessionInv'
<1> DEFINE x == call[c]
           s == x.session
           y == [x EXCEPT !.at = "authorised", !.read = 0, !.before = {}]
<1>1. x \in Request /\ RequestOK(x) /\ user \in User
  BY RequestsAre
<1>2. /\ x.at = "found" /\ call' = [call EXCEPT ![c] = y]
      /\ sessions' = [sessions EXCEPT ![s] = x.read]
      /\ restored' = IF sessions[s] = Gone THEN restored \cup {s} ELSE restored
      /\ UNCHANGED <<now, user, reaper, ended>>
  BY DEF SaveSession, At
<1>3. s \in Calls /\ s \in {NoSession} \cup Logins /\ x.read \in Nat
  BY <1>1, <1>2 DEF RequestOK, Request
<1>4. s \in Logins
  BY <1>3 DEF NoSession, Calls
<1>5. y \in Request /\ y.session = s /\ y.before = {} /\ y.at = "authorised"
  BY <1>1 DEF Request, Steps
<1> HIDE DEF y
<1>6. sessions' \in [Calls -> Nat] /\ \A b \in Calls \ {s} : sessions'[b] = sessions[b]
  BY <1>2, <1>3, RequestsAre
<1>7. call'[c] = y /\ \A d \in Calls \ {c} : call'[d] = call[d]
  BY <1>2, RequestsAre
<1>8. Logins \subseteq Logins'
  BY <1>2, <1>7 DEF Logins
<1>9. s \in ended => sessions[s] = Gone \/ s \in restored
  BY <1>3 DEF SessionInv, EndedIsGone
<1> HIDE DEF s
<1>10. EndedIsGone'
  <2>1. ended' \subseteq {NoSession} \cup Logins'
    BY <1>2, <1>8 DEF SessionInv, EndedIsGone
  <2>2. ASSUME NEW b \in Calls
        PROVE  /\ sessions'[b] # Gone => b \in Logins'
               /\ b \in ended' \ restored' => sessions'[b] = Gone
    <3>1. CASE b = s
      BY <1>2, <1>4, <1>8, <1>9, <3>1
    <3>2. CASE b # s
      BY <1>2, <1>6, <1>8, <3>2 DEF SessionInv, EndedIsGone
    <3> QED
      BY <3>1, <3>2
  <2> QED
    BY <2>1, <2>2 DEF EndedIsGone
<1>11. reaper' \in {reaper, Idle, Woken} /\ reaper' \in Nat /\ user' \in User
  BY <1>1, <1>2, RequestsAre
<1> QED
  BY <1>2, <1>3, <1>5, <1>6, <1>10, <1>11, RequestGoesOn

\* A login is answered with its session, which no request knew.
LEMMA CreateSessionKeeps ==
    ASSUME SessionInv, NEW c \in Calls, CreateSession(c)
    PROVE  SessionInv'
<1> DEFINE x == call[c]
           y == Reply(x)
<1>1. x \in Request /\ RequestOK(x) /\ user \in User /\ now \in Nat
  BY RequestsAre
<1>2. /\ x.at = "store" /\ call' = [call EXCEPT ![c] = y]
      /\ sessions' = [sessions EXCEPT ![c] = now] /\ Wakes
      /\ UNCHANGED <<now, user, ended, restored>>
  BY DEF CreateSession, At, Answered, Reply
<1>3. y \in Request /\ y.at = "done" /\ y.session = NoSession /\ y.before = {} /\ y.op = x.op
  BY <1>1, ReplyIsARequest
<1>4. x.op = "login"
  BY <1>1, <1>2 DEF RequestOK
<1> HIDE DEF y
<1>5. sessions' \in [Calls -> Nat] /\ \A b \in Calls \ {c} : sessions'[b] = sessions[b]
  BY <1>1, <1>2, RequestsAre
<1>6. call'[c] = y /\ \A d \in Calls \ {c} : call'[d] = call[d]
  BY <1>2, RequestsAre
<1>7. Logins \subseteq Logins' /\ c \in Logins'
  BY <1>3, <1>4, <1>6 DEF Logins
<1>8. c \notin ended
  <2>1. c \notin Logins /\ c # NoSession
    BY <1>2 DEF Logins, Calls, NoSession
  <2> QED
    BY <2>1 DEF SessionInv, EndedIsGone
<1>9. EndedIsGone'
  <2>1. ended' \subseteq {NoSession} \cup Logins'
    BY <1>2, <1>7 DEF SessionInv, EndedIsGone
  <2>2. ASSUME NEW b \in Calls
        PROVE  /\ sessions'[b] # Gone => b \in Logins'
               /\ b \in ended' \ restored' => sessions'[b] = Gone
    <3>1. CASE b = c
      BY <1>2, <1>7, <1>8, <3>1
    <3>2. CASE b # c
      BY <1>2, <1>5, <1>7, <3>2 DEF SessionInv, EndedIsGone
    <3> QED
      BY <3>1, <3>2
  <2> QED
    BY <2>1, <2>2 DEF EndedIsGone
<1>10. reaper' \in {reaper, Idle, Woken} /\ reaper' \in Nat
  BY <1>2, WakesIsTyped
<1> QED
  BY <1>1, <1>2, <1>3, <1>4, <1>5, <1>9, <1>10, RequestGoesOn

\* The sessions e are ended, and their rows are gone, with a request c that goes on as y.
LEMMA EndingKeeps ==
    ASSUME SessionInv, NEW c \in Calls, NEW y \in Request, call' = [call EXCEPT ![c] = y],
           call[c].at # "done",
           y.session \in {NoSession} \cup Logins, y.before \subseteq ended,
           y.at \notin {"store", "found"}, NEW e, e \subseteq {NoSession} \cup Logins,
           \A s \in Calls : s \in e => sessions'[s] = Gone,
           \A s \in Calls : sessions'[s] \in {sessions[s], Gone},
           sessions' \in [Calls -> Nat], ended' = ended \cup e,
           reaper' \in {reaper, Idle, Woken}, reaper' \in Nat, UNCHANGED <<now, user, restored>>
    PROVE  SessionInv'
<1>1. call'[c] = y /\ \A d \in Calls \ {c} : call'[d] = call[d]
  BY RequestsAre
<1>2. Logins \subseteq Logins'
  BY <1>1 DEF Logins
<1>3. EndedIsGone'
  BY <1>2 DEF SessionInv, EndedIsGone
<1> QED
  BY <1>3, RequestsAre, RequestGoesOn

LEMMA DestroyKeeps ==
    ASSUME SessionInv, NEW c \in Calls, Destroy(c)
    PROVE  SessionInv'
<1> DEFINE x == call[c]
           y == Reply(x)
           e == {x.session}
<1>1. x \in Request /\ RequestOK(x)
  BY RequestsAre
<1>2. /\ x.at = "authorised" /\ call' = [call EXCEPT ![c] = y]
      /\ sessions' = [sessions EXCEPT ![x.session] = Gone] /\ ended' = ended \cup e /\ Wakes
      /\ UNCHANGED <<now, user, restored>>
  BY DEF Destroy, At, Answered, Reply
<1>3. y \in Request /\ y.at = "done" /\ y.session = NoSession /\ y.before = {}
  BY <1>1, ReplyIsARequest
<1>4. e \subseteq {NoSession} \cup Logins
  BY <1>1 DEF RequestOK
<1>5. /\ \A s \in Calls : s \in e => sessions'[s] = Gone
      /\ \A s \in Calls : sessions'[s] \in {sessions[s], Gone}
      /\ sessions' \in [Calls -> Nat]
  BY <1>2, RequestsAre DEF Gone
<1>6. reaper' \in {reaper, Idle, Woken} /\ reaper' \in Nat
  BY <1>2, WakesIsTyped
<1> HIDE DEF y, e
<1> QED
  BY <1>2, <1>3, <1>4, <1>5, <1>6, EndingKeeps

LEMMA ClearKeeps ==
    ASSUME SessionInv, NEW c \in Calls, ClearNonCurrentSessions(c)
    PROVE  SessionInv'
<1> DEFINE x == call[c]
           y == [x EXCEPT !.at = "write"]
           e == {s \in Calls \ {x.session} : sessions[s] # Gone}
<1>1. x \in Request /\ RequestOK(x)
  BY RequestsAre
<1>2. /\ x.at = "clear" /\ call' = [call EXCEPT ![c] = y]
      /\ sessions' = [s \in Calls |-> IF s = x.session THEN sessions[s] ELSE Gone]
      /\ ended' = ended \cup e
      /\ UNCHANGED <<now, user, reaper, restored>>
  BY DEF ClearNonCurrentSessions, At, To
<1>3. y \in Request /\ y.at = "write" /\ y.session = x.session /\ y.before = x.before
  BY <1>1 DEF Request, Steps
<1>4. e \subseteq Logins
  BY DEF SessionInv, EndedIsGone
<1>5. /\ \A s \in Calls : s \in e => sessions'[s] = Gone
      /\ \A s \in Calls : sessions'[s] \in {sessions[s], Gone}
      /\ sessions' \in [Calls -> Nat]
  BY <1>2, RequestsAre DEF Gone
<1>6. y.session \in {NoSession} \cup Logins /\ y.before \subseteq ended
  BY <1>1, <1>3 DEF RequestOK
<1>7. reaper' \in {reaper, Idle, Woken} /\ reaper' \in Nat
  BY <1>2, RequestsAre
<1> HIDE DEF y, e
<1> QED
  BY <1>2, <1>3, <1>4, <1>5, <1>6, <1>7, EndingKeeps

\* The steps of the clock and of the reaper leave the requests alone.
LEMMA ReaperKeeps ==
    ASSUME SessionInv, TimePasses \/ Work \/ DeleteStaleSessions
    PROVE  SessionInv'
<1>1. call' = call /\ restored' = restored /\ user' = user /\ Logins' = Logins /\ ended \subseteq ended'
  BY DEF TimePasses, Work, DeleteStaleSessions, Logins
<1>2. \A c \in Calls : RequestOK(call[c])'
  BY <1>1 DEF SessionInv, RequestOK
<1>3. now \in Nat /\ Timeout \in Nat /\ Expiration \in Nat /\ reaper \in Nat /\ Timeout + Expiration < now
  BY SessionsAssumption, RequestsAre DEF SessionInv, ReaperIsLate
<1>4. SessionsTypeOK'
  <2>1. now' \in Nat /\ reaper' \in Nat
    BY <1>3 DEF TimePasses, Work, DeleteStaleSessions, Idle
  <2>2. sessions' \in [Calls -> Nat]
    BY RequestsAre DEF TimePasses, Work, DeleteStaleSessions, Gone
  <2> QED
    BY <1>1, <2>1, <2>2 DEF SessionInv, SessionsTypeOK
<1>5. EndedIsGone'
  <2>1. CASE TimePasses \/ Work
    <3>1. sessions' = sessions /\ ended' = ended
      BY <2>1 DEF TimePasses, Work
    <3> QED
      BY <1>1, <3>1 DEF SessionInv, EndedIsGone
  <2>2. CASE DeleteStaleSessions
    <3>1. /\ ended' = ended \cup Stale
          /\ \A s \in Calls : sessions'[s] = IF s \in Stale THEN Gone ELSE sessions[s]
      BY <2>2 DEF DeleteStaleSessions
    <3>2. Stale \subseteq Logins
      BY DEF Stale, SessionInv, EndedIsGone
    <3> QED
      BY <1>1, <3>1, <3>2 DEF SessionInv, EndedIsGone
  <2> QED
    BY <2>1, <2>2
<1>6. ReaperIsLate'
  <2>1. CASE TimePasses
    BY <1>3, <2>1 DEF TimePasses, SessionInv, ReaperIsLate
  <2>2. CASE Work
    BY <1>3, <2>2 DEF Work, ReaperIsLate
  <2>3. CASE DeleteStaleSessions
    BY <1>3, <2>3 DEF DeleteStaleSessions, ReaperIsLate
  <2> QED
    BY <2>1, <2>2, <2>3
<1> QED
  BY <1>2, <1>4, <1>5, <1>6 DEF SessionInv

LEMMA SessionInvNext ==
    ASSUME SessionInv, [SessionsNext]_sessionVars
    PROVE  SessionInv'
<1>1. \A o \in Ops : Known(o) \subseteq Nat
  BY DEF Known, Calls
<1>2. Known("login") = {NoSession} \cup Logins
  BY DEF Known, Logins, NoSession
<1>3. NoSession \in {NoSession} \cup Logins /\ NoToken \in Nat /\ "login" \in Ops /\ "changeToken" \in Ops
  BY DEF NoToken, Ops
<1>4. CASE TimePasses \/ Work \/ DeleteStaleSessions
  BY <1>4, ReaperKeeps
<1>5. ASSUME NEW c \in Calls, NEW p \in Passwords, Begin(c, "login", NoSession, NoToken, p)
      PROVE  SessionInv'
  BY <1>3, <1>5, BeginKeeps
<1>6. ASSUME NEW c \in Calls, NEW op \in Ops, NEW p \in Passwords,
             NEW s \in Known("login"), Begin(c, op, s, NoToken, p)
      PROVE  SessionInv'
  BY <1>2, <1>3, <1>6, BeginKeeps
<1>7. ASSUME NEW c \in Calls, NEW op \in Ops, NEW p \in Passwords,
             NEW t \in Known("changeToken"), Begin(c, op, NoSession, t, p)
      PROVE  SessionInv'
  <2>1. t \in Nat
    BY <1>1, <1>3
  <2> QED
    BY <1>3, <1>7, <2>1, BeginKeeps
<1>8. ASSUME NEW c \in Calls,
             \/ AuthenticateByToken(c) \/ FindSession(c) \/ CheckLogin(c) \/ Use(c)
             \/ ReadUser(c) \/ SaveUser(c)
      PROVE  SessionInv'
  BY <1>8, QuietRequestKeeps
<1>9. ASSUME NEW c \in Calls, SaveSession(c) \/ CreateSession(c) \/ Destroy(c) \/ ClearNonCurrentSessions(c)
      PROVE  SessionInv'
  BY <1>9, SaveSessionKeeps, CreateSessionKeeps, DestroyKeeps, ClearKeeps
<1>10. CASE UNCHANGED sessionVars
  BY <1>10 DEF sessionVars, SessionInv, SessionsTypeOK, RequestOK, EndedIsGone, Logins, ReaperIsLate
<1> QED
  BY <1>4, <1>5, <1>6, <1>7, <1>8, <1>9, <1>10 DEF SessionsNext

LEMMA SessionsAreInvariant ==
    SessionsSpec => []SessionInv
<1>1. SessionsInit => SessionInv
  BY SessionInvInit
<1>2. SessionInv /\ [SessionsNext]_sessionVars => SessionInv'
  BY SessionInvNext
<1> QED
  BY <1>1, <1>2, PTL DEF SessionsSpec

\* For any number of requests, whatever the order of their queries: a session that was
\* ended is found for no request that began later, but for one that was written back.
LEMMA EndedSessionsAreRefused ==
    SessionsSpec => []EndedSessionIsRefused
<1>1. SessionInv => EndedSessionIsRefused
  BY DEF SessionInv, RequestOK, EndedSessionIsRefused, At
<1> QED
  BY <1>1, SessionsAreInvariant, PTL

\* The reaper removes only what has expired, for any times and whatever requests use or
\* write back meanwhile.
LEMMA ReaperSparesTheLiving ==
    SessionsSpec => ReapedIsExpired
<1> DEFINE A == reaper \notin {Idle, Woken} /\ reaper' = Idle =>
                   \A s \in Calls : sessions[s] # Gone /\ sessions'[s] = Gone => ~Alive(s)
<1>1. ASSUME SessionInv, SessionsNext
      PROVE  A
  <2>1. SUFFICES ASSUME reaper \notin {Idle, Woken}, reaper' = Idle
                 PROVE  \A s \in Calls : sessions[s] # Gone /\ sessions'[s] = Gone => ~Alive(s)
    OBVIOUS
  <2>2. reaper' # reaper /\ ~Wakes
    BY <2>1 DEF Wakes
  <2>3. ~Work
    BY <2>1 DEF Work
  <2>4. ASSUME NEW c \in Calls
        PROVE  ~(\/ AuthenticateByToken(c) \/ FindSession(c) \/ SaveSession(c) \/ CheckLogin(c)
                 \/ CreateSession(c) \/ Use(c) \/ Destroy(c) \/ ReadUser(c)
                 \/ ClearNonCurrentSessions(c) \/ SaveUser(c))
    <3>1. ~(AuthenticateByToken(c) \/ FindSession(c) \/ SaveSession(c) \/ Use(c))
      BY <2>2 DEF AuthenticateByToken, FindSession, SaveSession, Use
    <3>2. ~(CheckLogin(c) \/ CreateSession(c) \/ Destroy(c))
      BY <2>2 DEF CheckLogin, CreateSession, Destroy
    <3>3. ~(ReadUser(c) \/ ClearNonCurrentSessions(c) \/ SaveUser(c))
      BY <2>2 DEF ReadUser, ClearNonCurrentSessions, SaveUser
    <3> QED
      BY <3>1, <3>2, <3>3
  <2>5. \A c, op, s, t, p : ~Begin(c, op, s, t, p)
    BY <2>2 DEF Begin
  <2>6. DeleteStaleSessions
    BY <1>1, <2>2, <2>3, <2>4, <2>5 DEF SessionsNext, TimePasses
  <2>7. TAKE s \in Calls
  <2>8. HAVE sessions[s] # Gone /\ sessions'[s] = Gone
  <2>9. sessions[s] < reaper
    BY <2>6, <2>8 DEF DeleteStaleSessions, Stale
  <2>10. reaper + Timeout + Expiration <= now
    BY <1>1, <2>1 DEF SessionInv, ReaperIsLate
  <2>11. /\ sessions[s] \in Nat /\ reaper \in Nat /\ now \in Nat
        /\ Timeout \in Nat /\ Expiration \in Nat
    BY SessionsAssumption, <1>1, RequestsAre
  <2> QED
    BY <2>9, <2>10, <2>11 DEF Alive
<1>2. SessionInv /\ [SessionsNext]_sessionVars => [A]_sessionVars
  BY <1>1
<1> QED
  BY <1>2, SessionsAreInvariant, PTL DEF SessionsSpec, ReapedIsExpired

\* Sessions end when a user or the reaper ends them, though requests write back what they
\* have read, and not before they expire: for any number of requests and any times.
THEOREM SessionsEnd == SessionsSpec => SessionsEndInTime
BY EndedSessionsAreRefused, ReaperSparesTheLiving, PTL DEF SessionsEndInTime

----------------------------------------------------------------------------
(* VRFKeyStore.                                                             *)

\* An encrypted key that gives back the key it is stored under.
Encrypts(e, k) == e.PublicKey = k /\ publicKey(e.VRFKey.k) = k

\* Every key unlocked has its row, and a node has unlocked every row, whatever commands
\* and imports the rows come from.
KeysAgree ==
    /\ vrfFaults \in Nat
    /\ \A k \in DOMAIN vrfRows : Encrypts(vrfRows[k], k)
    /\ \A p \in DOMAIN keyFiles : Encrypts(keyFiles[p], keyFiles[p].PublicKey)
    /\ vrfProcess \in {"off", "asleep"} => DOMAIN vrfMemory = {}
    /\ ProvingKeyIsStored
    /\ NodeProvesWithAll
    /\ \A k \in backedUp : \E p \in DOMAIN keyFiles : keyFiles[p].PublicKey = k

LEMMA WithHas ==
    ASSUME NEW f, NEW k, NEW v
    PROVE  /\ DOMAIN With(f, k, v) = DOMAIN f \cup {k}
           /\ With(f, k, v)[k] = v
           /\ \A x \in DOMAIN f \ {k} : With(f, k, v)[x] = f[x]
BY DEF With

LEMMA WithoutHas ==
    ASSUME NEW f, NEW k
    PROVE  /\ DOMAIN Without(f, k) = DOMAIN f \ {k}
           /\ \A x \in DOMAIN f \ {k} : Without(f, k)[x] = f[x]
BY DEF Without

LEMMA EncryptEncrypts ==
    ASSUME NEW k, NEW password
    PROVE  /\ newPrivateKey(k).k = k /\ newPrivateKey(k).PublicKey = publicKey(k)
           /\ Encrypt(newPrivateKey(k), password).PublicKey = publicKey(k)
           /\ Encrypts(Encrypt(newPrivateKey(k), password), publicKey(k))
BY DEF newPrivateKey, Encrypt, Encrypts

LEMMA KeysAgreeInit == VRFKeysInit => KeysAgree
BY DEF VRFKeysInit, KeysAgree, NoKeys, ProvingKeyIsStored, NodeProvesWithAll

\* A row e for the key k, if it had none, and its secret in memory.
LEMMA RowIsAdded ==
    ASSUME KeysAgree, NEW e, NEW k, NEW key, Encrypts(e, k), key.PublicKey = k,
           FirstOrCreateEncryptedSecretVRFKey(e), Remember(key)
    PROVE  /\ DOMAIN vrfRows' = DOMAIN vrfRows \cup {k}
           /\ \A x \in DOMAIN vrfRows' : Encrypts(vrfRows'[x], x)
           /\ DOMAIN vrfMemory' = DOMAIN vrfMemory \cup {k}
<1>1. e.PublicKey = k
  BY DEF Encrypts
<1>2. DOMAIN vrfMemory' = DOMAIN vrfMemory \cup {k}
  BY WithHas DEF Remember
<1>3. CASE k \in DOMAIN vrfRows
  <2>1. vrfRows' = vrfRows
    BY <1>1, <1>3 DEF FirstOrCreateEncryptedSecretVRFKey
  <2> QED
    BY <1>2, <1>3, <2>1 DEF KeysAgree
<1>4. CASE k \notin DOMAIN vrfRows
  <2>1. vrfRows' = With(vrfRows, k, e)
    BY <1>1, <1>4 DEF FirstOrCreateEncryptedSecretVRFKey
  <2>2. DOMAIN vrfRows' = DOMAIN vrfRows \cup {k} /\ vrfRows'[k] = e
    BY <2>1 DEF With
  <2>3. \A x \in DOMAIN vrfRows : vrfRows'[x] = vrfRows[x]
    BY <1>4, <2>1 DEF With
  <2> QED
    BY <1>2, <2>2, <2>3 DEF KeysAgree
<1> QED
  BY <1>3, <1>4

LEMMA StoreAdds ==
    ASSUME KeysAgree, NEW k, NEW phrase, Store(newPrivateKey(k), phrase)
    PROVE  /\ vrfFaults' \in Nat
           /\ \A x \in DOMAIN vrfRows' : Encrypts(vrfRows'[x], x)
           /\ \/ /\ vrfFaults' = vrfFaults
                 /\ DOMAIN vrfRows' = DOMAIN vrfRows \cup {publicKey(k)}
                 /\ DOMAIN vrfMemory' = DOMAIN vrfMemory \cup {publicKey(k)}
              \/ vrfFaults' # vrfFaults /\ vrfRows' = vrfRows /\ vrfMemory' = vrfMemory
<1> DEFINE key == newPrivateKey(k)
           e == Encrypt(key, phrase)
<1>1. key.PublicKey = publicKey(k) /\ Encrypts(e, publicKey(k))
  BY EncryptEncrypts
<1>2. vrfFaults \in Nat
  BY DEF KeysAgree
<1>3. CASE FirstOrCreateEncryptedSecretVRFKey(e) /\ Remember(key) /\ vrfFaults' = vrfFaults
  <2> HIDE DEF e, key
  <2> QED
    BY <1>1, <1>2, <1>3, RowIsAdded
<1>4. CASE VRFFails /\ UNCHANGED <<vrfRows, vrfMemory>>
  BY <1>2, <1>4 DEF VRFFails, KeysAgree
<1> QED
  BY <1>3, <1>4 DEF Store

LEMMA KeysAgreeNext == KeysAgree /\ [VRFKeysNext]_vrfKeyVars => KeysAgree'
<1> SUFFICES ASSUME KeysAgree, [VRFKeysNext]_vrfKeyVars
             PROVE  KeysAgree'
  OBVIOUS
<1> DEFINE Files == /\ \A p \in DOMAIN keyFiles : Encrypts(keyFiles[p], keyFiles[p].PublicKey)
                    /\ \A k \in backedUp : \E p \in DOMAIN keyFiles : keyFiles[p].PublicKey = k
           Rows == \A k \in DOMAIN vrfRows : Encrypts(vrfRows[k], k)
           Agree == /\ vrfProcess \in {"off", "asleep"} => DOMAIN vrfMemory = {}
                    /\ DOMAIN vrfMemory \subseteq DOMAIN vrfRows
                    /\ vrfProcess = "node" => DOMAIN vrfRows \subseteq DOMAIN vrfMemory
<1>1. Files /\ Rows /\ Agree /\ vrfFaults \in Nat
  BY DEF KeysAgree, ProvingKeyIsStored, NodeProvesWithAll, CanProve
<1>2. SUFFICES Files' /\ Rows' /\ Agree' /\ vrfFaults' \in Nat
  BY DEF KeysAgree, ProvingKeyIsStored, NodeProvesWithAll, CanProve
<1>3. DOMAIN NoKeys = {}
  BY DEF NoKeys
<1>4. (UNCHANGED <<keyFiles, backedUp>>) => Files'
  BY <1>1
<1>5. ASSUME NEW path, NEW e, Encrypts(e, e.PublicKey), path \notin DOMAIN keyFiles,
             keyFiles' = With(keyFiles, path, e), backedUp' = backedUp \cup {e.PublicKey}
      PROVE  Files'
  <2>1. /\ DOMAIN keyFiles' = DOMAIN keyFiles \cup {path} /\ keyFiles'[path] = e
        /\ \A p \in DOMAIN keyFiles : keyFiles'[p] = keyFiles[p]
    BY <1>5 DEF With
  <2> QED
    BY <1>1, <1>5, <2>1
<1>6. CASE StartCommands \/ StartNodeWithoutVRF
  BY <1>1, <1>4, <1>6 DEF StartCommands, StartNodeWithoutVRF
<1>7. CASE AuthenticateVRFKey
  <2>1. /\ vrfProcess = "off" /\ UNCHANGED <<keyFiles, backedUp>>
        /\ vrfProcess' = IF vrfFaults' = vrfFaults THEN "node" ELSE "off"
    BY <1>7 DEF AuthenticateVRFKey
  <2>2. CASE \E phrase \in Phrases, k \in Fresh :
                DOMAIN vrfRows = {} /\ Store(newPrivateKey(k), phrase)
    BY <1>1, <1>4, <2>1, <2>2, StoreAdds
  <2>3. CASE \E phrase \in Phrases :
                /\ Unlocked(phrase) = DOMAIN vrfRows
                /\ vrfMemory' = [k \in Unlocked(phrase) |-> Decrypt(vrfRows[k]).k]
                /\ UNCHANGED <<vrfRows, vrfFaults>>
    <3>1. DOMAIN vrfMemory' = DOMAIN vrfRows
      BY <2>3
    <3> QED
      BY <1>1, <1>4, <2>1, <2>3, <3>1
  <2> QED
    BY <1>7, <2>2, <2>3 DEF AuthenticateVRFKey
<1>8. CASE StopProcess
  BY <1>1, <1>3, <1>4, <1>8 DEF StopProcess
<1>9. CASE RemoveKeyFile
  <2>1. PICK p \in DOMAIN keyFiles :
            /\ keyFiles' = Without(keyFiles, p)
            /\ backedUp' = backedUp \ {keyFiles[p].PublicKey}
    BY <1>9 DEF RemoveKeyFile
  <2>2. /\ DOMAIN keyFiles' = DOMAIN keyFiles \ {p}
        /\ \A q \in DOMAIN keyFiles \ {p} : keyFiles'[q] = keyFiles[q]
    BY <2>1 DEF Without
  <2>3. Files'
    <3>1. \A q \in DOMAIN keyFiles' : Encrypts(keyFiles'[q], keyFiles'[q].PublicKey)
      BY <1>1, <2>2
    <3>2. ASSUME NEW k \in backedUp'
          PROVE  \E q \in DOMAIN keyFiles' : keyFiles'[q].PublicKey = k
      <4>1. PICK q \in DOMAIN keyFiles : keyFiles[q].PublicKey = k
        BY <1>1, <2>1
      <4>2. q # p
        BY <2>1, <4>1
      <4> QED
        BY <2>2, <4>1, <4>2
    <3> QED
      BY <3>1, <3>2
  <2>4. UNCHANGED <<vrfProcess, vrfRows, vrfMemory>> /\ vrfFaults' \in Nat
    BY <1>1, <1>9 DEF RemoveKeyFile, VRFFails
  <2> QED
    BY <1>1, <2>4, <2>3
<1>10. CASE CreateVRFKey
  <2>1. vrfProcess = "commands" /\ UNCHANGED <<vrfProcess, keyFiles, backedUp>>
    BY <1>10 DEF CreateVRFKey
  <2> QED
    BY <1>1, <1>4, <1>10, <2>1, StoreAdds DEF CreateVRFKey
<1>11. CASE CreateAndExportWeakVRFKey
  <2>1. UNCHANGED <<vrfProcess, vrfRows, vrfMemory, vrfFaults>>
    BY <1>11 DEF CreateAndExportWeakVRFKey
  <2>2. Files'
    BY <1>5, <1>11, EncryptEncrypts DEF CreateAndExportWeakVRFKey, noFileToOverwrite
  <2> QED
    BY <1>1, <2>1, <2>2
<1>12. CASE ExportVRFKey
  <2>1. UNCHANGED <<vrfProcess, vrfRows, vrfMemory, vrfFaults>>
    BY <1>12 DEF ExportVRFKey
  <2>2. PICK k \in DOMAIN vrfRows, path \in Paths :
            /\ path \notin DOMAIN keyFiles
            /\ keyFiles' = With(keyFiles, path, vrfRows[k]) /\ backedUp' = backedUp \cup {k}
    BY <1>12 DEF ExportVRFKey, noFileToOverwrite
  <2>3. Encrypts(vrfRows[k], k) /\ vrfRows[k].PublicKey = k
    BY <1>1 DEF Encrypts
  <2>4. Files'
    BY <1>5, <2>2, <2>3
  <2> QED
    BY <1>1, <2>1, <2>4
<1>13. CASE ImportVRFKey
  <2>1. vrfProcess = "commands" /\ UNCHANGED <<keyFiles, backedUp>>
    BY <1>13 DEF ImportVRFKey
  <2>2. PICK path \in DOMAIN keyFiles, password \in Phrases : Import(keyFiles[path], password)
    BY <1>13 DEF ImportVRFKey
  <2> DEFINE e == keyFiles[path]
             key == Decrypt(e)
  <2>3. Encrypts(e, e.PublicKey)
    BY <1>1
  <2>4. key.PublicKey = e.PublicKey
    BY <2>3 DEF Encrypts, Decrypt, fromGethKey, newPrivateKey
  <2>5. CASE UNCHANGED <<vrfProcess, vrfRows, vrfMemory, vrfFaults>>
    BY <1>1, <1>4, <2>1, <2>5
  <2>6. CASE /\ FirstOrCreateEncryptedSecretVRFKey(e) /\ Remember(key)
             /\ UNCHANGED <<vrfFaults, vrfProcess>>
    <3> HIDE DEF e, key
    <3>1. /\ DOMAIN vrfRows' = DOMAIN vrfRows \cup {e.PublicKey} /\ Rows'
          /\ DOMAIN vrfMemory' = DOMAIN vrfMemory \cup {e.PublicKey}
      BY <2>3, <2>4, <2>6, RowIsAdded
    <3> QED
      BY <1>1, <1>4, <2>1, <2>6, <3>1
  <2>7. CASE VRFFails /\ UNCHANGED <<vrfProcess, vrfRows, vrfMemory>>
    BY <1>1, <1>4, <2>1, <2>7 DEF VRFFails
  <2>8. CASE vrfProcess' = "off" /\ vrfMemory' = NoKeys /\ UNCHANGED <<vrfRows, vrfFaults>>
    BY <1>1, <1>3, <1>4, <2>1, <2>8
  <2> QED
    BY <2>2, <2>5, <2>6, <2>7, <2>8 DEF Import
<1>14. CASE DeleteVRFKey
  <2>1. vrfProcess = "commands" /\ UNCHANGED <<vrfProcess, keyFiles, backedUp>>
    BY <1>14 DEF DeleteVRFKey
  <2>2. PICK k \in DOMAIN vrfRows : Delete(k)
    BY <1>14 DEF DeleteVRFKey
  <2>3. DOMAIN vrfMemory' = DOMAIN vrfMemory \ {k}
    BY <2>2, WithoutHas DEF Delete
  <2>4. CASE vrfRows' = Without(vrfRows, k) /\ UNCHANGED vrfFaults
    <3>1. /\ DOMAIN vrfRows' = DOMAIN vrfRows \ {k}
          /\ \A x \in DOMAIN vrfRows' : vrfRows'[x] = vrfRows[x]
      BY <2>4, WithoutHas
    <3> QED
      BY <1>1, <1>4, <2>1, <2>3, <2>4, <3>1
  <2>5. CASE VRFFails /\ UNCHANGED vrfRows
    BY <1>1, <1>4, <2>1, <2>3, <2>5 DEF VRFFails
  <2> QED
    BY <2>2, <2>4, <2>5 DEF Delete
<1>15. CASE UNCHANGED vrfKeyVars
  BY <1>1, <1>4, <1>15 DEF vrfKeyVars
<1> QED
  BY <1>6, <1>7, <1>8, <1>9, <1>10, <1>11, <1>12, <1>13, <1>14, <1>15 DEF VRFKeysNext

\* However keys come to the database and go, and whatever fails on the way: a key that
\* proves randomness is stored, a node proves with all that is stored, and a key that was
\* exported is kept.
LEMMA RandomnessKeysAgree ==
    VRFKeysSpec => [](ProvingKeyIsStored /\ NodeProvesWithAll /\ ExportedKeyIsKept)
<1>1. KeysAgree => ProvingKeyIsStored /\ NodeProvesWithAll /\ ExportedKeyIsKept
  BY DEF KeysAgree, ExportedKeyIsKept
<1> QED
  BY KeysAgreeInit, KeysAgreeNext, <1>1, PTL DEF VRFKeysSpec

\* Whatever fails, and whenever the process ends: what the node has reported of its
\* accounts is kept, and its keys for randomness agree.
THEOREM NodeKeepsItsKeys == KeysSpec /\ VRFKeysSpec => []KeysAreKept
BY ReportedAccountsAreKept, RandomnessKeysAgree, PTL DEF KeysAreKept

----------------------------------------------------------------------------
(* LogEvents.                                                               *)

\* The words of two sequences, one after the other.
LEMMA Words ==
    ASSUME NEW s \in Seq(Int), NEW t \in Seq(Int)
    PROVE  /\ s \o t \in Seq(Int)
           /\ Len(s \o t) = Len(s) + Len(t)
           /\ \A i \in 1 .. Len(s) : (s \o t)[i] = s[i]
           /\ \A j \in 1 .. Len(t) : (s \o t)[Len(s) + j] = t[j]
<1>1. /\ s \o t \in Seq(Int)
      /\ Len(s \o t) = Len(s) + Len(t)
      /\ \A i \in 1 .. Len(s) + Len(t) :
            (s \o t)[i] = IF i <= Len(s) THEN s[i] ELSE t[i - Len(s)]
  BY ConcatProperties
<1>2. Len(s) \in Nat /\ Len(t) \in Nat
  OBVIOUS
<1>3. \A i \in 1 .. Len(s) : (s \o t)[i] = s[i]
  BY <1>1, <1>2
<1>4. ASSUME NEW j \in 1 .. Len(t)
      PROVE  (s \o t)[Len(s) + j] = t[j]
  <2>1. Len(s) + j \in 1 .. Len(s) + Len(t) /\ ~(Len(s) + j <= Len(s)) /\ Len(s) + j - Len(s) = j
    BY <1>2
  <2> QED
    BY <1>1, <2>1
<1> QED
  BY <1>1, <1>3, <1>4

\* A part of a sequence, and the whole of it.
LEMMA PartOfWords ==
    ASSUME NEW s \in Seq(Int), NEW m \in 1 .. Len(s) + 1, NEW n \in m - 1 .. Len(s)
    PROVE  /\ SubSeq(s, m, n) \in Seq(Int)
           /\ Len(SubSeq(s, m, n)) = n - m + 1
           /\ \A j \in 1 .. n - m + 1 : SubSeq(s, m, n)[j] = s[m + j - 1]
<1>1. Len(s) \in Nat /\ m \in Int /\ n \in Int
  OBVIOUS
<1>2. \A i \in m .. n : s[i] \in Int
  BY <1>1
<1>3. IF m <= n THEN n - m + 1 = n - m + 1 ELSE 0 = n - m + 1
  BY <1>1
<1>4. /\ SubSeq(s, m, n) \in Seq(Int)
      /\ Len(SubSeq(s, m, n)) = IF m <= n THEN n - m + 1 ELSE 0
      /\ \A j \in 1 .. n - m + 1 : SubSeq(s, m, n)[j] = s[m + j - 1]
  BY <1>1, <1>2, SubSeqProperties
<1> QED
  BY <1>3, <1>4

\* The payload with its length before it.
LEMMA PayloadWords ==
    ASSUME NEW p \in Seq(Int)
    PROVE  /\ <<Len(p)>> \o p \in Seq(Int)
           /\ Len(<<Len(p)>> \o p) = 1 + Len(p)
           /\ (<<Len(p)>> \o p)[1] = Len(p)
           /\ \A j \in 1 .. Len(p) : (<<Len(p)>> \o p)[1 + j] = p[j]
<1> DEFINE l == <<Len(p)>>
<1>1. l \in Seq(Int) /\ Len(l) = 1 /\ l[1] = Len(p)
  OBVIOUS
<1> HIDE DEF l
<1>2. /\ l \o p \in Seq(Int)
      /\ Len(l \o p) = Len(l) + Len(p)
      /\ \A i \in 1 .. Len(l) : (l \o p)[i] = l[i]
      /\ \A j \in 1 .. Len(p) : (l \o p)[Len(l) + j] = p[j]
  BY <1>1, Words
<1>3. /\ l \o p \in Seq(Int)
      /\ Len(l \o p) = 1 + Len(p)
      /\ (l \o p)[1] = Len(p)
      /\ \A j \in 1 .. Len(p) : (l \o p)[1 + j] = p[j]
  BY <1>1, <1>2
<1> QED
  BY <1>3 DEF l

\* The sequence d has p after its first m words.
Holds(d, m, p) == m + Len(p) <= Len(d) /\ \A j \in 1 .. Len(p) : d[m + j] = p[j]

\* The data of each version.
LEMMA OldData ==
    ASSUME NEW r \in Asked, NEW id \in Int, NEW x \in Int, NEW v, v = 1 \/ v = 4
    PROVE  LET d == Data(v, id, r, x) IN
           /\ d \in Seq(Int)
           /\ Len(d) = 4 + Len(r.payload)
           /\ d[1] = id
           /\ Holds(d, 4, r.payload)
<1> DEFINE h == <<id, 1, 7>>
           p == <<Len(r.payload)>> \o r.payload
           n == Len(r.payload)
<1>1. Data(v, id, r, x) = h \o p
  BY DEF Data, RunLogTopic0original, ServiceAgreementExecutionLogTopic
<1>2. h \in Seq(Int) /\ Len(h) = 3 /\ h[1] = id
  OBVIOUS
<1>3. /\ p \in Seq(Int) /\ Len(p) = 1 + n /\ n \in Nat
      /\ \A j \in 1 .. n : p[1 + j] = r.payload[j]
  BY LogEventsAssumption, PayloadWords
<1> HIDE DEF h, p, n
<1>4. /\ h \o p \in Seq(Int)
      /\ Len(h \o p) = Len(h) + Len(p)
      /\ \A i \in 1 .. Len(h) : (h \o p)[i] = h[i]
      /\ \A j \in 1 .. Len(p) : (h \o p)[Len(h) + j] = p[j]
  BY <1>2, <1>3, Words
<1>5. (h \o p)[1] = id /\ Len(h \o p) = 4 + n
  BY <1>2, <1>3, <1>4
<1>6. ASSUME NEW j \in 1 .. n
      PROVE  (h \o p)[4 + j] = r.payload[j]
  <2>1. 1 + j \in 1 .. Len(p) /\ Len(h) + (1 + j) = 4 + j
    <3>1. Len(h) = 3 /\ Len(p) = 1 + n /\ n \in Nat
      BY <1>2, <1>3
    <3> QED
      BY <3>1
  <2>2. (h \o p)[Len(h) + (1 + j)] = p[1 + j]
    BY <1>4, <2>1
  <2> QED
    BY <1>3, <2>1, <2>2
<1>7. 4 + n <= Len(h \o p)
  BY <1>3, <1>5
<1>8. Holds(h \o p, 4, r.payload)
  BY <1>6, <1>7, Zenon DEF Holds, n
<1> QED
  BY <1>1, <1>4, <1>5, <1>8 DEF n

LEMMA ParamsData ==
    ASSUME NEW r \in Asked, NEW id \in Int, NEW x \in Int, NEW v, v = 2
    PROVE  LET d == Data(v, id, r, x) IN
           /\ d \in Seq(Int)
           /\ Len(d) = 7 + Len(r.payload)
           /\ d[1] = id /\ d[3] = r.callback[1] /\ d[4] = r.callback[2] /\ d[5] = x
           /\ Holds(d, 7, r.payload)
<1> DEFINE h == <<id, 1>>
           c == r.callback
           t == <<x, 7>>
           p == <<Len(r.payload)>> \o r.payload
           n == Len(r.payload)
<1>1. Data(v, id, r, x) = h \o c \o t \o p
  <2>1. /\ v \notin {RunLogTopic0original, ServiceAgreementExecutionLogTopic}
        /\ v = RunLogTopic20190123withFullfillmentParams
    BY DEF RunLogTopic0original, ServiceAgreementExecutionLogTopic,
           RunLogTopic20190123withFullfillmentParams
  <2> QED
    BY <2>1, Zenon DEF Data
<1>2. /\ h \in Seq(Int) /\ Len(h) = 2 /\ h[1] = id
      /\ t \in Seq(Int) /\ Len(t) = 2 /\ t[1] = x
  OBVIOUS
<1>3. c \in Seq(Int) /\ Len(c) = 2
  BY LogEventsAssumption
<1>4. /\ p \in Seq(Int) /\ Len(p) = 1 + n /\ n \in Nat
      /\ \A j \in 1 .. n : p[1 + j] = r.payload[j]
  BY LogEventsAssumption, PayloadWords
<1> HIDE DEF h, c, t, p, n
<1> DEFINE a == h \o c
<1>5. a \in Seq(Int) /\ Len(a) = 4 /\ a[1] = id /\ a[3] = c[1] /\ a[4] = c[2]
  <2>1. /\ a \in Seq(Int)
        /\ Len(a) = Len(h) + Len(c)
        /\ \A i \in 1 .. Len(h) : a[i] = h[i]
        /\ \A j \in 1 .. Len(c) : a[Len(h) + j] = c[j]
    BY <1>2, <1>3, Words
  <2> HIDE DEF a
  <2> QED
    BY <1>2, <1>3, <2>1
<1> HIDE DEF a
<1> DEFINE b == a \o t
<1>6. b \in Seq(Int) /\ Len(b) = 6 /\ b[1] = id /\ b[3] = c[1] /\ b[4] = c[2] /\ b[5] = x
  <2>1. /\ b \in Seq(Int)
        /\ Len(b) = Len(a) + Len(t)
        /\ \A i \in 1 .. Len(a) : b[i] = a[i]
        /\ \A j \in 1 .. Len(t) : b[Len(a) + j] = t[j]
    BY <1>2, <1>5, Words
  <2> HIDE DEF b
  <2> QED
    BY <1>2, <1>5, <2>1
<1> HIDE DEF b
<1> DEFINE d == b \o p
<1>7. /\ d \in Seq(Int)
      /\ Len(d) = Len(b) + Len(p)
      /\ \A i \in 1 .. Len(b) : d[i] = b[i]
      /\ \A j \in 1 .. Len(p) : d[Len(b) + j] = p[j]
  BY <1>4, <1>6, Words
<1>8. Data(v, id, r, x) = d
  BY <1>1 DEF a, b
<1> HIDE DEF d
<1>9. Len(d) = 7 + n /\ d[1] = id /\ d[3] = c[1] /\ d[4] = c[2] /\ d[5] = x
  <2>1. Len(b) = 6 /\ Len(p) = 1 + n /\ n \in Nat
    BY <1>4, <1>6
  <2>2. Len(b) + Len(p) = 7 + n /\ {1, 3, 4, 5} \subseteq 1 .. Len(b)
    BY <2>1
  <2>3. d[1] = b[1] /\ d[3] = b[3] /\ d[4] = b[4] /\ d[5] = b[5]
    BY <1>7, <2>2
  <2> QED
    BY <1>6, <1>7, <2>2, <2>3
<1>10. ASSUME NEW j \in 1 .. n
       PROVE  d[7 + j] = r.payload[j]
  <2>1. 1 + j \in 1 .. Len(p) /\ Len(b) + (1 + j) = 7 + j
    BY <1>4, <1>6
  <2>2. d[Len(b) + (1 + j)] = p[1 + j]
    BY <1>7, <2>1
  <2> QED
    BY <1>4, <2>1, <2>2
<1>11. 7 + n <= Len(d)
  BY <1>4, <1>9
<1>12. Holds(d, 7, r.payload)
  BY <1>10, <1>11, Zenon DEF Holds, n
<1> QED
  BY <1>7, <1>8, <1>9, <1>12 DEF n, c

LEMMA PlainData ==
    ASSUME NEW r \in Asked, NEW id \in Int, NEW x \in Int, NEW v, v = 3
    PROVE  LET d == Data(v, id, r, x) IN
           /\ d \in Seq(Int)
           /\ Len(d) = 10 + Len(r.payload)
           /\ d[1] = r.requester /\ d[2] = id /\ d[3] = r.payment
           /\ d[4] = r.callback[1] /\ d[5] = r.callback[2] /\ d[6] = x
           /\ d[9] = Len(r.payload)
           /\ Holds(d, 9, r.payload)
<1> DEFINE h == <<r.requester, id, r.payment>>
           c == r.callback
           t == <<x, 1, 7>>
           p == <<Len(r.payload)>> \o r.payload
           z == <<0>>
           n == Len(r.payload)
<1>1. Data(v, id, r, x) = h \o c \o t \o p \o z
  <2>1. /\ v \notin {RunLogTopic0original, ServiceAgreementExecutionLogTopic}
        /\ v # RunLogTopic20190123withFullfillmentParams
        /\ v = RunLogTopic20190207withoutIndexes
    BY DEF RunLogTopic0original, ServiceAgreementExecutionLogTopic,
           RunLogTopic20190123withFullfillmentParams, RunLogTopic20190207withoutIndexes
  <2> QED
    BY <2>1, Zenon DEF Data
<1>2. /\ h \in Seq(Int) /\ Len(h) = 3 /\ h[1] = r.requester /\ h[2] = id /\ h[3] = r.payment
      /\ t \in Seq(Int) /\ Len(t) = 3 /\ t[1] = x
      /\ z \in Seq(Int) /\ Len(z) = 1
  BY LogEventsAssumption
<1>3. c \in Seq(Int) /\ Len(c) = 2
  BY LogEventsAssumption
<1>4. /\ p \in Seq(Int) /\ Len(p) = 1 + n /\ n \in Nat /\ p[1] = n
      /\ \A j \in 1 .. n : p[1 + j] = r.payload[j]
  BY LogEventsAssumption, PayloadWords
<1> HIDE DEF h, c, t, p, z, n
<1> DEFINE a == h \o c
<1>5. /\ a \in Seq(Int) /\ Len(a) = 5
      /\ a[1] = r.requester /\ a[2] = id /\ a[3] = r.payment /\ a[4] = c[1] /\ a[5] = c[2]
  <2>1. /\ a \in Seq(Int)
        /\ Len(a) = Len(h) + Len(c)
        /\ \A i \in 1 .. Len(h) : a[i] = h[i]
        /\ \A j \in 1 .. Len(c) : a[Len(h) + j] = c[j]
    BY <1>2, <1>3, Words
  <2> HIDE DEF a
  <2> QED
    BY <1>2, <1>3, <2>1
<1> HIDE DEF a
<1> DEFINE b == a \o t
<1>6. /\ b \in Seq(Int) /\ Len(b) = 8
      /\ b[6] = x /\ \A i \in 1 .. 5 : b[i] = a[i]
  <2>1. /\ b \in Seq(Int)
        /\ Len(b) = Len(a) + Len(t)
        /\ \A i \in 1 .. Len(a) : b[i] = a[i]
        /\ \A j \in 1 .. Len(t) : b[Len(a) + j] = t[j]
    BY <1>2, <1>5, Words
  <2> HIDE DEF b
  <2> QED
    BY <1>2, <1>5, <2>1
<1> HIDE DEF b
<1> DEFINE e == b \o p
<1>7. /\ e \in Seq(Int)
      /\ Len(e) = Len(b) + Len(p)
      /\ \A i \in 1 .. Len(b) : e[i] = b[i]
      /\ \A j \in 1 .. Len(p) : e[Len(b) + j] = p[j]
  BY <1>4, <1>6, Words
<1> HIDE DEF e
<1>8. ASSUME NEW j \in 1 .. n
      PROVE  e[9 + j] = r.payload[j]
  <2>0. Len(b) = 8 /\ Len(p) = 1 + n /\ n \in Nat
    BY <1>4, <1>6
  <2>1. 1 + j \in 1 .. Len(p) /\ Len(b) + (1 + j) = 9 + j
    BY <2>0
  <2>2. e[Len(b) + (1 + j)] = p[1 + j]
    BY <1>7, <2>1
  <2> QED
    BY <1>4, <2>1, <2>2
<1>9. Len(e) = 9 + n /\ e[9] = n /\ e[6] = x /\ \A i \in 1 .. 5 : e[i] = a[i]
  <2>1. Len(b) = 8 /\ Len(p) = 1 + n /\ n \in Nat
    BY <1>4, <1>6
  <2>2. Len(b) + Len(p) = 9 + n /\ 1 .. 6 \subseteq 1 .. Len(b)
        /\ 1 \in 1 .. Len(p) /\ Len(b) + 1 = 9
    BY <2>1
  <2>3. e[9] = p[1] /\ \A i \in 1 .. 6 : e[i] = b[i]
    BY <1>7, <2>2
  <2>4. e[6] = b[6] /\ \A i \in 1 .. 5 : e[i] = b[i]
    BY <2>3
  <2>5. e[9] = n /\ e[6] = x
    BY <1>4, <1>6, <2>3, <2>4
  <2>6. \A i \in 1 .. 5 : e[i] = a[i]
    BY <1>6, <2>4
  <2>7. Len(e) = 9 + n
    BY <1>7, <2>2
  <2> QED
    BY <2>5, <2>6, <2>7
<1> DEFINE d == e \o z
<1>10. d \in Seq(Int) /\ Len(d) = Len(e) + Len(z) /\ \A i \in 1 .. Len(e) : d[i] = e[i]
  BY <1>2, <1>7, Words
<1>11. Data(v, id, r, x) = d
  BY <1>1 DEF a, b, e
<1> HIDE DEF d
<1>12. /\ Len(d) = 10 + n /\ d[9] = n /\ d[6] = x
       /\ \A i \in 1 .. 5 : d[i] = a[i]
       /\ \A j \in 1 .. n : d[9 + j] = e[9 + j]
  BY <1>2, <1>4, <1>9, <1>10
<1>13. \A j \in 1 .. n : d[9 + j] = r.payload[j]
  BY <1>8, <1>12
<1>14. /\ d[1] = r.requester /\ d[2] = id /\ d[3] = r.payment /\ d[4] = c[1] /\ d[5] = c[2]
  BY <1>5, <1>12
<1>15. 9 + n <= Len(d)
  BY <1>4, <1>12
<1>16. Holds(d, 9, r.payload)
  BY <1>13, <1>15, Zenon DEF Holds, n
<1> QED
  BY <1>10, <1>11, <1>12, <1>14, <1>16 DEF n, c

\* What is left of the data of a log that is cut.
LEMMA CutWords ==
    ASSUME NEW d \in Seq(Int), NEW k \in Nat
    PROVE  LET w == SubSeq(d, 1, Len(d) - k) IN
           /\ w \in Seq(Int) /\ Len(w) <= Len(d)
           /\ \A i \in 1 .. Len(w) : w[i] = d[i]
           /\ k = 0 => w = d
<1> DEFINE m == Len(d) - k
           w == SubSeq(d, 1, m)
<1>1. Len(d) \in Nat /\ m \in Int /\ m <= Len(d)
  OBVIOUS
<1>2. \A i \in 1 .. m : d[i] \in Int
  BY <1>1
<1> HIDE DEF m
<1>3. /\ w \in Seq(Int)
      /\ Len(w) = IF 1 <= m THEN m - 1 + 1 ELSE 0
      /\ \A i \in 1 .. m - 1 + 1 : w[i] = d[1 + i - 1]
  BY <1>1, <1>2, SubSeqProperties
<1> HIDE DEF w
<1>4. Len(w) <= Len(d) /\ \A i \in 1 .. Len(w) : i \in 1 .. m - 1 + 1 /\ 1 + i - 1 = i
  BY <1>1, <1>3
<1>5. \A i \in 1 .. Len(w) : w[i] = d[i]
  BY <1>3, <1>4
<1>6. k = 0 => Len(w) = Len(d)
  BY <1>1, <1>3 DEF m
<1>7. k = 0 => w = d
  BY <1>3, <1>5, <1>6, SeqEqual
<1> QED
  BY <1>3, <1>4, <1>5, <1>7 DEF w, m

\* The payload is what comes after m words, if it is there.
LEMMA RestIsPayload ==
    ASSUME NEW d \in Seq(Int), NEW p \in Seq(Int), NEW m \in Nat,
           Holds(d, m, p)
    PROVE  SubSeq(d, m + 1, m + Len(p)) = p
<1> DEFINE a == m + 1
           b == m + Len(p)
           w == SubSeq(d, a, b)
<1>1. /\ Len(d) \in Nat /\ Len(p) \in Nat
      /\ a \in 1 .. Len(d) + 1 /\ b \in a - 1 .. Len(d)
      /\ b - a + 1 = Len(p)
      /\ \A j \in 1 .. Len(p) : a + j - 1 = m + j /\ d[m + j] = p[j]
  BY DEF Holds
<1> HIDE DEF a, b
<1>2. /\ w \in Seq(Int) /\ Len(w) = b - a + 1
      /\ \A j \in 1 .. b - a + 1 : w[j] = d[a + j - 1]
  BY <1>1, PartOfWords
<1> HIDE DEF w
<1>3. Len(w) = Len(p) /\ \A j \in 1 .. Len(w) : w[j] = p[j]
  BY <1>1, <1>2
<1>4. w = p
  BY <1>2, <1>3, SeqEqual
<1> QED
  BY <1>4 DEF w, a, b

\* e is the log of the request with number n that expires at x.
IsLog(e, n, x) ==
    LET r == e.request
        data == Data(r.version, n, r, x)
    IN /\ r \in Asked
       /\ e.topics = <<r.version, r.job>>
                     \o IF r.version \in {3, 5} THEN <<>> ELSE <<r.requester, r.payment>>
       /\ e.data = SubSeq(data, 1, Len(data) - r.cut)
       /\ e.words = CommitmentOf(r.version, n, r, x)

\* The words by which a contract holds a request name it.
Names(words, n) ==
    /\ words \in Seq(Int)
    /\ Len(words) \in {1, 2, 5}
    /\ n = IF Len(words) = 2 THEN words[2] ELSE words[1]

LEMMA AskedParts ==
    ASSUME NEW r \in Asked
    PROVE  /\ r.version \in 1 .. 5 /\ r.cut \in Nat
           /\ r.job \in Int /\ r.requester \in Int /\ r.payment \in Int /\ r.key \in Int
           /\ r.payload \in Seq(Int) /\ Len(r.payload) \in Nat
           /\ r.callback \in Seq(Int) /\ Len(r.callback) = 2
BY LogEventsAssumption

LEMMA TopicsOfLog ==
    ASSUME NEW e, NEW n \in Int, NEW x \in Int, IsLog(e, n, x)
    PROVE  /\ Topic(e, 0) = e.request.version /\ Topic(e, 1) = e.request.job
           /\ e.request.version \notin {3, 5} =>
                Topic(e, 2) = e.request.requester /\ Topic(e, 3) = e.request.payment
<1> DEFINE r == e.request
           h == <<r.version, r.job>>
           t == IF r.version \in {3, 5} THEN <<>> ELSE <<r.requester, r.payment>>
<1>1. e.topics = h \o t
  BY DEF IsLog
<1>2. r \in Asked
  BY DEF IsLog
<1>3. /\ h \in Seq(Int) /\ Len(h) = 2 /\ h[1] = r.version /\ h[2] = r.job
      /\ t \in Seq(Int)
      /\ r.version \notin {3, 5} => Len(t) = 2 /\ t[1] = r.requester /\ t[2] = r.payment
  <2>0. r.version \in 1 .. 5 /\ r.job \in Int /\ r.requester \in Int /\ r.payment \in Int
    BY <1>2, AskedParts, Zenon
  <2> HIDE DEF r
  <2>1. r.version \in Int /\ r.job \in Int /\ r.requester \in Int /\ r.payment \in Int
    BY <2>0
  <2>2. h \in Seq(Int) /\ Len(h) = 2 /\ h[1] = r.version /\ h[2] = r.job
    BY <2>1
  <2> DEFINE paid == <<r.requester, r.payment>>
  <2>3. paid \in Seq(Int) /\ Len(paid) = 2 /\ paid[1] = r.requester /\ paid[2] = r.payment
    BY <2>1
  <2>4. t = (IF r.version \in {3, 5} THEN <<>> ELSE paid) /\ <<>> \in Seq(Int)
    OBVIOUS
  <2> HIDE DEF h, t, paid
  <2> QED
    BY <2>2, <2>3, <2>4, Zenon
<1> HIDE DEF h, t
<1>4. /\ \A i \in 1 .. Len(h) : (h \o t)[i] = h[i]
      /\ \A j \in 1 .. Len(t) : (h \o t)[Len(h) + j] = t[j]
  BY <1>3, Words
<1>5. e.topics[1] = r.version /\ e.topics[2] = r.job
  <2>1. 1 \in 1 .. Len(h) /\ 2 \in 1 .. Len(h)
    BY <1>3
  <2>2. (h \o t)[1] = h[1] /\ (h \o t)[2] = h[2]
    BY <1>4, <2>1
  <2> QED
    BY <1>1, <1>3, <2>2
<1>6. ASSUME r.version \notin {3, 5}
      PROVE  e.topics[3] = r.requester /\ e.topics[4] = r.payment
  <2>1. 1 \in 1 .. Len(t) /\ 2 \in 1 .. Len(t) /\ Len(h) + 1 = 3 /\ Len(h) + 2 = 4
    BY <1>3, <1>6
  <2>2. (h \o t)[Len(h) + 1] = t[1] /\ (h \o t)[Len(h) + 2] = t[2]
    BY <1>4, <2>1
  <2> QED
    BY <1>1, <1>3, <1>6, <2>1, <2>2
<1> QED
  BY <1>5, <1>6 DEF Topic

LEMMA DataOfLog ==
    ASSUME NEW e, NEW n \in Int, NEW x \in Int, IsLog(e, n, x),
           Data(e.request.version, n, e.request, x) \in Seq(Int)
    PROVE  LET d == Data(e.request.version, n, e.request, x) IN
           /\ e.data \in Seq(Int) /\ Len(e.data) \in Nat /\ Len(e.data) <= Len(d)
           /\ \A i \in 1 .. Len(e.data) : e.data[i] = d[i]
           /\ e.request.cut = 0 => e.data = d
<1> DEFINE d == Data(e.request.version, n, e.request, x)
           k == e.request.cut
           w == SubSeq(d, 1, Len(d) - k)
<1>1. e.data = w /\ k \in Nat
  BY AskedParts DEF IsLog
<1> HIDE DEF d, k
<1>2. d \in Seq(Int)
  BY DEF d
<1>3. /\ w \in Seq(Int) /\ Len(w) <= Len(d)
      /\ \A i \in 1 .. Len(w) : w[i] = d[i]
      /\ k = 0 => w = d
  BY <1>1, <1>2, CutWords
<1> HIDE DEF w
<1>4. Len(w) \in Nat
  BY <1>3
<1> QED
  BY <1>1, <1>3, <1>4 DEF d, k

\* The parser of a log is that of its version.
LEMMA ParserOfTopic ==
    ASSUME NEW e
    PROVE  /\ Topic(e, 0) \in {1, 4} => parserFromLog(e) = parseRunLog0original(e)
           /\ Topic(e, 0) = 2 => parserFromLog(e) = parseRunLog20190123withFulfillmentParams(e)
           /\ Topic(e, 0) = 3 => parserFromLog(e) = parseRunLog20190207withoutIndexes(e)
           /\ Topic(e, 0) = 5 => parserFromLog(e) = parseRandomnessRequest(e)
<1> DEFINE t == Topic(e, 0)
<1> HIDE DEF t
<1>1. parserFromLog(e) = IF t = 2 THEN parseRunLog20190123withFulfillmentParams(e)
                         ELSE IF t = 3 THEN parseRunLog20190207withoutIndexes(e)
                         ELSE IF t = 5 THEN parseRandomnessRequest(e)
                         ELSE parseRunLog0original(e)
  BY Zenon DEF parserFromLog, RunLogTopic20190123withFullfillmentParams,
               RunLogTopic20190207withoutIndexes, RandomnessRequestLogTopic, t
<1> QED
  BY <1>1 DEF t

\* Reads(e, n): what the node reads in the log of request n, when it can.
Reads(e, n) ==
    LET found == parserFromLog(e) IN
    found.ok =>
        /\ Names(found.dataPrefix, n)
        /\ found.payload \in Seq(Int)
        /\ e.request.cut = 0 =>
              /\ found.dataPrefix = e.words
              /\ found.payload = IF e.request.version = 5 THEN <<>> ELSE e.request.payload

LEMMA ReadsOld ==
    ASSUME NEW e, NEW n \in Int, NEW x \in Int, IsLog(e, n, x), e.request.version \in {1, 4}
    PROVE  Reads(e, n) /\ Names(e.words, n)
<1> DEFINE r == e.request
           d == Data(r.version, n, r, x)
           p == r.payload
<1>1. r \in Asked /\ p \in Seq(Int) /\ Len(p) \in Nat
  BY AskedParts DEF IsLog
<1>2. d \in Seq(Int) /\ Len(d) = 4 + Len(p) /\ d[1] = n /\ Holds(d, 4, p)
  BY <1>1, OldData
<1>3. /\ e.data \in Seq(Int) /\ Len(e.data) \in Nat
      /\ \A i \in 1 .. Len(e.data) : e.data[i] = d[i]
      /\ r.cut = 0 => e.data = d
  BY <1>2, DataOfLog
<1>4. parserFromLog(e) = parseRunLog0original(e)
  <2>1. Topic(e, 0) \in {1, 4}
    BY TopicsOfLog, Zenon
  <2> QED
    BY <2>1, ParserOfTopic, Zenon
<1>5. e.words = <<n>>
  BY DEF IsLog, CommitmentOf, RunLogTopic0original, ServiceAgreementExecutionLogTopic
<1>6. Names(<<n>>, n)
  BY DEF Names
<1> HIDE DEF d
<1>7. ASSUME parserFromLog(e).ok
      PROVE  /\ Len(e.data) >= 4
             /\ parserFromLog(e).dataPrefix = <<e.data[1]>>
             /\ parserFromLog(e).payload = SubSeq(e.data, 5, Len(e.data))
  BY <1>3, <1>4, <1>7 DEF parseRunLog0original, Parsed, Malformed
<1>8. ASSUME parserFromLog(e).ok
      PROVE  /\ parserFromLog(e).dataPrefix = <<n>>
             /\ parserFromLog(e).payload \in Seq(Int)
  <2>0. 1 \in 1 .. Len(e.data)
    BY <1>3, <1>7, <1>8
  <2>1. e.data[1] = n
    BY <1>2, <1>3, <2>0
  <2>2. 5 \in 1 .. Len(e.data) + 1 /\ Len(e.data) \in 5 - 1 .. Len(e.data)
    BY <1>3, <1>7, <1>8
  <2>3. SubSeq(e.data, 5, Len(e.data)) \in Seq(Int)
    BY <1>3, <2>2, PartOfWords
  <2> QED
    BY <1>7, <1>8, <2>1, <2>3
<1>9. ASSUME parserFromLog(e).ok, r.cut = 0
      PROVE  parserFromLog(e).payload = p
  <2>1. SubSeq(d, 4 + 1, 4 + Len(p)) = p
    BY <1>1, <1>2, RestIsPayload
  <2>2. e.data = d
    BY <1>3, <1>9, Zenon
  <2>3. Len(e.data) = 4 + Len(p)
    BY <1>2, <2>2, Zenon
  <2>4. parserFromLog(e).payload = SubSeq(d, 4 + 1, 4 + Len(p))
    BY <1>7, <1>9, <2>2, <2>3
  <2> QED
    BY <2>1, <2>4
<1> QED
  BY <1>5, <1>6, <1>8, <1>9 DEF Reads

\* Five words, and what they are.
AreWords(w, a, b, c, d, e) ==
    /\ w \in Seq(Int) /\ Len(w) = 5
    /\ w[1] = a /\ w[2] = b /\ w[3] = c /\ w[4] = d /\ w[5] = e

LEMMA SameWords ==
    ASSUME NEW a, NEW b, NEW c, NEW d, NEW e, NEW s, NEW t,
           AreWords(s, a, b, c, d, e), AreWords(t, a, b, c, d, e)
    PROVE  s = t
<1>1. s \in Seq(Int) /\ t \in Seq(Int) /\ Len(s) = Len(t)
  BY DEF AreWords
<1>2. 1 .. Len(s) = {1, 2, 3, 4, 5}
  BY DEF AreWords
<1>3. \A i \in 1 .. Len(s) : s[i] = t[i]
  BY <1>2 DEF AreWords
<1> QED
  BY <1>1, <1>3, SeqEqual

LEMMA WordsName ==
    ASSUME NEW a, NEW b, NEW c, NEW d, NEW e, NEW w, AreWords(w, a, b, c, d, e)
    PROVE  Names(w, a)
BY DEF AreWords, Names

LEMMA CommitmentWords ==
    ASSUME NEW r \in Asked, NEW n \in Int, NEW x \in Int, NEW v, v = 2 \/ v = 3
    PROVE  AreWords(CommitmentOf(v, n, r, x), n, r.payment, r.callback[1], r.callback[2], x)
<1> DEFINE h == <<n, r.payment>>
           c == r.callback
           t == <<x>>
<1>1. CommitmentOf(v, n, r, x) = h \o c \o t
  <2>1. /\ v \notin {RunLogTopic0original, ServiceAgreementExecutionLogTopic}
        /\ v # RandomnessRequestLogTopic
    BY DEF RunLogTopic0original, ServiceAgreementExecutionLogTopic, RandomnessRequestLogTopic
  <2> QED
    BY <2>1, Zenon DEF CommitmentOf
<1>2. /\ h \in Seq(Int) /\ Len(h) = 2 /\ h[1] = n /\ h[2] = r.payment
      /\ t \in Seq(Int) /\ Len(t) = 1 /\ t[1] = x
      /\ c \in Seq(Int) /\ Len(c) = 2
  BY AskedParts
<1> HIDE DEF h, c, t
<1> DEFINE a == h \o c
<1>3. a \in Seq(Int) /\ Len(a) = 4 /\ a[1] = n /\ a[2] = r.payment /\ a[3] = c[1] /\ a[4] = c[2]
  <2>1. /\ a \in Seq(Int)
        /\ Len(a) = Len(h) + Len(c)
        /\ \A i \in 1 .. Len(h) : a[i] = h[i]
        /\ \A j \in 1 .. Len(c) : a[Len(h) + j] = c[j]
    BY <1>2, Words
  <2> HIDE DEF a
  <2> QED
    BY <1>2, <2>1
<1> HIDE DEF a
<1> DEFINE w == a \o t
<1>4. w \in Seq(Int) /\ Len(w) = 5 /\ w[5] = x /\ \A i \in 1 .. 4 : w[i] = a[i]
  <2>1. /\ w \in Seq(Int)
        /\ Len(w) = Len(a) + Len(t)
        /\ \A i \in 1 .. Len(a) : w[i] = a[i]
        /\ \A j \in 1 .. Len(t) : w[Len(a) + j] = t[j]
    BY <1>2, <1>3, Words
  <2> HIDE DEF w
  <2> QED
    BY <1>2, <1>3, <2>1
<1> HIDE DEF w
<1>5. AreWords(w, n, r.payment, c[1], c[2], x)
  BY <1>3, <1>4 DEF AreWords
<1> QED
  BY <1>1, <1>5 DEF w, a, c

LEMMA ReadsParams ==
    ASSUME NEW e, NEW n \in Int, NEW x \in Int, IsLog(e, n, x), e.request.version = 2
    PROVE  Reads(e, n) /\ Names(e.words, n)
<1> DEFINE r == e.request
           d == Data(r.version, n, r, x)
           p == r.payload
           first == <<e.data[1], Topic(e, 3)>>
           others == SubSeq(e.data, 3, 5)
<1>1. r \in Asked /\ p \in Seq(Int) /\ Len(p) \in Nat /\ r.payment \in Int
  BY AskedParts DEF IsLog
<1>2. /\ d \in Seq(Int) /\ Len(d) = 7 + Len(p) /\ Holds(d, 7, p)
      /\ d[1] = n /\ d[3] = r.callback[1] /\ d[4] = r.callback[2] /\ d[5] = x
  <2> HIDE DEF r
  <2>1. r.version = 2
    BY DEF r
  <2> QED
    BY <1>1, <2>1, ParamsData
<1>3. /\ e.data \in Seq(Int) /\ Len(e.data) \in Nat
      /\ \A i \in 1 .. Len(e.data) : e.data[i] = d[i]
      /\ r.cut = 0 => e.data = d
  BY <1>2, DataOfLog
<1>4. parserFromLog(e) = parseRunLog20190123withFulfillmentParams(e) /\ Topic(e, 3) = r.payment
  <2>1. e.request.version \notin {3, 5}
    OBVIOUS
  <2>2. Topic(e, 0) = 2 /\ Topic(e, 3) = r.payment
    BY <2>1, TopicsOfLog, Zenon
  <2> QED
    BY <2>2, ParserOfTopic, Zenon
<1>5. AreWords(e.words, n, r.payment, r.callback[1], r.callback[2], x)
  BY <1>1, CommitmentWords DEF IsLog
<1> HIDE DEF d
<1>6. ASSUME parserFromLog(e).ok
      PROVE  /\ Len(e.data) >= 7
             /\ parserFromLog(e).dataPrefix = first \o others
             /\ parserFromLog(e).payload = SubSeq(e.data, 8, Len(e.data))
  <2>0. ~Malformed.ok
    BY DEF Malformed
  <2>1. ~(Len(e.data) < 7)
    BY <1>4, <1>6, <2>0, Zenon DEF parseRunLog20190123withFulfillmentParams
  <2> DEFINE prefix == first \o others
             rest == SubSeq(e.data, 8, Len(e.data))
             id == <<e.data[1]>>
  <2>2. parserFromLog(e) = Parsed(prefix, id, rest)
    BY <1>4, <2>1, Zenon DEF parseRunLog20190123withFulfillmentParams
  <2>3. Len(e.data) >= 7
    BY <1>3, <2>1
  <2> HIDE DEF first, others, prefix, rest, id
  <2>4. parserFromLog(e).dataPrefix = prefix /\ parserFromLog(e).payload = rest
    BY <1>6, <2>2 DEF Parsed, Malformed
  <2> QED
    BY <2>3, <2>4 DEF prefix, rest
<1>7. ASSUME parserFromLog(e).ok
      PROVE  AreWords(first \o others, n, r.payment, r.callback[1], r.callback[2], x)
  <2>1. 1 .. 5 \subseteq 1 .. Len(e.data) /\ 3 \in 1 .. Len(e.data) + 1 /\ 5 \in 3 - 1 .. Len(e.data)
    <3>1. Len(e.data) \in Nat /\ Len(e.data) >= 7
      BY <1>3, <1>6, <1>7, Zenon
    <3> QED
      BY <3>1
  <2>2. /\ others \in Seq(Int) /\ Len(others) = 5 - 3 + 1
        /\ \A j \in 1 .. 5 - 3 + 1 : others[j] = e.data[3 + j - 1]
    BY <1>3, <2>1, PartOfWords
  <2>3. 1 \in 1 .. Len(e.data) /\ 3 \in 1 .. Len(e.data) /\ 4 \in 1 .. Len(e.data) /\ 5 \in 1 .. Len(e.data)
    BY <2>1
  <2>4. e.data[1] = n /\ e.data[3] = d[3] /\ e.data[4] = d[4] /\ e.data[5] = d[5]
    BY <1>2, <1>3, <2>3
  <2>5. first \in Seq(Int) /\ Len(first) = 2 /\ first[1] = n /\ first[2] = r.payment
    BY <1>1, <1>4, <2>4
  <2> HIDE DEF first, others
  <2>6. /\ others[1] = d[3] /\ others[2] = d[4] /\ others[3] = d[5] /\ Len(others) = 3
    BY <2>2, <2>4
  <2>7. /\ first \o others \in Seq(Int)
        /\ Len(first \o others) = Len(first) + Len(others)
        /\ \A i \in 1 .. Len(first) : (first \o others)[i] = first[i]
        /\ \A j \in 1 .. Len(others) : (first \o others)[Len(first) + j] = others[j]
    BY <2>2, <2>5, Words
  <2> DEFINE w == first \o others
  <2> HIDE DEF w
  <2>8. /\ w \in Seq(Int) /\ Len(w) = 5 /\ w[1] = first[1] /\ w[2] = first[2]
        /\ w[3] = others[1] /\ w[4] = others[2] /\ w[5] = others[3]
    <3>1. /\ 1 \in 1 .. Len(first) /\ 2 \in 1 .. Len(first) /\ 1 \in 1 .. Len(others)
          /\ 2 \in 1 .. Len(others) /\ 3 \in 1 .. Len(others)
          /\ Len(first) + 1 = 3 /\ Len(first) + 2 = 4 /\ Len(first) + 3 = 5
      BY <2>5, <2>6
    <3>2. w[1] = first[1] /\ w[2] = first[2]
      BY <2>7, <3>1 DEF w
    <3>3. w[Len(first) + 1] = others[1] /\ w[Len(first) + 2] = others[2] /\ w[Len(first) + 3] = others[3]
      BY <2>7, <3>1 DEF w
    <3> QED
      BY <2>5, <2>6, <2>7, <3>1, <3>2, <3>3 DEF w
  <2>9. AreWords(w, n, r.payment, r.callback[1], r.callback[2], x)
    BY <1>2, <2>5, <2>6, <2>8 DEF AreWords
  <2> QED
    BY <2>9 DEF w
<1>8. ASSUME parserFromLog(e).ok
      PROVE  parserFromLog(e).payload \in Seq(Int)
  <2>1. 8 \in 1 .. Len(e.data) + 1 /\ Len(e.data) \in 8 - 1 .. Len(e.data)
    BY <1>3, <1>6, <1>8
  <2>2. SubSeq(e.data, 8, Len(e.data)) \in Seq(Int)
    BY <1>3, <2>1, PartOfWords
  <2> QED
    BY <1>6, <1>8, <2>2
<1>9. ASSUME parserFromLog(e).ok, r.cut = 0
      PROVE  parserFromLog(e).payload = p
  <2>1. SubSeq(d, 7 + 1, 7 + Len(p)) = p
    BY <1>1, <1>2, RestIsPayload
  <2>2. e.data = d
    BY <1>3, <1>9, Zenon
  <2>3. Len(e.data) = 7 + Len(p)
    BY <1>2, <2>2, Zenon
  <2>4. parserFromLog(e).payload = SubSeq(d, 7 + 1, 7 + Len(p))
    BY <1>6, <1>9, <2>2, <2>3
  <2> QED
    BY <2>1, <2>4
<1>10. parserFromLog(e).ok => parserFromLog(e).dataPrefix = e.words
  BY <1>5, <1>6, <1>7, SameWords
<1>11. Names(e.words, n)
  BY <1>5, WordsName
<1> QED
  BY <1>8, <1>9, <1>10, <1>11 DEF Reads

LEMMA ReadsPlain ==
    ASSUME NEW e, NEW n \in Int, NEW x \in Int, IsLog(e, n, x), e.request.version = 3
    PROVE  /\ Reads(e, n) /\ Names(e.words, n)
           /\ parserFromLog(e).ok => e.data[1] = e.request.requester /\ e.data[3] = e.request.payment
<1> DEFINE r == e.request
           d == Data(r.version, n, r, x)
           p == r.payload
           w == SubSeq(e.data, 2, 6)
<1>1. r \in Asked /\ p \in Seq(Int) /\ Len(p) \in Nat /\ r.payment \in Int
  BY AskedParts DEF IsLog
<1>2. /\ d \in Seq(Int) /\ Len(d) = 10 + Len(p) /\ Holds(d, 9, p)
      /\ d[1] = r.requester /\ d[2] = n /\ d[3] = r.payment
      /\ d[4] = r.callback[1] /\ d[5] = r.callback[2] /\ d[6] = x /\ d[9] = Len(p)
  <2> HIDE DEF r
  <2>1. r.version = 3
    BY DEF r
  <2> QED
    BY <1>1, <2>1, PlainData
<1>3. /\ e.data \in Seq(Int) /\ Len(e.data) \in Nat
      /\ \A i \in 1 .. Len(e.data) : e.data[i] = d[i]
      /\ r.cut = 0 => e.data = d
  BY <1>2, DataOfLog
<1>4. parserFromLog(e) = parseRunLog20190207withoutIndexes(e)
  <2>1. Topic(e, 0) = 3
    BY TopicsOfLog, Zenon
  <2> QED
    BY <2>1, ParserOfTopic, Zenon
<1>5. AreWords(e.words, n, r.payment, r.callback[1], r.callback[2], x)
  BY <1>1, CommitmentWords DEF IsLog
<1> HIDE DEF d
<1>6. ASSUME parserFromLog(e).ok
      PROVE  /\ ~(Len(e.data) < 9) /\ ~(Len(e.data) < 9 + e.data[9])
             /\ parserFromLog(e).dataPrefix = w
             /\ parserFromLog(e).payload = SubSeq(e.data, 10, 9 + e.data[9])
  <2>0. ~Malformed.ok
    BY DEF Malformed
  <2>1. ~(Len(e.data) < 9) /\ ~(Len(e.data) < 9 + e.data[9])
    BY <1>4, <1>6, <2>0, Zenon DEF parseRunLog20190207withoutIndexes
  <2> DEFINE rest == SubSeq(e.data, 10, 9 + e.data[9])
             id == <<e.data[2]>>
  <2>2. parserFromLog(e) = Parsed(w, id, rest)
    BY <1>4, <2>1, Zenon DEF parseRunLog20190207withoutIndexes
  <2> HIDE DEF w, rest, id
  <2>3. parserFromLog(e).dataPrefix = w /\ parserFromLog(e).payload = rest
    BY <1>6, <2>2 DEF Parsed, Malformed
  <2> QED
    BY <2>1, <2>3 DEF rest
<1>7. ASSUME parserFromLog(e).ok
      PROVE  /\ e.data[1] = r.requester /\ e.data[3] = r.payment /\ e.data[9] = Len(p)
             /\ AreWords(w, n, r.payment, r.callback[1], r.callback[2], x)
  <2>1. /\ 1 \in 1 .. Len(e.data) /\ 2 \in 1 .. Len(e.data) /\ 3 \in 1 .. Len(e.data)
        /\ 4 \in 1 .. Len(e.data) /\ 5 \in 1 .. Len(e.data) /\ 6 \in 1 .. Len(e.data)
        /\ 9 \in 1 .. Len(e.data)
        /\ 2 \in 1 .. Len(e.data) + 1 /\ 6 \in 2 - 1 .. Len(e.data)
    <3>1. Len(e.data) \in Nat /\ ~(Len(e.data) < 9)
      BY <1>3, <1>6, <1>7, Zenon
    <3> QED
      BY <3>1
  <2>2. /\ w \in Seq(Int) /\ Len(w) = 6 - 2 + 1
        /\ \A j \in 1 .. 6 - 2 + 1 : w[j] = e.data[2 + j - 1]
    BY <1>3, <2>1, PartOfWords
  <2>3. /\ e.data[1] = d[1] /\ e.data[2] = d[2] /\ e.data[3] = d[3] /\ e.data[4] = d[4]
        /\ e.data[5] = d[5] /\ e.data[6] = d[6] /\ e.data[9] = d[9]
    BY <1>3, <2>1
  <2> HIDE DEF w
  <2>4. /\ Len(w) = 5 /\ w[1] = e.data[2] /\ w[2] = e.data[3] /\ w[3] = e.data[4]
        /\ w[4] = e.data[5] /\ w[5] = e.data[6]
    BY <2>2
  <2>5. AreWords(w, n, r.payment, r.callback[1], r.callback[2], x)
    BY <1>2, <2>2, <2>3, <2>4 DEF AreWords
  <2> QED
    BY <1>2, <2>3, <2>5
<1>8. ASSUME parserFromLog(e).ok
      PROVE  parserFromLog(e).payload \in Seq(Int)
  <2>1. 10 \in 1 .. Len(e.data) + 1 /\ 9 + e.data[9] \in 10 - 1 .. Len(e.data)
    <3>1. /\ Len(e.data) \in Nat /\ Len(p) \in Nat
          /\ ~(Len(e.data) < 9 + e.data[9]) /\ e.data[9] = Len(p)
      BY <1>1, <1>3, <1>6, <1>7, <1>8, Zenon
    <3>2. \A l, m \in Nat : ~(l < 9 + m) => 10 \in 1 .. l + 1 /\ 9 + m \in 10 - 1 .. l
      OBVIOUS
    <3> QED
      BY <3>1, <3>2, Zenon
  <2>2. SubSeq(e.data, 10, 9 + e.data[9]) \in Seq(Int)
    BY <1>3, <2>1, PartOfWords
  <2> QED
    BY <1>6, <1>8, <2>2
<1>9. ASSUME parserFromLog(e).ok, r.cut = 0
      PROVE  parserFromLog(e).payload = p
  <2>1. SubSeq(d, 9 + 1, 9 + Len(p)) = p
    BY <1>1, <1>2, RestIsPayload
  <2>2. e.data = d
    BY <1>3, <1>9, Zenon
  <2>3. parserFromLog(e).payload = SubSeq(d, 10, 9 + Len(p))
    <3>1. e.data[9] = Len(p) /\ parserFromLog(e).payload = SubSeq(e.data, 10, 9 + e.data[9])
      BY <1>6, <1>7, <1>9, Zenon
    <3> QED
      BY <2>2, <3>1, Zenon
  <2>4. 9 + 1 = 10
    OBVIOUS
  <2> QED
    BY <2>1, <2>3, <2>4, Zenon
<1>10. parserFromLog(e).ok => parserFromLog(e).dataPrefix = e.words
  BY <1>5, <1>6, <1>7, SameWords
<1>11. Names(e.words, n)
  BY <1>5, WordsName
<1> QED
  BY <1>7, <1>8, <1>9, <1>10, <1>11 DEF Reads

LEMMA ReadsRandom ==
    ASSUME NEW e, NEW n \in Int, NEW x \in Int, IsLog(e, n, x), e.request.version = 5
    PROVE  /\ Reads(e, n) /\ Names(e.words, n)
           /\ parserFromLog(e) = parseRandomnessRequest(e)
           /\ parserFromLog(e).ok => e.data[4] = e.request.payment
<1> DEFINE r == e.request
           d == Data(r.version, n, r, x)
           w == SubSeq(e.data, 1, 2)
           words == <<r.key, n>>
<1>1. /\ r \in Asked /\ r.payment \in Int /\ r.key \in Int /\ r.requester \in Int
  BY AskedParts DEF IsLog
<1>2. d = <<r.key, n, r.requester, r.payment>>
  <2>1. /\ r.version \notin {RunLogTopic0original, ServiceAgreementExecutionLogTopic}
        /\ r.version # RunLogTopic20190123withFullfillmentParams
        /\ r.version # RunLogTopic20190207withoutIndexes
    BY DEF RunLogTopic0original, ServiceAgreementExecutionLogTopic,
           RunLogTopic20190123withFullfillmentParams, RunLogTopic20190207withoutIndexes
  <2> QED
    BY <2>1, Zenon DEF Data
<1>3. d \in Seq(Int) /\ Len(d) = 4 /\ d[1] = r.key /\ d[2] = n /\ d[4] = r.payment
  <2> DEFINE q == <<r.key, n, r.requester, r.payment>>
  <2>1. q \in Seq(Int) /\ Len(q) = 4 /\ q[1] = r.key /\ q[2] = n /\ q[4] = r.payment
    BY <1>1
  <2> HIDE DEF q, d
  <2> QED
    BY <1>2, <2>1 DEF q
<1>4. /\ e.data \in Seq(Int) /\ Len(e.data) \in Nat
      /\ \A i \in 1 .. Len(e.data) : e.data[i] = d[i]
  BY <1>3, DataOfLog
<1>5. parserFromLog(e) = parseRandomnessRequest(e)
  <2>1. Topic(e, 0) = 5
    BY TopicsOfLog, Zenon
  <2> QED
    BY <2>1, ParserOfTopic, Zenon
<1>6. e.words = words
  BY DEF IsLog, CommitmentOf, RunLogTopic0original, ServiceAgreementExecutionLogTopic,
         RandomnessRequestLogTopic
<1>7. words \in Seq(Int) /\ Len(words) = 2 /\ words[1] = r.key /\ words[2] = n
  BY <1>1
<1> HIDE DEF d
<1>8. ASSUME parserFromLog(e).ok
      PROVE  /\ Len(e.data) = 4
             /\ parserFromLog(e).dataPrefix = w
             /\ parserFromLog(e).payload = <<>>
  BY <1>4, <1>5, <1>8 DEF parseRandomnessRequest, Parsed, Malformed
<1>9. ASSUME parserFromLog(e).ok
      PROVE  w = words /\ e.data[4] = r.payment
  <2>1. /\ 1 \in 1 .. Len(e.data) /\ 2 \in 1 .. Len(e.data) /\ 4 \in 1 .. Len(e.data)
        /\ 1 \in 1 .. Len(e.data) + 1 /\ 2 \in 1 - 1 .. Len(e.data)
    <3>1. Len(e.data) = 4
      BY <1>8, <1>9, Zenon
    <3> QED
      BY <3>1
  <2>2. /\ w \in Seq(Int) /\ Len(w) = 2 - 1 + 1
        /\ \A j \in 1 .. 2 - 1 + 1 : w[j] = e.data[1 + j - 1]
    BY <1>4, <2>1, PartOfWords
  <2>3. e.data[1] = d[1] /\ e.data[2] = d[2] /\ e.data[4] = d[4]
    BY <1>4, <2>1
  <2> HIDE DEF w, words
  <2>4. Len(w) = 2 /\ w[1] = e.data[1] /\ w[2] = e.data[2] /\ 1 .. Len(w) = {1, 2}
    BY <2>2
  <2>5. Len(w) = Len(words) /\ \A i \in 1 .. Len(w) : w[i] = words[i]
    BY <1>3, <1>7, <2>3, <2>4
  <2>6. w = words
    BY <1>7, <2>2, <2>5, SeqEqual
  <2> QED
    BY <1>3, <2>3, <2>6
<1>10. Names(words, n)
  BY <1>7 DEF Names
<1>11. <<>> \in Seq(Int)
  OBVIOUS
<1> HIDE DEF w, words
<1>12. Reads(e, n)
  BY <1>6, <1>8, <1>9, <1>10, <1>11, Zenon DEF Reads
<1> QED
  BY <1>5, <1>6, <1>9, <1>10, <1>12, Zenon

\* Whatever its version, the node reads of a log only what the request says.
LEMMA LogIsRead ==
    ASSUME NEW e, NEW n \in Int, NEW x \in Int, IsLog(e, n, x)
    PROVE  Reads(e, n) /\ Names(e.words, n)
<1>1. e.request.version \in {1, 4} \/ e.request.version = 2 \/ e.request.version = 3
      \/ e.request.version = 5
  <2>1. e.request.version \in 1 .. 5
    BY AskedParts DEF IsLog
  <2> QED
    BY <2>1
<1> QED
  BY <1>1, ReadsOld, ReadsParams, ReadsPlain, ReadsRandom, Zenon

\* What a run of initiator i for the log of request r with number n has read: words that
\* name the request, and what is there to read if the log is whole.
AnswersAsked(prefix, payload, i, n, r, words) ==
    /\ Names(prefix, n)
    /\ r.cut = 0 => /\ prefix = words
                    /\ payload = IF i.type = "randomnesslog" THEN <<>> ELSE r.payload

\* Initiator i allows a run for request r.
Permits(i, r) ==
    /\ r.job \in JobSpecIDTopics(i.job)
    /\ runCost(i.job) <= r.payment
    /\ i.type \in {"runlog", "execagreement"} => i.requesters = {} \/ r.requester \in i.requesters

LEMMA MatchedTopics ==
    ASSUME NEW e, NEW i \in LogInitiators, i.type # "ethlog", Matches(FilterQueryFactory(i), e)
    PROVE  /\ Topic(e, 0) \in TopicsForInitiators[i.type]
           /\ Topic(e, 1) \in JobSpecIDTopics(i.job)
<1> DEFINE q == FilterQueryFactory(i)
           a == TopicsForInitiators[i.type]
           b == JobSpecIDTopics(i.job)
<1>1. q.topics = <<a, b>>
  BY DEF FilterQueryFactory
<1>2. a # {} /\ b # {}
  <2>1. i.type \in {"runlog", "execagreement", "randomnesslog"}
    BY LogEventsAssumption
  <2>2. a # {}
    BY <2>1 DEF TopicsForInitiators
  <2> QED
    BY <2>2 DEF JobSpecIDTopics
<1>3. \A k \in DOMAIN q.topics : q.topics[k] = {} \/ e.topics[k] \in q.topics[k]
  BY Zenon DEF Matches
<1> HIDE DEF q, a, b
<1>4. /\ 1 \in DOMAIN q.topics /\ 2 \in DOMAIN q.topics
      /\ q.topics[1] = a /\ q.topics[2] = b
  BY <1>1
<1>5. e.topics[1] \in a /\ e.topics[2] \in b
  BY <1>2, <1>3, <1>4
<1> QED
  BY <1>5 DEF Topic, a, b

\* A run that is begun has read its request, and its initiator allows it.
LEMMA EventIsOfRequest ==
    ASSUME NEW e, NEW n \in Int, NEW x \in Int, IsLog(e, n, x),
           NEW i \in LogInitiators, i.type # "ethlog", Matches(FilterQueryFactory(i), e),
           LogRequest(i, e).permitted, LogRequest(i, e).request.ok,
           ValidateRun(i, LogRequest(i, e))
    PROVE  LET found == LogRequest(i, e).request IN
           /\ found.dataPrefix \in Seq(Int) /\ found.payload \in Seq(Int)
           /\ AnswersAsked(found.dataPrefix, found.payload, i, n, e.request, e.words)
           /\ Permits(i, e.request)
<1> DEFINE r == e.request
           found == LogRequest(i, e).request
<1>1. r.version = Topic(e, 0) /\ r.job = Topic(e, 1)
  BY TopicsOfLog
<1>2. /\ i.type \in {"runlog", "execagreement", "randomnesslog"}
      /\ i.type = "runlog" => r.version \in {1, 2, 3}
      /\ i.type = "execagreement" => r.version = 4
      /\ i.type = "randomnesslog" => r.version = 5
      /\ r.job \in JobSpecIDTopics(i.job)
  <2>1. i.type \in {"runlog", "execagreement", "randomnesslog"}
    BY LogEventsAssumption
  <2>2. r.version \in TopicsForInitiators[i.type] /\ r.job \in JobSpecIDTopics(i.job)
    BY <1>1, MatchedTopics
  <2>3. i.type = "runlog" => r.version \in {1, 2, 3}
    BY <2>2 DEF TopicsForInitiators, RunLogTopic0original,
                RunLogTopic20190123withFullfillmentParams, RunLogTopic20190207withoutIndexes
  <2>4. i.type = "execagreement" => r.version = 4
    BY <2>2 DEF TopicsForInitiators, ServiceAgreementExecutionLogTopic
  <2>5. i.type = "randomnesslog" => r.version = 5
    BY <2>2 DEF TopicsForInitiators, RandomnessRequestLogTopic
  <2> QED
    BY <2>1, <2>2, <2>3, <2>4, <2>5
<1>3. found = RunRequest(e) /\ LogRequest(i, e).pays
  BY <1>2 DEF LogRequest, RunLogEvent, RandomnessLogEvent
<1>4. /\ parserFromLog(e).ok
      /\ found.dataPrefix = parserFromLog(e).dataPrefix
      /\ found.payload = parserFromLog(e).payload
  BY <1>3 DEF RunRequest
<1>5. /\ Names(parserFromLog(e).dataPrefix, n)
      /\ parserFromLog(e).payload \in Seq(Int)
      /\ r.cut = 0 =>
            /\ parserFromLog(e).dataPrefix = e.words
            /\ parserFromLog(e).payload = IF r.version = 5 THEN <<>> ELSE r.payload
  BY <1>4, LogIsRead, Zenon DEF Reads
<1>6. AnswersAsked(found.dataPrefix, found.payload, i, n, r, e.words)
  <2>1. r.version = 5 <=> i.type = "randomnesslog"
    BY <1>2
  <2> HIDE DEF r, found
  <2> QED
    BY <1>4, <1>5, <2>1, Zenon DEF AnswersAsked
<1>7. LogRequest(i, e).payment = r.payment
  <2>1. CASE i.type = "randomnesslog"
    <3>1. LogRequest(i, e).payment = e.data[4]
      BY <2>1 DEF LogRequest, RandomnessLogEvent
    <3> QED
      BY <1>2, <1>4, <2>1, <3>1, ReadsRandom
  <2>2. CASE i.type \in {"runlog", "execagreement"}
    <3>1. LogRequest(i, e).payment = contractPayment(e)
      BY <2>2 DEF LogRequest, RunLogEvent
    <3>2. CASE r.version = 3
      <4>1. contractPayment(e) = e.data[3]
        BY <1>1, <3>2 DEF contractPayment, oldRequestVersion, RunLogTopic0original,
              RunLogTopic20190123withFullfillmentParams, ServiceAgreementExecutionLogTopic
      <4> QED
        BY <1>4, <3>1, <3>2, <4>1, ReadsPlain
    <3>3. CASE r.version \in {1, 2, 4}
      <4>1. contractPayment(e) = Topic(e, 3)
        BY <1>1, <3>3 DEF contractPayment, oldRequestVersion, RunLogTopic0original,
              RunLogTopic20190123withFullfillmentParams, ServiceAgreementExecutionLogTopic
      <4>2. Topic(e, 3) = r.payment
        BY <3>3, TopicsOfLog
      <4> QED
        BY <3>1, <4>1, <4>2
    <3> QED
      BY <1>2, <2>2, <3>2, <3>3
  <2> QED
    BY <1>2, <2>1, <2>2
<1>8. runCost(i.job) <= r.payment
  BY <1>3, <1>7 DEF ValidateRun
<1>9. ASSUME i.type \in {"runlog", "execagreement"}
      PROVE  i.requesters = {} \/ r.requester \in i.requesters
  <2>1. ValidateRequester(i, e)
    BY <1>9 DEF LogRequest, RunLogEvent
  <2>2. CASE r.version = 3
    <3>1. Requester(e) = e.data[1]
      BY <1>1, <2>2 DEF Requester, oldRequestVersion, RunLogTopic0original,
            RunLogTopic20190123withFullfillmentParams, ServiceAgreementExecutionLogTopic
    <3>2. Requester(e) = r.requester
      BY <1>4, <2>2, <3>1, ReadsPlain
    <3> QED
      BY <2>1, <3>2 DEF ValidateRequester
  <2>3. CASE r.version \in {1, 2, 4}
    <3>1. Requester(e) = Topic(e, 2)
      BY <1>1, <2>3 DEF Requester, oldRequestVersion, RunLogTopic0original,
            RunLogTopic20190123withFullfillmentParams, ServiceAgreementExecutionLogTopic
    <3>2. Requester(e) = r.requester
      BY <2>3, <3>1, TopicsOfLog
    <3> QED
      BY <2>1, <3>2 DEF ValidateRequester
  <2> QED
    BY <1>2, <1>9, <2>2, <2>3
<1>10. Permits(i, r)
  BY <1>2, <1>8, <1>9 DEF Permits
<1>11. found.dataPrefix \in Seq(Int) /\ found.payload \in Seq(Int)
  BY <1>4, <1>5 DEF Names
<1> QED
  BY <1>6, <1>10, <1>11

\* A log, and a run.
Log == [address : Int, block : Int, removed : BOOLEAN, topics : Seq(Int), data : Seq(Int),
        request : Asked, words : Seq(Int)]
Run == [initiator : LogInitiators, log : Int, status : {"in_progress", "completed", "errored"},
        dataPrefix : Seq(Int), payload : Seq(Int)]

\* A run for the log of request r, that the contract holds by these words: that of an
\* ethlog initiator answers nobody, and every other that is not errored has read it.
RunIsSound(run, r, words) ==
    /\ run.initiator.type = "ethlog" => run.dataPrefix = <<>>
    /\ run.status # "errored" /\ run.initiator.type # "ethlog" =>
          /\ AnswersAsked(run.dataPrefix, run.payload, run.initiator, run.log, r, words)
          /\ Permits(run.initiator, r)

LogsAreOfRequests ==
    /\ block \in Int
    /\ emitted \in Seq(Log)
    /\ \A n \in DOMAIN emitted : \E x \in Int : IsLog(emitted[n], n, x)
    /\ \A c \in commitments : c.id \in DOMAIN emitted

RunsAreSound ==
    /\ logRuns \in Seq(Run)
    /\ \A k \in DOMAIN logRuns :
          /\ logRuns[k].log \in DOMAIN emitted
          /\ RunIsSound(logRuns[k], emitted[logRuns[k].log].request, emitted[logRuns[k].log].words)

SettledByOwnRun ==
    \A s \in settled :
        /\ s.run \in DOMAIN logRuns
        /\ logRuns[s.run].log = s.id
        /\ logRuns[s.run].status # "errored"
        /\ logRuns[s.run].initiator.type # "ethlog"

LogInv == LogsAreOfRequests /\ RunsAreSound /\ SettledByOwnRun

\* The data and the topics of a log are words, whatever was asked.
LEMMA DataAreWords ==
    ASSUME NEW r \in Asked, NEW id \in Int, NEW x \in Int
    PROVE  Data(r.version, id, r, x) \in Seq(Int)
<1>1. r.version \in {1, 4} \/ r.version = 2 \/ r.version = 3 \/ r.version = 5
  <2>1. r.version \in 1 .. 5
    BY AskedParts
  <2> QED
    BY <2>1
<1>2. CASE r.version \in {1, 4}
  <2>1. r.version = 1 \/ r.version = 4
    BY <1>2
  <2> QED
    BY <2>1, OldData
<1>3. CASE r.version = 2
  BY <1>3, ParamsData
<1>4. CASE r.version = 3
  BY <1>4, PlainData
<1>5. CASE r.version = 5
  <2>1. /\ r.version \notin {RunLogTopic0original, ServiceAgreementExecutionLogTopic}
        /\ r.version # RunLogTopic20190123withFullfillmentParams
        /\ r.version # RunLogTopic20190207withoutIndexes
    BY <1>5 DEF RunLogTopic0original, ServiceAgreementExecutionLogTopic,
           RunLogTopic20190123withFullfillmentParams, RunLogTopic20190207withoutIndexes
  <2>2. Data(r.version, id, r, x) = <<r.key, id, r.requester, r.payment>>
    BY <2>1, Zenon DEF Data
  <2> QED
    BY <2>2, AskedParts
<1> QED
  BY <1>1, <1>2, <1>3, <1>4, <1>5

LEMMA TopicsAreWords ==
    ASSUME NEW r \in Asked
    PROVE  <<r.version, r.job>>
           \o (IF r.version \in {3, 5} THEN <<>> ELSE <<r.requester, r.payment>>) \in Seq(Int)
<1> DEFINE h == <<r.version, r.job>>
           t == IF r.version \in {3, 5} THEN <<>> ELSE <<r.requester, r.payment>>
<1>1. h \in Seq(Int) /\ t \in Seq(Int)
  BY AskedParts
<1> HIDE DEF h, t
<1>2. h \o t \in Seq(Int)
  BY <1>1, Words
<1> QED
  BY <1>2 DEF h, t

LEMMA LogInitially == LogEventInit => LogInv
<1> SUFFICES ASSUME LogEventInit PROVE LogInv
  OBVIOUS
<1>1. LogsAreOfRequests
  BY LogEventsAssumption DEF LogEventInit, LogsAreOfRequests
<1>2. RunsAreSound /\ SettledByOwnRun
  BY DEF LogEventInit, RunsAreSound, SettledByOwnRun
<1> QED
  BY <1>1, <1>2 DEF LogInv

LEMMA LogInvOracleRequest == LogInv /\ OracleRequest => LogInv'
<1> SUFFICES ASSUME LogInv, OracleRequest PROVE LogInv'
  OBVIOUS
<1>1. PICK r \in Asked :
        LET id == Len(emitted) + 1
            x == block + Expiry
            data == Data(r.version, id, r, x)
        IN /\ emitted' = Append(emitted,
                [address |-> r.oracle, block |-> block, removed |-> FALSE,
                 topics |-> <<r.version, r.job>>
                    \o IF r.version \notin {RunLogTopic20190207withoutIndexes, RandomnessRequestLogTopic}
                       THEN <<r.requester, r.payment>> ELSE <<>>,
                 data |-> SubSeq(data, 1, Len(data) - r.cut),
                 request |-> r, words |-> CommitmentOf(r.version, id, r, x)])
           /\ \/ commitments' = commitments
              \/ commitments' = commitments \cup {[id |-> id, expiration |-> x]}
           /\ UNCHANGED <<block, logRuns, receivedLogs, settled>>
  BY Zenon DEF OracleRequest
<1> DEFINE id == Len(emitted) + 1
           x == block + Expiry
           data == Data(r.version, id, r, x)
           old == r.version \notin {RunLogTopic20190207withoutIndexes, RandomnessRequestLogTopic}
           topics == <<r.version, r.job>> \o IF old THEN <<r.requester, r.payment>> ELSE <<>>
           rest == SubSeq(data, 1, Len(data) - r.cut)
           words == CommitmentOf(r.version, id, r, x)
           e == [address |-> r.oracle, block |-> block, removed |-> FALSE, topics |-> topics,
                 data |-> rest, request |-> r, words |-> words]
<1>2. emitted' = Append(emitted, e)
  BY <1>1
<1>3. /\ block \in Int /\ emitted \in Seq(Log) /\ Len(emitted) \in Nat /\ id \in Int /\ x \in Int
      /\ \A n \in DOMAIN emitted : \E y \in Int : IsLog(emitted[n], n, y)
      /\ \A c \in commitments : c.id \in DOMAIN emitted
  BY LogEventsAssumption DEF LogInv, LogsAreOfRequests
<1>4. topics = <<r.version, r.job>>
               \o IF r.version \in {3, 5} THEN <<>> ELSE <<r.requester, r.payment>>
  BY DEF RunLogTopic20190207withoutIndexes, RandomnessRequestLogTopic
<1>5. topics \in Seq(Int)
  BY <1>4, TopicsAreWords
<1>6. rest \in Seq(Int)
  <2> HIDE DEF id, x
  <2>1. data \in Seq(Int) /\ r.cut \in Nat
    BY <1>3, DataAreWords, AskedParts
  <2> HIDE DEF data
  <2> QED
    BY <2>1, CutWords
<1> HIDE DEF id, x, topics
<1>7. IsLog(e, id, x)
  <2> HIDE DEF data, words
  <2>1. /\ e.request = r /\ e.topics = topics /\ e.words = words
        /\ e.data = SubSeq(data, 1, Len(data) - r.cut)
    OBVIOUS
  <2> HIDE DEF e
  <2> QED
    BY <1>4, <2>1 DEF IsLog, data, words
<1>8. e \in Log
  <2> HIDE DEF e
  <2>1. words \in Seq(Int)
    <3>1. Names(e.words, id) /\ e.words = words
      BY <1>3, <1>7, LogIsRead DEF e
    <3> QED
      BY <3>1 DEF Names
  <2>2. r.oracle \in Int
    BY LogEventsAssumption
  <2> HIDE DEF words, rest
  <2> QED
    BY <1>3, <1>5, <1>6, <2>1, <2>2 DEF Log, e
<1> HIDE DEF e
<1>9. /\ emitted' \in Seq(Log) /\ DOMAIN emitted \subseteq DOMAIN emitted'
      /\ id \in DOMAIN emitted' /\ emitted'[id] = e
      /\ DOMAIN emitted' = DOMAIN emitted \cup {id}
      /\ \A n \in DOMAIN emitted : emitted'[n] = emitted[n]
  BY <1>2, <1>3, <1>8 DEF id
<1>10. LogsAreOfRequests'
  <2>1. block' \in Int
    BY <1>1, <1>3
  <2>2. ASSUME NEW n \in DOMAIN emitted'
        PROVE  \E y \in Int : IsLog(emitted'[n], n, y)
    <3>1. CASE n = id
      BY <1>3, <1>7, <1>9, <3>1, Zenon
    <3>2. CASE n \in DOMAIN emitted
      BY <1>3, <1>9, <3>2, Zenon
    <3> QED
      BY <1>9, <2>2, <3>1, <3>2
  <2>3. ASSUME NEW c \in commitments'
        PROVE  c.id \in DOMAIN emitted'
    <3> DEFINE new == [id |-> id, expiration |-> x]
    <3>1. commitments' = commitments \/ commitments' = commitments \cup {new}
      BY <1>1 DEF id, x
    <3>2. new.id = id
      OBVIOUS
    <3> HIDE DEF new
    <3> QED
      BY <1>3, <1>9, <2>3, <3>1, <3>2
  <2> QED
    BY <1>9, <2>1, <2>2, <2>3 DEF LogsAreOfRequests
<1>11. RunsAreSound'
  <2>1. logRuns' = logRuns
    BY <1>1
  <2>2. RunsAreSound
    BY DEF LogInv
  <2> QED
    BY <1>9, <2>1, <2>2 DEF RunsAreSound
<1>12. SettledByOwnRun'
  <2>1. logRuns' = logRuns /\ settled' = settled
    BY <1>1
  <2> QED
    BY <2>1 DEF LogInv, SettledByOwnRun
<1> QED
  BY <1>10, <1>11, <1>12 DEF LogInv

LEMMA LogInvCancel == LogInv /\ CancelOracleRequest => LogInv'
<1> SUFFICES ASSUME LogInv, CancelOracleRequest PROVE LogInv'
  OBVIOUS
<1>1. PICK c \in commitments :
        /\ commitments' = commitments \ {c}
        /\ UNCHANGED <<block, emitted, logRuns, receivedLogs, settled>>
  BY Zenon DEF CancelOracleRequest
<1>2. commitments' \subseteq commitments
  BY <1>1
<1> QED
  BY <1>1, <1>2 DEF LogInv, LogsAreOfRequests, RunsAreSound, SettledByOwnRun

LEMMA LogInvNextBlock == LogInv /\ NextBlock => LogInv'
<1> SUFFICES ASSUME LogInv, NextBlock PROVE LogInv'
  OBVIOUS
<1>1. /\ block' \in Int
      /\ UNCHANGED <<emitted, commitments, logRuns, receivedLogs, settled>>
  BY DEF NextBlock, LogInv, LogsAreOfRequests
<1> QED
  BY <1>1 DEF LogInv, LogsAreOfRequests, RunsAreSound, SettledByOwnRun

LEMMA LogInvReorganise == LogInv /\ Reorganise => LogInv'
<1> SUFFICES ASSUME LogInv, Reorganise PROVE LogInv'
  OBVIOUS
<1>1. PICK c \in commitments :
        /\ commitments' = commitments \ {c}
        /\ emitted' = [emitted EXCEPT ![c.id].removed = TRUE]
        /\ UNCHANGED <<block, logRuns, receivedLogs, settled>>
  BY Zenon DEF Reorganise
<1>2. /\ emitted \in Seq(Log) /\ c.id \in DOMAIN emitted
      /\ \A n \in DOMAIN emitted : \E y \in Int : IsLog(emitted[n], n, y)
      /\ \A o \in commitments : o.id \in DOMAIN emitted
  BY <1>1 DEF LogInv, LogsAreOfRequests
<1> DEFINE taken == [emitted[c.id] EXCEPT !.removed = TRUE]
<1>3. emitted[c.id] \in Log
  BY <1>2
<1>4. /\ taken \in Log /\ taken.request = emitted[c.id].request
      /\ taken.topics = emitted[c.id].topics /\ taken.data = emitted[c.id].data
      /\ taken.words = emitted[c.id].words
  BY <1>3 DEF Log
<1>5. emitted' = [emitted EXCEPT ![c.id] = taken]
  BY <1>1
<1> HIDE DEF taken
<1>6. /\ emitted' \in Seq(Log) /\ DOMAIN emitted' = DOMAIN emitted
      /\ \A n \in DOMAIN emitted : emitted'[n] = IF n = c.id THEN taken ELSE emitted[n]
  BY <1>2, <1>4, <1>5
<1>7. ASSUME NEW n \in DOMAIN emitted
      PROVE  /\ emitted'[n].request = emitted[n].request
             /\ emitted'[n].topics = emitted[n].topics /\ emitted'[n].data = emitted[n].data
             /\ emitted'[n].words = emitted[n].words
  BY <1>4, <1>6
<1>8. ASSUME NEW n \in DOMAIN emitted'
      PROVE  \E y \in Int : IsLog(emitted'[n], n, y)
  <2>1. PICK y \in Int : IsLog(emitted[n], n, y)
    BY <1>2, <1>6
  <2>2. IsLog(emitted'[n], n, y)
    BY <1>6, <1>7, <2>1 DEF IsLog
  <2> QED
    BY <2>2
<1>9. \A o \in commitments' : o.id \in DOMAIN emitted'
  BY <1>1, <1>2, <1>6
<1>10. LogsAreOfRequests'
  <2>1. block' \in Int
    BY <1>1 DEF LogInv, LogsAreOfRequests
  <2> QED
    BY <1>6, <1>8, <1>9, <2>1 DEF LogsAreOfRequests
<1>11. RunsAreSound'
  <2>1. logRuns' = logRuns
    BY <1>1
  <2>2. RunsAreSound
    BY DEF LogInv
  <2> QED
    BY <1>6, <1>7, <2>1, <2>2 DEF RunsAreSound
<1>12. SettledByOwnRun'
  <2>1. logRuns' = logRuns /\ settled' = settled
    BY <1>1
  <2> QED
    BY <2>1 DEF LogInv, SettledByOwnRun
<1> QED
  BY <1>10, <1>11, <1>12 DEF LogInv

\* The run made for a log is one more run.
LEMMA OneMoreRun ==
    ASSUME LogInv, NEW n \in DOMAIN emitted, NEW run \in Run, run.log = n,
           RunIsSound(run, emitted[n].request, emitted[n].words),
           logRuns' = Append(logRuns, run), UNCHANGED <<block, emitted, commitments, settled>>
    PROVE  LogInv'
<1>1. logRuns \in Seq(Run) /\ Len(logRuns) \in Nat
  BY DEF LogInv, RunsAreSound
<1>2. /\ logRuns' \in Seq(Run) /\ logRuns'[Len(logRuns) + 1] = run
      /\ DOMAIN logRuns' = DOMAIN logRuns \cup {Len(logRuns) + 1}
      /\ \A k \in DOMAIN logRuns : logRuns'[k] = logRuns[k]
  BY <1>1
<1>3. RunsAreSound'
  <2>1. RunsAreSound /\ emitted' = emitted
    BY DEF LogInv
  <2>2. ASSUME NEW k \in DOMAIN logRuns'
        PROVE  /\ logRuns'[k].log \in DOMAIN emitted
               /\ RunIsSound(logRuns'[k], emitted[logRuns'[k].log].request,
                                          emitted[logRuns'[k].log].words)
    <3>1. CASE k = Len(logRuns) + 1
      BY <1>2, <3>1
    <3>2. CASE k \in DOMAIN logRuns
      BY <1>2, <2>1, <3>2 DEF RunsAreSound
    <3> QED
      BY <1>2, <3>1, <3>2
  <2> QED
    BY <1>2, <2>1, <2>2 DEF RunsAreSound
<1>4. SettledByOwnRun'
  BY <1>2 DEF LogInv, SettledByOwnRun
<1>5. LogsAreOfRequests'
  BY DEF LogInv, LogsAreOfRequests
<1> QED
  BY <1>3, <1>4, <1>5 DEF LogInv

LEMMA LogInvReceive == LogInv /\ ReceiveLogRequest => LogInv'
<1> SUFFICES ASSUME LogInv, ReceiveLogRequest PROVE LogInv'
  OBVIOUS
<1>1. PICK i \in LogInitiators, n \in DOMAIN emitted :
        LET log == emitted[n]
            event == LogRequest(i, log)
            sound == event.permitted /\ event.request.ok /\ ValidateRun(i, event)
        IN /\ Matches(FilterQueryFactory(i), log)
           /\ logRuns' =
                IF ~event.valid \/ log.removed THEN logRuns
                ELSE Append(logRuns, IF sound THEN NewRun(i, n, event.request) ELSE CreateErrored(i, n))
           /\ UNCHANGED <<block, emitted, commitments, settled>>
  BY Zenon DEF ReceiveLogRequest
<1> DEFINE log == emitted[n]
           event == LogRequest(i, log)
           sound == event.permitted /\ event.request.ok /\ ValidateRun(i, event)
<1>2. /\ n \in Int
      /\ \E x \in Int : IsLog(log, n, x)
  BY DEF LogInv, LogsAreOfRequests
<1>3. PICK x \in Int : IsLog(log, n, x)
  BY <1>2
<1>4. Matches(FilterQueryFactory(i), log) /\ UNCHANGED <<block, emitted, commitments, settled>>
  BY <1>1
<1> HIDE DEF event, log
<1>5. CASE ~event.valid \/ log.removed
  <2>1. UNCHANGED <<block, emitted, commitments, logRuns, settled>>
    BY <1>1, <1>5 DEF event, log
  <2> QED
    BY <2>1 DEF LogInv, LogsAreOfRequests, RunsAreSound, SettledByOwnRun
<1>6. CASE ~(~event.valid \/ log.removed) /\ sound
  <2> DEFINE run == NewRun(i, n, event.request)
  <2>1. logRuns' = Append(logRuns, run)
    BY <1>1, <1>6 DEF event, log
  <2>2. /\ run.initiator = i /\ run.log = n /\ run.status = "in_progress"
        /\ run.dataPrefix = event.request.dataPrefix /\ run.payload = event.request.payload
    BY DEF NewRun
  <2>3. CASE i.type = "ethlog"
    <3>1. event = InitiatorLogEvent
      BY <2>3 DEF event, LogRequest
    <3>2. event.request.dataPrefix = <<>> /\ event.request.payload = <<>>
      BY <3>1 DEF InitiatorLogEvent
    <3>3. run \in Run
      BY <1>2, <3>2 DEF NewRun, Run
    <3> HIDE DEF run
    <3>4. RunIsSound(run, log.request, log.words)
      BY <2>2, <2>3, <3>2 DEF RunIsSound
    <3> QED
      BY <1>4, <2>1, <2>2, <3>3, <3>4, OneMoreRun DEF log
  <2>4. CASE i.type # "ethlog"
    <3>1. /\ event.request.dataPrefix \in Seq(Int) /\ event.request.payload \in Seq(Int)
          /\ AnswersAsked(event.request.dataPrefix, event.request.payload, i, n, log.request, log.words)
          /\ Permits(i, log.request)
      BY <1>2, <1>3, <1>4, <1>6, <2>4, EventIsOfRequest DEF event
    <3>2. run \in Run
      BY <1>2, <3>1 DEF NewRun, Run
    <3> HIDE DEF run
    <3>3. RunIsSound(run, log.request, log.words)
      BY <2>2, <2>4, <3>1 DEF RunIsSound
    <3> QED
      BY <1>4, <2>1, <2>2, <3>2, <3>3, OneMoreRun DEF log
  <2> QED
    BY <2>3, <2>4
<1>7. CASE ~(~event.valid \/ log.removed) /\ ~sound
  <2> DEFINE run == CreateErrored(i, n)
  <2>1. logRuns' = Append(logRuns, run)
    BY <1>1, <1>7 DEF event, log
  <2>2. run \in Run /\ run.log = n /\ RunIsSound(run, log.request, log.words)
    BY <1>2 DEF CreateErrored, Run, RunIsSound
  <2> HIDE DEF run
  <2> QED
    BY <1>4, <2>1, <2>2, OneMoreRun DEF log
<1> QED
  BY <1>5, <1>6, <1>7

\* Words name one request only.
LEMMA WordsNameOne ==
    ASSUME NEW words, NEW n \in Int, NEW m \in Int, Names(words, n), Names(words, m)
    PROVE  n = m
BY DEF Names

LEMMA LogInvFulfill == LogInv /\ FulfillOracleRequest => LogInv'
<1> SUFFICES ASSUME LogInv, FulfillOracleRequest PROVE LogInv'
  OBVIOUS
<1>1. PICK k \in DOMAIN logRuns :
        LET open == {c \in commitments :
                        /\ emitted[c.id].words = logRuns[k].dataPrefix
                        /\ emitted[c.id].address = emitted[logRuns[k].log].address}
        IN /\ logRuns[k].status = "in_progress"
           /\ logRuns' = [logRuns EXCEPT ![k].status = "completed"]
           /\ commitments' = commitments \ open
           /\ settled' = settled \cup {[id |-> c.id, run |-> k] : c \in open}
           /\ UNCHANGED <<block, emitted, receivedLogs>>
  BY Zenon DEF FulfillOracleRequest
<1> DEFINE open == {c \in commitments :
                        /\ emitted[c.id].words = logRuns[k].dataPrefix
                        /\ emitted[c.id].address = emitted[logRuns[k].log].address}
           run == logRuns[k]
           finished == [run EXCEPT !.status = "completed"]
           paid == {[id |-> c.id, run |-> k] : c \in open}
<1>2. /\ logRuns \in Seq(Run) /\ run \in Run /\ run.status = "in_progress"
      /\ run.log \in DOMAIN emitted
      /\ RunIsSound(run, emitted[run.log].request, emitted[run.log].words)
  BY <1>1 DEF LogInv, RunsAreSound
<1>3. /\ finished \in Run /\ finished.status = "completed" /\ finished.log = run.log
      /\ finished.initiator = run.initiator /\ finished.dataPrefix = run.dataPrefix
      /\ finished.payload = run.payload
  BY <1>2 DEF Run
<1>4. logRuns' = [logRuns EXCEPT ![k] = finished]
  BY <1>1
<1>5. \A c \in open : c \in commitments /\ emitted[c.id].words = run.dataPrefix
  OBVIOUS
<1>6. /\ commitments' \subseteq commitments /\ settled' = settled \cup paid
      /\ block' = block /\ emitted' = emitted
  BY <1>1
<1> HIDE DEF finished, run
<1>7. /\ logRuns' \in Seq(Run) /\ DOMAIN logRuns' = DOMAIN logRuns
      /\ \A j \in DOMAIN logRuns : logRuns'[j] = IF j = k THEN finished ELSE logRuns[j]
  BY <1>2, <1>3, <1>4
<1>8. LogsAreOfRequests'
  BY <1>6 DEF LogInv, LogsAreOfRequests
<1>9. RunsAreSound'
  <2>1. RunIsSound(finished, emitted[finished.log].request, emitted[finished.log].words)
    BY <1>2, <1>3 DEF RunIsSound
  <2>2. ASSUME NEW j \in DOMAIN logRuns'
        PROVE  /\ logRuns'[j].log \in DOMAIN emitted
               /\ RunIsSound(logRuns'[j], emitted[logRuns'[j].log].request,
                                          emitted[logRuns'[j].log].words)
    <3>1. CASE j = k
      BY <1>2, <1>3, <1>7, <2>1, <3>1
    <3>2. CASE j # k
      BY <1>7, <3>2 DEF LogInv, RunsAreSound
    <3> QED
      BY <3>1, <3>2
  <2> QED
    BY <1>6, <1>7, <2>2 DEF RunsAreSound
<1>10. ASSUME NEW c \in open
       PROVE  run.initiator.type # "ethlog" /\ run.log = c.id
  <2>1. c \in commitments /\ emitted[c.id].words = run.dataPrefix
    BY <1>5
  <2>2. c.id \in DOMAIN emitted /\ c.id \in Int /\ run.log \in Int
    BY <1>2, <2>1 DEF LogInv, LogsAreOfRequests
  <2>3. PICK y \in Int : IsLog(emitted[c.id], c.id, y)
    BY <2>2 DEF LogInv, LogsAreOfRequests
  <2>4. Names(run.dataPrefix, c.id)
    BY <2>1, <2>2, <2>3, LogIsRead
  <2>5. run.dataPrefix # <<>>
    BY <2>4 DEF Names
  <2>6. run.initiator.type # "ethlog" /\ Names(run.dataPrefix, run.log)
    BY <1>2, <2>5 DEF RunIsSound, AnswersAsked
  <2> QED
    BY <2>2, <2>4, <2>6, WordsNameOne
<1>11. SettledByOwnRun'
  <2>1. ASSUME NEW s \in settled
        PROVE  /\ s.run \in DOMAIN logRuns'
               /\ logRuns'[s.run].log = s.id
               /\ logRuns'[s.run].status # "errored"
               /\ logRuns'[s.run].initiator.type # "ethlog"
    <3>1. /\ s.run \in DOMAIN logRuns
          /\ logRuns[s.run].log = s.id
          /\ logRuns[s.run].status # "errored"
          /\ logRuns[s.run].initiator.type # "ethlog"
      BY DEF LogInv, SettledByOwnRun
    <3>2. CASE s.run = k
      BY <1>3, <1>7, <3>1, <3>2 DEF run
    <3>3. CASE s.run # k
      BY <1>7, <3>1, <3>3
    <3> QED
      BY <3>2, <3>3
  <2>2. ASSUME NEW s \in paid
        PROVE  /\ s.run \in DOMAIN logRuns'
               /\ logRuns'[s.run].log = s.id
               /\ logRuns'[s.run].status # "errored"
               /\ logRuns'[s.run].initiator.type # "ethlog"
    <3>1. PICK c \in open : s = [id |-> c.id, run |-> k]
      OBVIOUS
    <3>2. s.run = k /\ s.id = c.id
      BY <3>1
    <3>3. logRuns'[k] = finished
      BY <1>7
    <3>4. run.initiator.type # "ethlog" /\ run.log = c.id
      BY <1>10
    <3> QED
      BY <1>3, <1>7, <3>2, <3>3, <3>4
  <2> HIDE DEF paid
  <2> QED
    BY <1>6, <2>1, <2>2 DEF SettledByOwnRun
<1> QED
  BY <1>8, <1>9, <1>11 DEF LogInv

LEMMA LogInductive == LogInv /\ [LogEventNext]_logEventVars => LogInv'
<1> SUFFICES ASSUME LogInv, [LogEventNext]_logEventVars PROVE LogInv'
  OBVIOUS
<1>1. CASE OracleRequest
  BY <1>1, LogInvOracleRequest
<1>2. CASE CancelOracleRequest
  BY <1>2, LogInvCancel
<1>3. CASE Reorganise
  BY <1>3, LogInvReorganise
<1>4. CASE NextBlock
  BY <1>4, LogInvNextBlock
<1>5. CASE ReceiveLogRequest
  BY <1>5, LogInvReceive
<1>6. CASE FulfillOracleRequest
  BY <1>6, LogInvFulfill
<1>7. CASE UNCHANGED logEventVars
  BY <1>7 DEF LogInv, LogsAreOfRequests, RunsAreSound, SettledByOwnRun, logEventVars
<1> QED
  BY <1>1, <1>2, <1>3, <1>4, <1>5, <1>6, <1>7 DEF LogEventNext

LEMMA LogInvIsEnough == LogInv => RequestsAreMet
<1> SUFFICES ASSUME LogInv PROVE RequestsAreMet
  OBVIOUS
<1>1. RequestsAreUnderstood
  BY Zenon DEF LogInv, RunsAreSound, RunIsSound, AnswersAsked, RequestsAreUnderstood
<1>2. ASSUME NEW s \in settled
      PROVE  Permits(logRuns[s.run].initiator, emitted[s.id].request)
  BY Zenon DEF LogInv, RunsAreSound, SettledByOwnRun, RunIsSound
<1>3. AnsweredIsPermitted
  BY <1>2, Zenon DEF AnsweredIsPermitted, Permits
<1> QED
  BY <1>1, <1>3 DEF RequestsAreMet

THEOREM RequestsMet == LogEventSpec => []RequestsAreMet
<1>1. LogEventInit => LogInv
  BY LogInitially
<1>2. LogInv /\ [LogEventNext]_logEventVars => LogInv'
  BY LogInductive
<1>3. LogInv => RequestsAreMet
  BY LogInvIsEnough
<1> QED
  BY <1>1, <1>2, <1>3, PTL DEF LogEventSpec

----------------------------------------------------------------------------
(* HttpTasks.                                                               *)

LEMMA MinOfTwo ==
    ASSUME NEW a \in Int, NEW b \in Int
    PROVE  Min({a, b}) = IF a <= b THEN a ELSE b
<1> DEFINE m == IF a <= b THEN a ELSE b
<1>1. m \in {a, b} /\ \A y \in {a, b} : m <= y
  OBVIOUS
<1>2. \A x \in {a, b} : (\A y \in {a, b} : x <= y) => x = m
  OBVIOUS
<1>3. Min({a, b}) \in {a, b} /\ \A y \in {a, b} : Min({a, b}) <= y
  BY <1>1, Zenon DEF Min
<1> QED
  BY <1>2, <1>3

LEMMA MaxOfTwo ==
    ASSUME NEW a \in Int, NEW b \in Int
    PROVE  Max({a, b}) = IF a >= b THEN a ELSE b
<1> DEFINE m == IF a >= b THEN a ELSE b
<1>1. m \in {a, b} /\ \A y \in {a, b} : m >= y
  OBVIOUS
<1>2. \A x \in {a, b} : (\A y \in {a, b} : x >= y) => x = m
  OBVIOUS
<1>3. Max({a, b}) \in {a, b} /\ \A y \in {a, b} : Max({a, b}) >= y
  BY <1>1, Zenon DEF Max
<1> QED
  BY <1>2, <1>3

HttpTypeInv ==
    /\ httpRequest.body \in Nat
    /\ unread \in Nat
    /\ handled \in Nat
    /\ response.length \in Nat
    /\ response.status \in Nat
    /\ mbr.remaining \in Nat
    /\ mbr.got \in Nat

\* The one buffer of the body is whole until something is written, and empty once the
\* endpoint has handled the request.
BodyInv ==
    /\ unread \in {0, httpRequest.body}
    /\ handled > 0 => unread = 0
    /\ httpRequest.body > 0 => handled <= 1

\* The reader's count: what it has and what it may still take make up the limit.
ReaderInv ==
    /\ response = NoResponse => httpOutput.status # "completed" /\ httpOutput.error # "too large"
    /\ response # NoResponse => mbr.got + mbr.remaining = DefaultHTTPLimit /\ mbr.got <= response.length

HttpInv == HttpTypeInv /\ BodyInv /\ ReaderInv /\ ResultIsTheWholeResponse

LEMMA HttpInvInit == HttpInit => HttpInv
<1> SUFFICES ASSUME HttpInit
             PROVE  HttpInv
  OBVIOUS
<1>1. httpRequest.body \in Nat
  BY HttpAssumption DEF HttpInit, GetRequest
<1>2. httpOutput.status = "in_progress" /\ httpOutput.error = "none"
  BY DEF HttpInit, Running
<1>3. response = NoResponse /\ response.length = 0 /\ response.status = 0 /\ mbr.remaining = 0 /\ mbr.got = 0
  BY DEF HttpInit, NoResponse, NoReader
<1>4. unread = httpRequest.body /\ handled = 0
  BY DEF HttpInit
<1> QED
  BY <1>1, <1>2, <1>3, <1>4
     DEF HttpInv, HttpTypeInv, BodyInv, ReaderInv, ResultIsTheWholeResponse

LEMMA AttemptFailsKeeps ==
    ASSUME HttpInv, NEW remains \in {unread, 0}, Retrying, AttemptFails(remains),
           handled' = handled \/ (handled' = handled + 1 /\ BodyIsWhole /\ remains = 0)
    PROVE  HttpInv'
<1>1. httpOutput'.status # "completed" /\ httpOutput'.error # "too large"
  BY DEF AttemptFails, HttpError, Running
<1>2. /\ unread' = remains /\ UNCHANGED <<httpRequest, response, mbr>>
      /\ response = NoResponse
  BY DEF AttemptFails, Retrying
<1>3. HttpTypeInv'
  BY <1>2 DEF HttpInv, HttpTypeInv
<1>4. BodyInv'
  BY <1>2 DEF HttpInv, HttpTypeInv, BodyInv, BodyIsWhole
<1>5. ReaderInv' /\ ResultIsTheWholeResponse'
  BY <1>1, <1>2 DEF ReaderInv, ResultIsTheWholeResponse
<1> QED
  BY <1>3, <1>4, <1>5 DEF HttpInv

LEMMA ReadKeeps ==
    ASSUME HttpInv, Read
    PROVE  HttpInv'
<1> USE HttpAssumption
<1>1. /\ response.length \in Nat /\ response.status \in Nat /\ mbr.got \in Nat /\ mbr.remaining \in Nat
      /\ mbr.got + mbr.remaining = DefaultHTTPLimit /\ mbr.got <= response.length
  BY DEF HttpInv, HttpTypeInv, ReaderInv, Read, Reading
<1> DEFINE Portion(n, over) ==
            LET kept == IF tooLarge(n) THEN 0 ELSE n
            IN  /\ mbr' = [remaining |-> Max({0, mbr.remaining - kept}),
                           sawEOF |-> over,
                           got |-> mbr.got + kept]
                /\ httpOutput' = IF tooLarge(n) THEN HttpError("too large")
                                 ELSE IF over THEN HttpResult(mbr.got + n) ELSE Running
<1>21. PICK asked \in 1 .. LongestResponse + 1 :
          \E n \in 0 .. Min({toRead(asked), Left}) :
              \E over \in {e \in BOOLEAN : (e => n = Left) /\ (n = 0 => e)} : Portion(n, over)
  BY DEF Read
<1>22. PICK n \in 0 .. Min({toRead(asked), Left}) :
          \E over \in {e \in BOOLEAN : (e => n = Left) /\ (n = 0 => e)} : Portion(n, over)
  BY <1>21
<1>2. PICK over \in {e \in BOOLEAN : (e => n = Left) /\ (n = 0 => e)} : Portion(n, over)
  BY <1>22
<1> DEFINE kept == IF tooLarge(n) THEN 0 ELSE n
<1>3. asked \in Int /\ mbr.remaining \in Int
  BY <1>1
<1>4. toRead(asked) = IF mbr.remaining = 0 THEN 1
                      ELSE IF asked <= mbr.remaining THEN asked ELSE mbr.remaining
  BY <1>3, MinOfTwo DEF toRead
<1>5. Left \in Nat /\ Left = response.length - mbr.got
  BY <1>1 DEF Left
<1>6. n \in Nat /\ n <= Left /\ n <= toRead(asked)
  BY <1>3, <1>4, <1>5, MinOfTwo
<1>7. kept \in Nat /\ kept <= mbr.remaining /\ kept <= Left /\ (~tooLarge(n) => kept = n)
  BY <1>1, <1>4, <1>5, <1>6 DEF tooLarge
<1>8. Max({0, mbr.remaining - kept}) = mbr.remaining - kept
  <2> HIDE DEF kept
  <2> DEFINE rest == mbr.remaining - kept
  <2>1. rest \in Int /\ rest >= 0
    BY <1>1, <1>7
  <2> HIDE DEF rest
  <2>2. Max({0, rest}) = rest
    BY <2>1, MaxOfTwo
  <2> QED
    BY <2>2 DEF rest
<1>9. mbr' = [remaining |-> mbr.remaining - kept, sawEOF |-> over, got |-> mbr.got + kept]
  BY <1>2, <1>8
<1>10. /\ mbr'.got \in Nat /\ mbr'.remaining \in Nat
       /\ mbr'.got + mbr'.remaining = DefaultHTTPLimit
       /\ mbr'.got <= response.length
  <2> HIDE DEF kept
  <2>1. mbr'.got = mbr.got + kept /\ mbr'.remaining = mbr.remaining - kept
    BY <1>9
  <2>2. kept \in Nat /\ kept <= mbr.remaining /\ kept <= response.length - mbr.got
    BY <1>5, <1>7
  <2>3. \A g, rest, k, length \in Nat :
            k <= rest /\ k <= length - g =>
                /\ g + k \in Nat /\ rest - k \in Nat
                /\ (g + k) + (rest - k) = g + rest
                /\ g + k <= length
    OBVIOUS
  <2> HIDE DEF Portion
  <2>4. /\ mbr.got + kept \in Nat /\ mbr.remaining - kept \in Nat
        /\ (mbr.got + kept) + (mbr.remaining - kept) = mbr.got + mbr.remaining
        /\ mbr.got + kept <= response.length
    BY <1>1, <2>2, <2>3, Zenon
  <2> QED
    BY <1>1, <2>1, <2>4, Zenon
<1>11. tooLarge(n) => response.length > DefaultHTTPLimit
  BY <1>1, <1>5, <1>6 DEF tooLarge
<1>12. ~tooLarge(n) /\ over => mbr.got + n = response.length /\ response.length <= DefaultHTTPLimit
  BY <1>1, <1>5, <1>7
<1>13. httpOutput' = IF tooLarge(n) THEN HttpError("too large")
                     ELSE IF over THEN HttpResult(mbr.got + n) ELSE Running
  BY <1>2
<1>14. UNCHANGED <<httpRequest, unread, handled, response>> /\ response # NoResponse
  BY DEF Read, Reading
<1>15. HttpTypeInv' /\ BodyInv' /\ ReaderInv'
  BY <1>10, <1>14 DEF HttpInv, HttpTypeInv, BodyInv, ReaderInv
<1>16. CASE tooLarge(n)
  <2>1. httpOutput' = HttpError("too large")
    BY <1>13, <1>16
  <2>2. httpOutput'.status = "errored"
    BY <2>1 DEF HttpError
  <2> QED
    BY <1>11, <1>14, <1>15, <1>16, <2>2 DEF HttpInv, ResultIsTheWholeResponse
<1>17. CASE ~tooLarge(n) /\ over
  <2>1. httpOutput' = HttpResult(mbr.got + n)
    BY <1>13, <1>17
  <2>2. httpOutput'.error # "too large"
    BY <2>1 DEF HttpResult, HttpError
  <2>3. httpOutput'.status = "completed" =>
            httpOutput'.length = mbr.got + n /\ ~(response.status >= 400)
    BY <2>1 DEF HttpResult, HttpError
  <2>4. mbr.got + n = response.length /\ response.length <= DefaultHTTPLimit
    BY <1>12, <1>17
  <2>5. ~(response.status >= 400) => response.status < 400
    BY <1>1
  <2>6. ResultIsTheWholeResponse'
    BY <1>14, <2>2, <2>3, <2>4, <2>5 DEF ResultIsTheWholeResponse
  <2> QED
    BY <1>15, <2>6 DEF HttpInv
<1>18. CASE ~tooLarge(n) /\ ~over
  <2>1. httpOutput'.status = "in_progress" /\ httpOutput'.error = "none"
    BY <1>13, <1>18 DEF Running
  <2> QED
    BY <1>15, <2>1 DEF HttpInv, ResultIsTheWholeResponse
<1> QED
  BY <1>16, <1>17, <1>18

LEMMA HttpInvNext == HttpInv /\ [HttpNext]_httpVars => HttpInv'
<1> SUFFICES ASSUME HttpInv, [HttpNext]_httpVars
             PROVE  HttpInv'
  OBVIOUS
<1>1. CASE ConnectionFails
  BY <1>1, AttemptFailsKeeps DEF ConnectionFails
<1>2. CASE BodyIsGone
  BY <1>2, AttemptFailsKeeps DEF BodyIsGone
<1>3. CASE ResponseIsLost
  BY <1>3, AttemptFailsKeeps DEF ResponseIsLost
<1>4. CASE ResponseArrives
  <2>1. response' # NoResponse /\ response'.length \in Nat /\ response'.status \in Nat
    BY <1>4 DEF ResponseArrives, NoResponse
  <2>2. /\ mbr'.remaining = DefaultHTTPLimit /\ mbr'.got = 0
    BY <1>4 DEF ResponseArrives
  <2>3. httpOutput' = Running /\ unread' = 0 /\ handled' = handled + 1
        /\ UNCHANGED httpRequest /\ unread = httpRequest.body
    BY <1>4 DEF ResponseArrives, Retrying, BodyIsWhole
  <2> DefaultHTTPLimit \in Nat
    BY HttpAssumption
  <2>4. HttpTypeInv'
    BY <2>1, <2>2, <2>3 DEF HttpInv, HttpTypeInv
  <2>7. /\ mbr'.got + mbr'.remaining = DefaultHTTPLimit
        /\ mbr'.got <= response'.length
    BY <2>1, <2>2
  <2>8. ReaderInv'
    BY <2>1, <2>7 DEF ReaderInv
  <2>5. BodyInv'
    BY <2>3 DEF HttpInv, HttpTypeInv, BodyInv
  <2>6. ResultIsTheWholeResponse'
    BY <2>3 DEF ResultIsTheWholeResponse, Running
  <2> QED
    BY <2>4, <2>5, <2>6, <2>8 DEF HttpInv
<1>5. CASE Read
  BY <1>5, ReadKeeps
<1>6. CASE ReadIsCancelled
  BY <1>6 DEF ReadIsCancelled, Reading, HttpError,
              HttpInv, HttpTypeInv, BodyInv, ReaderInv, ResultIsTheWholeResponse
<1>7. CASE UNCHANGED httpVars
  BY <1>7 DEF httpVars, HttpInv, HttpTypeInv, BodyInv, ReaderInv, ResultIsTheWholeResponse
<1> QED
  BY <1>1, <1>2, <1>3, <1>4, <1>5, <1>6, <1>7 DEF HttpNext

\* A completed task has the whole response, within the limit, and a post was handled once.
THEOREM ResponsesAreWhole == HttpSpec => []ResponseIsWhole
<1>1. HttpInv => ResponseIsWhole
  BY DEF HttpInv, BodyInv, ResponseIsWhole, PostIsHandledOnce
<1> QED
  BY <1>1, HttpInvInit, HttpInvNext, PTL DEF HttpSpec

----------------------------------------------------------------------------
(* Registry.                                                                *)

Arguments == DOMAIN SpecOf \cup BridgeNames \cup ExternalNames \cup Requests \cup {"none"}
ApiOps == {"none", "job", "agreement", "newBridge", "update", "destroy", "newExternal", "endExternal",
           "archive"}
ApiSteps == {"none", "begin", "notify", "store", "check", "answered", "add", "archive", "found", "delete",
             "done"}
Lowered == {Lower[n] : n \in ExternalNames}

RegistryTypeInv ==
    /\ requests \in [Requests -> [op : ApiOps, on : Arguments, at : ApiSteps, token : 0 .. MaxRequests]]
    /\ bridges \in [Bridges -> 0 .. MaxRequests]
    /\ jobs \in [Requests -> {"absent", "stored", "archived"}]
    /\ externals \in SUBSET Lowered
    /\ \A r \in Requests :
        /\ requests[r].op \in {"newBridge", "update", "destroy"} => requests[r].on \in BridgeNames
        /\ requests[r].op = "newExternal" => requests[r].on \in ExternalNames

\* A job is stored by the request that is named after it.
StoredByItsRequest ==
    \A j \in Requests : jobs[j] # "absent" => requests[j].op \in {"job", "agreement"}

\* What an update has read and will write back is a bridge.
FoundIsABridge == \A r \in Requests : requests[r].at = "found" => requests[r].token # NoBridgeToken

\* A bridge that is about to be removed, by the name it is known by, has no users but the
\* jobs that were stored since the jobs were asked for.
RemovedIsUnused ==
    \A r, j \in Requests :
        IsAt(r, "destroy", "delete") /\ requests[r].on = Bridge(r) /\ jobs[j] = "stored" /\ j \notin raced =>
            requests[r].on \notin BridgesOf(Wanted(j))

RegistryInv ==
    RegistryTypeInv /\ StoredByItsRequest /\ FoundIsABridge /\ RemovedIsUnused /\ JobsHaveTheirBridges

LEMMA RegistryInvInit == RegistryInit => RegistryInv
<1> SUFFICES ASSUME RegistryInit PROVE RegistryInv
  OBVIOUS
<1> USE RegistryAssumption DEF RegistryInit
<1>1. RegistryTypeInv
  <2>1. "none" \in Arguments
    BY Zenon DEF Arguments
  <2>2. NoBridgeToken \in 0 .. MaxRequests
    BY DEF NoBridgeToken
  <2> QED
    BY <2>1, <2>2 DEF RegistryTypeInv, ApiOps, ApiSteps
<1>2. StoredByItsRequest /\ FoundIsABridge /\ RemovedIsUnused
  BY DEF StoredByItsRequest, FoundIsABridge, RemovedIsUnused, IsAt
<1>3. JobsHaveTheirBridges
  BY DEF JobsHaveTheirBridges
<1> QED
  BY <1>1, <1>2, <1>3 DEF RegistryInv

\* A request that goes on keeps its operation and its argument.
LEMMA ApiRequestGoesOn ==
    ASSUME RegistryTypeInv, NEW r \in Requests, NEW step \in ApiSteps, GoesTo(r, step)
    PROVE  /\ requests' \in [Requests -> [op : ApiOps, on : Arguments, at : ApiSteps, token : 0 .. MaxRequests]]
           /\ \A q \in Requests :
                 /\ requests'[q].op = requests[q].op
                 /\ requests'[q].on = requests[q].on
                 /\ requests'[q].token = requests[q].token
                 /\ requests'[q].at = requests[q].at \/ (q = r /\ requests'[q].at = step)
           /\ \A q \in Requests :
                 /\ requests'[q].op \in {"newBridge", "update", "destroy"} => requests'[q].on \in BridgeNames
                 /\ requests'[q].op = "newExternal" => requests'[q].on \in ExternalNames
<1>1. requests \in [Requests -> [op : ApiOps, on : Arguments, at : ApiSteps, token : 0 .. MaxRequests]]
  BY DEF RegistryTypeInv
<1>2. requests' = [requests EXCEPT ![r].at = step]
  BY DEF GoesTo
<1>3. \A q \in Requests :
         /\ requests'[q].op = requests[q].op
         /\ requests'[q].on = requests[q].on
         /\ requests'[q].token = requests[q].token
         /\ requests'[q].at = requests[q].at \/ (q = r /\ requests'[q].at = step)
  BY <1>1, <1>2
<1>4. requests' \in [Requests -> [op : ApiOps, on : Arguments, at : ApiSteps, token : 0 .. MaxRequests]]
  BY <1>1, <1>2
<1>5. \A q \in Requests :
         /\ requests[q].op \in {"newBridge", "update", "destroy"} => requests[q].on \in BridgeNames
         /\ requests[q].op = "newExternal" => requests[q].on \in ExternalNames
  BY DEF RegistryTypeInv
<1> QED
  BY <1>3, <1>4, <1>5, Zenon

LEMMA StepNames ==
    /\ {"done", "add", "delete", "found"} \subseteq ApiSteps
    /\ "done" # "delete" /\ "done" # "found" /\ "add" # "delete" /\ "add" # "found" /\ "delete" # "found"
  BY DEF ApiSteps

\* A request goes on, and leaves the bridges and the jobs as they are.
LEMMA GoesOnKeeps ==
    ASSUME RegistryInv, NEW r \in Requests, NEW step \in ApiSteps, GoesTo(r, step),
           step # "found", requests[r].op = "destroy" => step # "delete",
           UNCHANGED <<bridges, jobs, raced, orphaned>>, externals' \in SUBSET Lowered
    PROVE  RegistryInv'
<1>a. RegistryTypeInv
  BY DEF RegistryInv
<1>1. RegistryTypeInv'
  BY <1>a, ApiRequestGoesOn DEF RegistryTypeInv
<1>2. \A q \in Requests : /\ requests'[q].op = requests[q].op
                          /\ requests'[q].on = requests[q].on
                          /\ requests'[q].token = requests[q].token
                          /\ requests'[q].at = requests[q].at \/ (q = r /\ requests'[q].at = step)
  BY <1>a, ApiRequestGoesOn
<1>3. StoredByItsRequest'
  BY <1>2, Zenon DEF RegistryInv, StoredByItsRequest
<1>4. FoundIsABridge'
  BY <1>2, Zenon DEF RegistryInv, FoundIsABridge
<1>5. RemovedIsUnused'
  <2> SUFFICES ASSUME NEW q \in Requests, NEW j \in Requests, IsAt(q, "destroy", "delete")',
                      (requests[q].on = Bridge(q))', jobs'[j] = "stored", j \notin raced'
               PROVE  requests'[q].on \notin BridgesOf(Wanted(j)')
    BY Zenon DEF RemovedIsUnused
  <2>1. IsAt(q, "destroy", "delete")
    BY <1>2, Zenon DEF IsAt
  <2>2. requests[q].on = Bridge(q) /\ jobs[j] = "stored" /\ j \notin raced
    BY <1>2, Zenon DEF Bridge
  <2>3. Wanted(j)' = Wanted(j) /\ requests'[q].on = requests[q].on
    BY <1>2, Zenon DEF Wanted
  <2> QED
    BY <2>1, <2>2, <2>3, Zenon DEF RegistryInv, RemovedIsUnused
<1>6. JobsHaveTheirBridges'
  BY <1>2, Zenon DEF RegistryInv, JobsHaveTheirBridges, HasBridge, Wanted
<1> QED
  BY <1>1, <1>3, <1>4, <1>5, <1>6 DEF RegistryInv

\* A job is stored: with its bridges there and none of them about to go, or raced.
LEMMA StoreJobKeeps ==
    ASSUME RegistryInv, NEW r \in Requests, GoesTo(r, "add"), StoreJob(r),
           requests[r].op \in {"job", "agreement"}, UNCHANGED <<bridges, orphaned, externals>>
    PROVE  RegistryInv'
<1>a. RegistryTypeInv
  BY DEF RegistryInv
<1>b. jobs' \in [Requests -> {"absent", "stored", "archived"}]
  BY <1>a DEF RegistryTypeInv, StoreJob
<1>1. RegistryTypeInv'
  BY <1>a, <1>b, ApiRequestGoesOn, StepNames DEF RegistryTypeInv
<1>2. \A q \in Requests : /\ requests'[q].op = requests[q].op
                          /\ requests'[q].on = requests[q].on
                          /\ requests'[q].token = requests[q].token
                          /\ requests'[q].at = requests[q].at \/ (q = r /\ requests'[q].at = "add")
  BY <1>a, ApiRequestGoesOn, StepNames
<1>3. \A j \in Requests : jobs'[j] = IF j = r THEN "stored" ELSE jobs[j]
  BY DEF RegistryInv, RegistryTypeInv, StoreJob
<1>4. StoredByItsRequest'
  BY <1>2, <1>3, Zenon DEF RegistryInv, StoredByItsRequest
<1>5. FoundIsABridge'
  BY <1>2, "add" # "found", Zenon DEF RegistryInv, FoundIsABridge
<1>6. raced \subseteq raced'
  BY Zenon DEF StoreJob
<1>7. r \notin raced' => \A b \in BridgesOf(Wanted(r)) : HasBridge(b) /\ ~BeingRemoved(b)
  BY Zenon DEF StoreJob
<1>8. RemovedIsUnused'
  <2> SUFFICES ASSUME NEW q \in Requests, NEW j \in Requests, IsAt(q, "destroy", "delete")',
                      (requests[q].on = Bridge(q) /\ jobs[j] = "stored" /\ j \notin raced)',
                      (requests[q].on \in BridgesOf(Wanted(j)))'
               PROVE  FALSE
    BY Zenon DEF RemovedIsUnused
  <2>1. IsAt(q, "destroy", "delete")
    BY <1>2, "add" # "delete", Zenon DEF IsAt
  <2>2. requests[q].on = Bridge(q) /\ requests[q].on \in BridgesOf(Wanted(j)) /\ j \notin raced
    BY <1>2, <1>6, Zenon DEF Bridge, Wanted
  <2>3. CASE j = r
    BY <2>1, <2>2, <2>3, <1>7, Zenon DEF BeingRemoved, Bridge
  <2>4. CASE j # r
    BY <2>1, <2>2, <2>4, <1>3, Zenon DEF RegistryInv, RemovedIsUnused
  <2> QED
    BY <2>3, <2>4
<1>9. JobsHaveTheirBridges'
  <2> SUFFICES ASSUME NEW j \in Requests, j \notin raced' \cup orphaned', jobs'[j] = "stored",
                      NEW b \in BridgesOf(Wanted(j))
               PROVE  HasBridge(b)
    BY <1>2, Zenon DEF JobsHaveTheirBridges, Wanted, HasBridge
  <2>1. CASE j = r
    BY <2>1, <1>7, Zenon
  <2>2. CASE j # r
    BY <2>2, <1>3, <1>6, Zenon DEF RegistryInv, JobsHaveTheirBridges
  <2> QED
    BY <2>1, <2>2
<1> QED
  BY <1>1, <1>4, <1>5, <1>8, <1>9 DEF RegistryInv

LEMMA ArchiveJobKeeps ==
    ASSUME RegistryInv, NEW r \in Requests, ArchiveJobSpec(r)
    PROVE  RegistryInv'
<1>a. RegistryTypeInv /\ GoesTo(r, "done") /\ UNCHANGED <<bridges, externals>>
  BY DEF RegistryInv, ArchiveJobSpec, Finishes
<1>b. jobs' \in [Requests -> {"absent", "stored", "archived"}]
  BY <1>a DEF RegistryTypeInv, ArchiveJobSpec
<1>1. RegistryTypeInv'
  BY <1>a, <1>b, ApiRequestGoesOn, StepNames DEF RegistryTypeInv
<1>2. \A q \in Requests : /\ requests'[q].op = requests[q].op
                          /\ requests'[q].on = requests[q].on
                          /\ requests'[q].token = requests[q].token
                          /\ requests'[q].at = requests[q].at \/ (q = r /\ requests'[q].at = "done")
  BY <1>a, ApiRequestGoesOn, StepNames
<1>3. \A j \in Requests : jobs'[j] # jobs[j] => jobs[j] = "stored" /\ jobs'[j] = "archived"
  BY DEF RegistryInv, RegistryTypeInv, ArchiveJobSpec
<1>4. bridges' = bridges /\ raced' = raced /\ orphaned' = orphaned
  BY DEF ArchiveJobSpec, history
<1>5. StoredByItsRequest'
  BY <1>2, <1>3, "stored" # "absent", Zenon DEF RegistryInv, StoredByItsRequest
<1>6. FoundIsABridge'
  BY <1>2, "done" # "found", Zenon DEF RegistryInv, FoundIsABridge
<1>7. RemovedIsUnused'
  <2>1. \A j \in Requests : jobs'[j] = "stored" => jobs[j] = "stored"
    BY <1>3, "archived" # "stored", Zenon
  <2>2. \A q \in Requests : IsAt(q, "destroy", "delete")' => IsAt(q, "destroy", "delete")
    BY <1>2, "done" # "delete", Zenon DEF IsAt
  <2> QED
    BY <1>2, <1>4, <2>1, <2>2, Zenon DEF RegistryInv, RemovedIsUnused, Bridge, Wanted
<1>8. JobsHaveTheirBridges'
  <2>1. \A j \in Requests : jobs'[j] = "stored" => jobs[j] = "stored"
    BY <1>3, "archived" # "stored", Zenon
  <2> QED
    BY <1>2, <1>4, <2>1, Zenon DEF RegistryInv, JobsHaveTheirBridges, HasBridge, Wanted
<1> QED
  BY <1>1, <1>5, <1>6, <1>7, <1>8 DEF RegistryInv

\* A request begins, which is the making of no job yet.
LEMMA BeginRequestKeeps ==
    ASSUME RegistryInv, NEW r \in Requests, NEW op \in ApiOps, NEW on \in Arguments, BeginRequest(r, op, on),
           op \in {"newBridge", "update", "destroy"} => on \in BridgeNames,
           op = "newExternal" => on \in ExternalNames
    PROVE  RegistryInv'
<1> USE RegistryAssumption
<1>1. RegistryTypeInv'
  BY DEF RegistryInv, RegistryTypeInv, BeginRequest, NoBridgeToken, ApiSteps
<1>2. \A q \in Requests \ {r} : requests'[q] = requests[q]
  BY DEF RegistryInv, RegistryTypeInv, BeginRequest
<1>3. requests'[r].at = "begin" /\ jobs[r] = "absent"
  BY DEF RegistryInv, RegistryTypeInv, BeginRequest, StoredByItsRequest
<1>4. UNCHANGED <<bridges, jobs, raced, orphaned>>
  BY DEF BeginRequest, history
<1>5. StoredByItsRequest'
  BY <1>2, <1>3, <1>4, Zenon DEF RegistryInv, StoredByItsRequest
<1>6. FoundIsABridge'
  BY <1>2, <1>3, "begin" # "found", Zenon DEF RegistryInv, FoundIsABridge
<1>7. RemovedIsUnused'
  BY <1>2, <1>3, <1>4, "begin" # "delete", "absent" # "stored", Zenon
     DEF RegistryInv, RemovedIsUnused, IsAt, Bridge, Wanted
<1>8. JobsHaveTheirBridges'
  BY <1>2, <1>3, <1>4, "absent" # "stored", Zenon
     DEF RegistryInv, JobsHaveTheirBridges, HasBridge, Wanted
<1> QED
  BY <1>1, <1>5, <1>6, <1>7, <1>8 DEF RegistryInv

\* A request ends that makes a bridge, or writes back what it has read of one.
LEMMA BridgeIsWritten ==
    ASSUME RegistryInv, NEW r \in Requests, NEW token \in 0 .. MaxRequests, token # NoBridgeToken,
           bridges' = [bridges EXCEPT ![Bridge(r)] = token], Finishes(r),
           UNCHANGED <<jobs, externals, raced, orphaned>>
    PROVE  RegistryInv'
<1>a. RegistryTypeInv /\ GoesTo(r, "done")
  BY DEF RegistryInv, Finishes
<1>b. bridges' \in [Bridges -> 0 .. MaxRequests]
  BY <1>a DEF RegistryTypeInv
<1>1. RegistryTypeInv'
  BY <1>a, <1>b, ApiRequestGoesOn, StepNames DEF RegistryTypeInv
<1>2. \A q \in Requests : /\ requests'[q].op = requests[q].op
                          /\ requests'[q].on = requests[q].on
                          /\ requests'[q].token = requests[q].token
                          /\ requests'[q].at = requests[q].at \/ (q = r /\ requests'[q].at = "done")
  BY <1>a, ApiRequestGoesOn, StepNames
<1>3. \A b : HasBridge(b) => HasBridge(b)'
  BY DEF RegistryInv, RegistryTypeInv, HasBridge, NoBridgeToken
<1>4. StoredByItsRequest'
  BY <1>2, Zenon DEF RegistryInv, StoredByItsRequest
<1>5. FoundIsABridge'
  BY <1>2, "done" # "found", Zenon DEF RegistryInv, FoundIsABridge
<1>6. RemovedIsUnused'
  BY <1>2, "done" # "delete", Zenon DEF RegistryInv, RemovedIsUnused, IsAt, Bridge, Wanted
<1>7. JobsHaveTheirBridges'
  BY <1>2, <1>3, Zenon DEF RegistryInv, JobsHaveTheirBridges, Wanted
<1> QED
  BY <1>1, <1>4, <1>5, <1>6, <1>7 DEF RegistryInv

LEMMA FindBridgeKeeps ==
    ASSUME RegistryInv, NEW r \in Requests, FindBridge(r)
    PROVE  RegistryInv'
<1> DEFINE at == IF ~HasBridge(Bridge(r)) THEN "done" ELSE "found"
<1>1. /\ requests[r].on \in BridgeNames
      /\ bridges[Bridge(r)] \in 0 .. MaxRequests
      /\ at = "found" => bridges[Bridge(r)] # NoBridgeToken
  BY DEF RegistryInv, RegistryTypeInv, FindBridge, Bridge, Bridges, HasBridge
<1>2. requests' = [requests EXCEPT ![r].at = at, ![r].token = bridges[Bridge(r)]]
  BY DEF FindBridge
<1>3. at \in {"done", "found"}
  BY Zenon
<1> HIDE DEF at
<1>5. /\ \A q \in Requests : /\ requests'[q].op = requests[q].op
                             /\ requests'[q].on = requests[q].on
      /\ \A q \in Requests \ {r} : requests'[q] = requests[q]
      /\ requests'[r].at = at /\ requests'[r].token = bridges[Bridge(r)]
  BY <1>1, <1>2, <1>3 DEF RegistryInv, RegistryTypeInv
<1>4. RegistryTypeInv'
  <2>1. UNCHANGED <<bridges, jobs, externals>> /\ at \in ApiSteps
    BY <1>3 DEF FindBridge, ApiSteps
  <2>2. requests' \in [Requests -> [op : ApiOps, on : Arguments, at : ApiSteps, token : 0 .. MaxRequests]]
    BY <1>1, <1>2, <2>1 DEF RegistryInv, RegistryTypeInv
  <2> QED
    BY <1>5, <2>1, <2>2, Zenon DEF RegistryInv, RegistryTypeInv
<1>6. UNCHANGED <<bridges, jobs, raced, orphaned>>
  BY DEF FindBridge, history
<1>7. StoredByItsRequest'
  BY <1>5, <1>6, Zenon DEF RegistryInv, StoredByItsRequest
<1>8. FoundIsABridge'
  BY <1>1, <1>5, Zenon DEF RegistryInv, FoundIsABridge
<1>9. RemovedIsUnused'
  BY <1>3, <1>5, <1>6, "done" # "delete", "found" # "delete", Zenon
     DEF RegistryInv, RemovedIsUnused, IsAt, Bridge, Wanted
<1>10. JobsHaveTheirBridges'
  BY <1>5, <1>6, Zenon DEF RegistryInv, JobsHaveTheirBridges, HasBridge, Wanted
<1> QED
  BY <1>4, <1>7, <1>8, <1>9, <1>10 DEF RegistryInv

LEMMA AnyJobWithTypeKeeps ==
    ASSUME RegistryInv, NEW r \in Requests, AnyJobWithType(r)
    PROVE  RegistryInv'
<1> DEFINE step == IF UsersOf(requests[r].on) # {} THEN "done" ELSE "delete"
<1>1. step \in {"done", "delete"} /\ (step = "delete" => UsersOf(requests[r].on) = {})
  BY "done" # "delete", Zenon
<1>2. GoesTo(r, step)
  BY DEF AnyJobWithType
<1> HIDE DEF step
<1>3. UNCHANGED <<bridges, jobs, externals, raced, orphaned>>
  BY DEF AnyJobWithType, history
<1>a. RegistryTypeInv /\ step \in ApiSteps
  BY <1>1, StepNames DEF RegistryInv
<1>4. RegistryTypeInv'
  BY <1>a, <1>2, <1>3, ApiRequestGoesOn DEF RegistryTypeInv
<1>5. \A q \in Requests : /\ requests'[q].op = requests[q].op
                          /\ requests'[q].on = requests[q].on
                          /\ requests'[q].token = requests[q].token
                          /\ requests'[q].at = requests[q].at \/ (q = r /\ requests'[q].at = step)
  BY <1>a, <1>2, ApiRequestGoesOn
<1>6. StoredByItsRequest'
  BY <1>3, <1>5, Zenon DEF RegistryInv, StoredByItsRequest
<1>7. FoundIsABridge'
  BY <1>1, <1>5, "done" # "found", "delete" # "found", Zenon DEF RegistryInv, FoundIsABridge
<1>8. RemovedIsUnused'
  <2> SUFFICES ASSUME NEW q \in Requests, NEW j \in Requests, IsAt(q, "destroy", "delete")',
                      (requests[q].on = Bridge(q) /\ jobs[j] = "stored" /\ j \notin raced)'
               PROVE  (requests[q].on \notin BridgesOf(Wanted(j)))'
    BY Zenon DEF RemovedIsUnused
  <2>1. CASE requests'[q].at = requests[q].at
    BY <2>1, <1>3, <1>5, Zenon DEF RegistryInv, RemovedIsUnused, IsAt, Bridge, Wanted
  <2>2. CASE q = r /\ requests'[q].at = step
    <3>1. UsersOf(requests[r].on) = {}
      BY <2>2, <1>1, Zenon DEF IsAt
    <3>2. requests[q].on \notin BridgesOf(Wanted(j))
      BY <3>1, <2>2, <1>3 DEF UsersOf
    <3> QED
      BY <3>2, <1>5, Zenon DEF Wanted
  <2> QED
    BY <2>1, <2>2, <1>5
<1>9. JobsHaveTheirBridges'
  BY <1>3, <1>5, Zenon DEF RegistryInv, JobsHaveTheirBridges, HasBridge, Wanted
<1> QED
  BY <1>4, <1>6, <1>7, <1>8, <1>9 DEF RegistryInv

LEMMA DeleteBridgeTypeKeeps ==
    ASSUME RegistryInv, NEW r \in Requests, DeleteBridgeType(r)
    PROVE  RegistryInv'
<1> USE RegistryAssumption
<1>a. RegistryTypeInv /\ GoesTo(r, "done")
  BY DEF RegistryInv, DeleteBridgeType, Finishes
<1>1. RegistryTypeInv'
  <2>1. bridges' \in [Bridges -> 0 .. MaxRequests]
    <3>1. bridges \in [Bridges -> 0 .. MaxRequests] /\ NoBridgeToken \in 0 .. MaxRequests
      BY DEF RegistryInv, RegistryTypeInv, NoBridgeToken
    <3>2. bridges' = [bridges EXCEPT ![Bridge(r)] = NoBridgeToken]
      BY DEF DeleteBridgeType
    <3> QED
      BY <3>1, <3>2
  <2>2. UNCHANGED <<jobs, externals>>
    BY DEF DeleteBridgeType
  <2> QED
    BY <1>a, <2>1, <2>2, ApiRequestGoesOn, StepNames DEF RegistryTypeInv
<1>2. \A q \in Requests : /\ requests'[q].op = requests[q].op
                          /\ requests'[q].on = requests[q].on
                          /\ requests'[q].token = requests[q].token
                          /\ requests'[q].at = requests[q].at \/ (q = r /\ requests'[q].at = "done")
  BY <1>a, ApiRequestGoesOn, StepNames
<1>3. UNCHANGED <<jobs, raced>>
  BY DEF DeleteBridgeType
<1>4. \A b : b # Bridge(r) /\ HasBridge(b) => HasBridge(b)'
  BY DEF RegistryInv, RegistryTypeInv, DeleteBridgeType, HasBridge
<1>5. StoredByItsRequest'
  BY <1>2, <1>3, Zenon DEF RegistryInv, StoredByItsRequest
<1>6. FoundIsABridge'
  BY <1>2, "done" # "found", Zenon DEF RegistryInv, FoundIsABridge
<1>7. RemovedIsUnused'
  <2>1. \A q \in Requests : IsAt(q, "destroy", "delete")' => IsAt(q, "destroy", "delete")
    BY <1>2, "done" # "delete", Zenon DEF IsAt
  <2> QED
    BY <1>2, <1>3, <2>1, Zenon DEF RegistryInv, RemovedIsUnused, Bridge, Wanted
<1>8. orphaned \subseteq orphaned'
  BY Zenon DEF DeleteBridgeType
<1>9. \A j \in Requests \ (raced' \cup orphaned') :
         jobs[j] = "stored" => Bridge(r) \notin BridgesOf(Wanted(j))
  <2>1. CASE requests[r].on = Bridge(r)
    BY <2>1, <1>3, Zenon DEF RegistryInv, RemovedIsUnused, DeleteBridgeType
  <2>2. CASE requests[r].on # Bridge(r)
    <3>1. UsersOf(Bridge(r)) \ raced \subseteq orphaned'
      BY <2>2, Zenon DEF DeleteBridgeType
    <3> QED
      BY <3>1, <1>3 DEF UsersOf
  <2> QED
    BY <2>1, <2>2
<1>10. JobsHaveTheirBridges'
  <2> SUFFICES ASSUME NEW j \in Requests, j \notin raced' \cup orphaned', jobs'[j] = "stored",
                      NEW b \in BridgesOf(Wanted(j))
               PROVE  HasBridge(b)'
    BY <1>2, Zenon DEF JobsHaveTheirBridges, Wanted
  <2>1. HasBridge(b)
    BY <1>3, <1>8, Zenon DEF RegistryInv, JobsHaveTheirBridges
  <2>2. b # Bridge(r)
    BY <1>3, <1>9, Zenon
  <2> QED
    BY <2>1, <2>2, <1>4
<1> QED
  BY <1>1, <1>5, <1>6, <1>7, <1>10 DEF RegistryInv

LEMMA RegistryInvNext ==
    ASSUME RegistryInv, [RegistryNext]_registryVars
    PROVE  RegistryInv'
<1> USE RegistryAssumption
<1>1. externals \in SUBSET Lowered
  BY DEF RegistryInv, RegistryTypeInv
<1>9. "done" \in ApiSteps /\ "done" # "found" /\ "done" # "delete"
  BY DEF ApiSteps
<1>2. ASSUME NEW r \in Requests, BeginAny(r)
      PROVE  RegistryInv'
  <2>1. CASE \E s \in DOMAIN SpecOf :
                BeginRequest(r, "job", s) \/ (Dev /\ BeginRequest(r, "agreement", s))
    <3>1. PICK s \in DOMAIN SpecOf, op \in {"job", "agreement"} : BeginRequest(r, op, s)
      BY <2>1
    <3>2. s \in Arguments
      BY Zenon DEF Arguments
    <3>3. op \in ApiOps /\ op \notin {"newBridge", "update", "destroy", "newExternal"}
      BY <3>1 DEF ApiOps
    <3> QED
      BY <3>1, <3>2, <3>3, BeginRequestKeeps
  <2>2. CASE \E b \in BridgeNames, op \in {"newBridge", "update", "destroy"} : BeginRequest(r, op, b)
    <3>1. PICK b \in BridgeNames, op \in {"newBridge", "update", "destroy"} : BeginRequest(r, op, b)
      BY <2>2
    <3>2. b \in Arguments
      BY Zenon DEF Arguments
    <3>3. op \in ApiOps /\ op # "newExternal"
      BY <3>1 DEF ApiOps
    <3> QED
      BY <3>1, <3>2, <3>3, BeginRequestKeeps
  <2>3. CASE \E n \in ExternalNames, op \in {"newExternal", "endExternal"} : BeginRequest(r, op, n)
    <3>1. PICK n \in ExternalNames, op \in {"newExternal", "endExternal"} : BeginRequest(r, op, n)
      BY <2>3
    <3>2. n \in Arguments
      BY Zenon DEF Arguments
    <3>3. op \in ApiOps /\ op \notin {"newBridge", "update", "destroy"}
      BY <3>1 DEF ApiOps
    <3> QED
      BY <3>1, <3>2, <3>3, BeginRequestKeeps
  <2>4. CASE \E j \in Requests : jobs[j] # "absent" /\ BeginRequest(r, "archive", j)
    <3>1. PICK j \in Requests : BeginRequest(r, "archive", j)
      BY <2>4
    <3>2. j \in Arguments
      BY Zenon DEF Arguments
    <3>3. "archive" \in ApiOps /\ "archive" \notin {"newBridge", "update", "destroy", "newExternal"}
      BY DEF ApiOps
    <3> QED
      BY <3>1, <3>2, <3>3, BeginRequestKeeps
  <2> QED
    BY <1>2, <2>1, <2>2, <2>3, <2>4 DEF BeginAny
<1>3. ASSUME NEW r \in Requests,
             \/ CheckJob(r) \/ NotifyExternalInitiator(r) \/ AddToServices(r)
             \/ FindServiceAgreement(r) \/ CheckAgreement(r) \/ RemoveFromServices(r)
             \/ CheckBridge(r) \/ CheckExternal(r)
      PROVE  RegistryInv'
  <2>1. /\ UNCHANGED <<bridges, jobs, raced, orphaned, externals>>
        /\ \E step \in {"done", "notify", "store", "answered", "check", "archive"} : GoesTo(r, step)
    BY <1>3 DEF CheckJob, NotifyExternalInitiator, AddToServices, FindServiceAgreement, CheckAgreement,
                RemoveFromServices, CheckBridge, CheckExternal, Finishes, history
  <2>2. PICK step \in {"done", "notify", "store", "answered", "check", "archive"} : GoesTo(r, step)
    BY <2>1
  <2>3. step \in ApiSteps /\ step # "found" /\ step # "delete"
    BY DEF ApiSteps
  <2> QED
    BY <1>1, <2>1, <2>2, <2>3, GoesOnKeeps
<1>4. ASSUME NEW r \in Requests, CreateJobSpec(r) \/ CreateServiceAgreement(r)
      PROVE  RegistryInv'
  <2>1. /\ UNCHANGED <<bridges, orphaned, externals>>
        /\ requests[r].op \in {"job", "agreement"}
        /\ \/ StoreJob(r) /\ GoesTo(r, "add")
           \/ GoesTo(r, "done") /\ UNCHANGED <<jobs, raced>>
    BY <1>4 DEF CreateJobSpec, CreateServiceAgreement, Finishes, IsAt
  <2>2. CASE StoreJob(r) /\ GoesTo(r, "add")
    BY <2>1, <2>2, StoreJobKeeps
  <2>3. CASE GoesTo(r, "done") /\ UNCHANGED <<jobs, raced>>
    BY <1>1, <1>9, <2>1, <2>3, GoesOnKeeps
  <2> QED
    BY <2>1, <2>2, <2>3
<1>5. ASSUME NEW r \in Requests, CreateBridgeType(r)
      PROVE  RegistryInv'
  <2>1. Finishes(r) /\ UNCHANGED <<jobs, externals, raced, orphaned>>
    BY <1>5 DEF CreateBridgeType
  <2>2. CASE bridges' = [bridges EXCEPT ![Bridge(r)] = r]
    <3>1. r \in 0 .. MaxRequests /\ r # NoBridgeToken
      BY DEF Requests, NoBridgeToken
    <3> QED
      BY <2>1, <2>2, <3>1, BridgeIsWritten
  <2>3. CASE UNCHANGED bridges
    BY <1>1, <1>9, <2>1, <2>3, GoesOnKeeps DEF Finishes
  <2> QED
    BY <1>5, <2>2, <2>3 DEF CreateBridgeType
<1>6. ASSUME NEW r \in Requests, UpdateBridgeType(r)
      PROVE  RegistryInv'
  <2>1. Finishes(r) /\ UNCHANGED <<jobs, externals, raced, orphaned>>
    BY <1>6 DEF UpdateBridgeType, history
  <2>2. requests[r].token \in 0 .. MaxRequests /\ requests[r].token # NoBridgeToken
    BY <1>6 DEF UpdateBridgeType, IsAt, RegistryInv, RegistryTypeInv, FoundIsABridge
  <2>3. bridges' = [bridges EXCEPT ![Bridge(r)] = requests[r].token]
    BY <1>6 DEF UpdateBridgeType
  <2> QED
    BY <2>1, <2>2, <2>3, BridgeIsWritten
<1>7. ASSUME NEW r \in Requests,
             CreateExternalInitiator(r) \/ FindExternal(r) \/ DeleteExternalInitiator(r)
      PROVE  RegistryInv'
  <2>1. /\ UNCHANGED <<bridges, jobs, raced, orphaned>>
        /\ requests[r].op \in {"newExternal", "endExternal"}
        /\ \E step \in {"done", "delete"} : GoesTo(r, step)
    BY <1>7 DEF CreateExternalInitiator, FindExternal, DeleteExternalInitiator, Finishes, IsAt, history
  <2>2. externals' \in SUBSET Lowered
    <3>1. CASE CreateExternalInitiator(r)
      BY <1>1, <3>1 DEF CreateExternalInitiator, IsAt, RegistryInv, RegistryTypeInv, Lowered
    <3>2. CASE FindExternal(r) \/ DeleteExternalInitiator(r)
      BY <1>1, <3>2 DEF FindExternal, DeleteExternalInitiator
    <3> QED
      BY <1>7, <3>1, <3>2
  <2>3. PICK step \in {"done", "delete"} : GoesTo(r, step)
    BY <2>1
  <2>4. /\ step \in ApiSteps /\ step # "found"
        /\ requests[r].op = "destroy" => step # "delete"
    BY <2>1, <2>3 DEF ApiSteps
  <2> QED
    BY <2>1, <2>2, <2>3, <2>4, GoesOnKeeps
<1>8. CASE UNCHANGED registryVars
  BY <1>8 DEF registryVars, RegistryInv, RegistryTypeInv, StoredByItsRequest, FoundIsABridge,
              RemovedIsUnused, JobsHaveTheirBridges, IsAt, Bridge, Wanted, HasBridge
<1> QED
  BY <1>2, <1>3, <1>4, <1>5, <1>6, <1>7, <1>8, ArchiveJobKeeps, FindBridgeKeeps, AnyJobWithTypeKeeps,
     DeleteBridgeTypeKeeps DEF RegistryNext

LEMMA RegistryHolds == RegistrySpec => [](JobsHaveTheirBridges /\ NamesAreUnique)
<1>1. RegistryInv => JobsHaveTheirBridges /\ NamesAreUnique
  BY RegistryAssumption DEF RegistryInv, RegistryTypeInv, Lowered, NamesAreUnique
<1>2. RegistryInv /\ [RegistryNext]_registryVars => RegistryInv'
  BY RegistryInvNext
<1> QED
  BY RegistryInvInit, <1>1, <1>2, PTL DEF RegistrySpec

----------------------------------------------------------------------------
(* Batches.                                                                 *)

\* The rows of the table up to the nth.
FirstRows(n) == {rows[i] : i \in 1 .. n}

BatchTypes ==
    /\ paged \in {"runs", "jobs"}
    /\ done \in BOOLEAN
    /\ rows \in Seq(Keys) /\ IsInjective(rows)
    /\ passed \in Seq(Keys) /\ IsInjective(passed)
    /\ batchOffset \in 0 .. Len(rows)

\* Of runs the first page is all that is ever passed.
RunsPassed ==
    paged = "runs" =>
        \/ batchOffset = 0 /\ ~done /\ passed = <<>>
        \/ batchOffset = 0 /\ done /\ passed = rows /\ Len(rows) < PageSize
        \/ batchOffset = PageSize /\ passed = SubSeq(rows, 1, PageSize)

\* Jobs have been passed up to the offset.
JobsPassed ==
    paged = "jobs" => Range(passed) = IF done THEN Range(rows) ELSE FirstRows(batchOffset)

BatchInv == BatchTypes /\ RunsPassed /\ JobsPassed

LEMMA RangeOfConcat ==
    ASSUME NEW K, NEW s \in Seq(K), NEW t \in Seq(K)
    PROVE  /\ Range(s \o t) = Range(s) \cup Range(t)
           /\ IsInjective(s) /\ IsInjective(t) /\ Range(s) \cap Range(t) = {} => IsInjective(s \o t)
<1> DEFINE u == s \o t
<1>1. /\ DOMAIN s = 1 .. Len(s) /\ DOMAIN t = 1 .. Len(t) /\ DOMAIN u = 1 .. Len(s) + Len(t)
      /\ Len(s) \in Nat /\ Len(t) \in Nat
  OBVIOUS
<1>2. /\ \A i \in 1 .. Len(s) : i \in DOMAIN u /\ u[i] = s[i]
      /\ \A i \in 1 .. Len(t) : Len(s) + i \in DOMAIN u /\ u[Len(s) + i] = t[i]
  OBVIOUS
<1>3. \A i \in DOMAIN u : \/ i \in 1 .. Len(s)
                          \/ \E k \in 1 .. Len(t) : i = Len(s) + k
  <2> SUFFICES ASSUME NEW i \in DOMAIN u, i \notin 1 .. Len(s)
               PROVE  \E k \in 1 .. Len(t) : i = Len(s) + k
    OBVIOUS
  <2>1. i - Len(s) \in 1 .. Len(t) /\ i = Len(s) + (i - Len(s))
    BY <1>1
  <2> QED
    BY <2>1
<1> HIDE DEF u
<1>4. Range(u) = Range(s) \cup Range(t)
  <2>1. Range(u) \subseteq Range(s) \cup Range(t)
    BY <1>1, <1>2, <1>3 DEF Range
  <2>2. Range(s) \subseteq Range(u) /\ Range(t) \subseteq Range(u)
    BY <1>1, <1>2 DEF Range
  <2> QED
    BY <2>1, <2>2
<1>5. ASSUME IsInjective(s), IsInjective(t), Range(s) \cap Range(t) = {}
      PROVE  IsInjective(u)
  <2> SUFFICES ASSUME NEW a \in DOMAIN u, NEW b \in DOMAIN u, u[a] = u[b]
               PROVE  a = b
    BY DEF IsInjective
  <2>1. \A i \in 1 .. Len(s), k \in 1 .. Len(t) : u[i] # u[Len(s) + k]
    BY <1>1, <1>2, <1>5 DEF Range
  <2>2. \A i, k \in 1 .. Len(s) : u[i] = u[k] => i = k
    BY <1>1, <1>2, <1>5 DEF IsInjective
  <2>3. \A i, k \in 1 .. Len(t) : u[Len(s) + i] = u[Len(s) + k] => i = k
    <3> SUFFICES ASSUME NEW i \in 1 .. Len(t), NEW k \in 1 .. Len(t),
                        u[Len(s) + i] = u[Len(s) + k]
                 PROVE  i = k
      OBVIOUS
    <3>1. t[i] = t[k]
      BY <1>2
    <3> QED
      BY <1>1, <1>5, <3>1, Zenon DEF IsInjective
  <2> QED
    BY <1>3, <2>1, <2>2, <2>3, Zenon
<1> QED
  BY <1>4, <1>5 DEF u

\* A finite set as a sequence, whichever it is.
LEMMA SetAsSequence ==
    ASSUME NEW S, IsFiniteSet(S)
    PROVE  /\ SetToSeq(S) \in Seq(S)
           /\ IsInjective(SetToSeq(S))
           /\ Range(SetToSeq(S)) = S
<1> DEFINE n == Cardinality(S)
<1>1. n \in Nat /\ ExistsBijection(1 .. n, S)
  BY FS_CardinalityType
<1>2. \E f \in [1 .. n -> S] : IsInjective(f)
  BY <1>1, Zenon DEF ExistsBijection, Bijection, Injection
<1>3. SetToSeq(S) \in [1 .. n -> S] /\ IsInjective(SetToSeq(S))
  BY <1>2, Zenon DEF SetToSeq
<1>4. IsFiniteSet(1 .. n) /\ Cardinality(1 .. n) = Cardinality(S)
  BY <1>1, FS_Interval
<1>5. SetToSeq(S) \in Injection(1 .. n, S)
  BY <1>3, Zenon DEF Injection
<1>6. SetToSeq(S) \in Surjection(1 .. n, S)
  BY <1>4, <1>5, FS_Injection
<1> HIDE DEF n
<1>7. Range(SetToSeq(S)) = S
  BY <1>3, <1>6 DEF Surjection, Range
<1> QED
  BY <1>1, <1>3, <1>7

LEMMA SequenceFromTable ==
    ASSUME NEW r \in Tables(1)
    PROVE  r \in Seq(Keys) /\ IsInjective(r)
<1>1. r \in SeqOf(Keys, MaxRows) /\ \A k \in Keys : RowsOf(k, r) <= 1
  BY DEF Tables
<1>2. PICK m \in 0 .. MaxRows : r \in [1 .. m -> Keys]
  BY <1>1 DEF SeqOf
<1>3. m \in Nat
  BY <1>2, BatchAssumption
<1>4. IsInjective(r)
  <2> SUFFICES ASSUME NEW a \in DOMAIN r, NEW b \in DOMAIN r, r[a] = r[b], a # b
               PROVE  FALSE
    BY DEF IsInjective
  <2> DEFINE T == {n \in DOMAIN r : r[n] = r[a]}
  <2>1. DOMAIN r = 1 .. m /\ IsFiniteSet(1 .. m)
    BY <1>2, <1>3, FS_Interval
  <2>2. T \in SUBSET (1 .. m) /\ {a, b} \in SUBSET T
    BY <2>1
  <2>3. IsFiniteSet(T) /\ Cardinality(T) <= 1
    <3>1. r[a] \in Keys
      BY <1>2, <2>1
    <3>2. Cardinality(T) <= 1
      BY <1>1, <3>1 DEF RowsOf
    <3> HIDE DEF T
    <3> QED
      BY <2>1, <2>2, <3>2, FS_Subset
  <2> HIDE DEF T
  <2>4. Cardinality({a} \cup {b}) = 2 /\ IsFiniteSet({a} \cup {b})
    <3>1. IsFiniteSet({a}) /\ Cardinality({a}) = 1
      BY FS_Singleton
    <3>2. b \notin {a} /\ 1 + 1 = 2
      OBVIOUS
    <3>3. Cardinality({a} \cup {b}) = Cardinality({a}) + 1 /\ IsFiniteSet({a} \cup {b})
      BY <3>1, <3>2, FS_AddElement, Zenon
    <3> QED
      BY <3>1, <3>2, <3>3, Zenon
  <2>5. {a, b} = {a} \cup {b}
    OBVIOUS
  <2>6. Cardinality({a, b}) <= Cardinality(T) /\ Cardinality(T) \in Nat
    BY <2>2, <2>3, FS_Subset, FS_CardinalityType
  <2> QED
    BY <2>3, <2>4, <2>5, <2>6
<1> QED
  BY <1>2, <1>3, <1>4

\* Batch is done after a page that is not full, and goes on after one that is.
LEMMA BatchGoesOn ==
    ASSUME NEW count \in Int, Batch(count)
    PROVE  /\ count < PageSize => done' = TRUE /\ batchOffset' = batchOffset
           /\ ~(count < PageSize) => done' = FALSE /\ batchOffset' = batchOffset + PageSize
<1>1. done' \in BOOLEAN
  BY SMT DEF Batch
<1>2. (count < PageSize => done') /\ (~(count < PageSize) => ~done')
  BY Zenon DEF Batch
<1>3. /\ count < PageSize => batchOffset' = batchOffset
      /\ ~(count < PageSize) => batchOffset' = batchOffset + PageSize
  BY Zenon DEF Batch
<1> QED
  BY <1>1, <1>2, <1>3, Zenon

LEMMA BatchInvInit == MaxPerJob = 1 /\ BatchInit => BatchInv
<1> SUFFICES ASSUME MaxPerJob = 1, BatchInit PROVE BatchInv
  OBVIOUS
<1>1. rows \in Seq(Keys) /\ IsInjective(rows)
  <2>1. rows \in Tables(1)
    BY DEF BatchInit
  <2> QED
    BY <2>1, SequenceFromTable
<1>2. passed = <<>> /\ batchOffset = 0 /\ ~done /\ done \in BOOLEAN /\ paged \in {"runs", "jobs"}
  BY DEF BatchInit
<1>3. IsInjective(<<>>) /\ <<>> \in Seq(Keys) /\ Range(<<>>) = {}
  BY DEF IsInjective, Range
<1>4. BatchTypes
  BY <1>1, <1>2, <1>3 DEF BatchTypes
<1>5. RunsPassed
  BY <1>2 DEF RunsPassed
<1>6. JobsPassed
  BY <1>2, <1>3 DEF JobsPassed, FirstRows
<1> QED
  BY <1>4, <1>5, <1>6 DEF BatchInv

\* The first rows of a table without repetitions.
LEMMA FirstPage ==
    ASSUME rows \in Seq(Keys), IsInjective(rows), NEW n \in 0 .. Len(rows)
    PROVE  /\ SubSeq(rows, 1, n) \in Seq(Keys)
           /\ IsInjective(SubSeq(rows, 1, n))
           /\ Len(SubSeq(rows, 1, n)) = n
           /\ n = Len(rows) => SubSeq(rows, 1, n) = rows
<1> DEFINE page == SubSeq(rows, 1, n)
<1>1. page \in Seq(Keys) /\ Len(page) = n /\ \A i \in 1 .. n : page[i] = rows[i]
  OBVIOUS
<1>2. DOMAIN page = 1 .. n /\ DOMAIN rows = 1 .. Len(rows) /\ 1 .. n \subseteq 1 .. Len(rows)
  BY <1>1
<1>3. n = Len(rows) => page = rows
  OBVIOUS
<1> HIDE DEF page
<1>4. IsInjective(page)
  BY <1>1, <1>2 DEF IsInjective
<1> QED
  BY <1>1, <1>3, <1>4 DEF page

LEMMA RunsPageKeeps ==
    ASSUME BatchInv, RunsPage
    PROVE  BatchInv'
<1> USE BatchAssumption
<1> DEFINE m == Min({PageSize, Len(rows)})
<1>1. /\ rows \in Seq(Keys) /\ IsInjective(rows) /\ Len(rows) \in Nat
      /\ UNCHANGED <<paged, rows>> /\ paged = "runs" /\ ~done
  BY DEF BatchInv, BatchTypes, RunsPage
<1>2. m = IF PageSize <= Len(rows) THEN PageSize ELSE Len(rows)
  BY <1>1, MinOfTwo
<1>3. /\ passed' = passed \o SubSeq(rows, batchOffset + 1, m)
      /\ Batch(Len(SubSeq(rows, batchOffset + 1, m)))
  BY DEF RunsPage
<1> HIDE DEF m
<1>4. m \in 0 .. Len(rows) /\ m <= PageSize
  BY <1>1, <1>2
<1>5. CASE batchOffset = 0 /\ passed = <<>>
  <2>1. /\ SubSeq(rows, batchOffset + 1, m) = SubSeq(rows, 1, m)
        /\ passed' = SubSeq(rows, 1, m)
        /\ Len(SubSeq(rows, batchOffset + 1, m)) = m
    BY <1>1, <1>3, <1>4, <1>5, FirstPage
  <2>2. SubSeq(rows, 1, m) \in Seq(Keys) /\ IsInjective(SubSeq(rows, 1, m))
    BY <1>1, <1>4, FirstPage
  <2>3. CASE m < PageSize
    <3>1. m = Len(rows) /\ SubSeq(rows, 1, m) = rows
      BY <1>1, <1>2, <1>4, <2>3, FirstPage
    <3>2. done' = TRUE /\ batchOffset' = 0
      <4>1. Batch(m)
        BY <1>3, <2>1
      <4>2. m \in Int
        BY <1>1, <1>4
      <4> QED
        BY <1>5, <2>3, <4>1, <4>2, BatchGoesOn, Zenon
    <3> QED
      BY <1>1, <1>5, <2>1, <2>2, <2>3, <3>1, <3>2 DEF BatchInv, BatchTypes, RunsPassed, JobsPassed
  <2>4. CASE m = PageSize
    <3>1. done' = FALSE /\ batchOffset' = PageSize
      <4>1. Batch(m)
        BY <1>3, <2>1
      <4>2. m \in Int /\ ~(m < PageSize) /\ 0 + PageSize = PageSize
        BY <2>4
      <4> QED
        BY <1>5, <4>1, <4>2, BatchGoesOn, Zenon
    <3> QED
      BY <1>1, <1>4, <2>1, <2>2, <2>4, <3>1 DEF BatchInv, BatchTypes, RunsPassed, JobsPassed
  <2> QED
    BY <1>4, <2>3, <2>4
<1>6. CASE batchOffset = PageSize /\ passed = SubSeq(rows, 1, PageSize)
  <2>1. PageSize <= Len(rows) /\ m = PageSize
    BY <1>2, <1>6 DEF BatchInv, BatchTypes
  <2>2. SubSeq(rows, batchOffset + 1, m) = <<>>
    BY <1>1, <1>6, <2>1
  <2>3. passed \in Seq(Keys) /\ IsInjective(passed)
    BY DEF BatchInv, BatchTypes
  <2>4. passed' = passed /\ done' = TRUE /\ batchOffset' = batchOffset
    <3>1. passed \o <<>> = passed /\ Len(<<>>) = 0 /\ 0 < PageSize /\ 0 \in Int
      BY <2>3
    <3>2. Batch(0)
      BY <1>3, <2>2, <3>1
    <3> QED
      <4>1. done' = TRUE /\ batchOffset' = batchOffset
        BY <3>1, <3>2, BatchGoesOn, Zenon
      <4>2. passed' = passed
        BY <1>3, <2>2, <3>1
      <4> QED
        BY <4>1, <4>2
  <2> QED
    BY <1>1, <1>6, <2>1, <2>3, <2>4 DEF BatchInv, BatchTypes, RunsPassed, JobsPassed
<1> QED
  BY <1>1, <1>5, <1>6 DEF BatchInv, RunsPassed

\* A page of a table without repetitions has as many keys as rows, and none from before it.
LEMMA JobsOfPage ==
    ASSUME rows \in Seq(Keys), IsInjective(rows), NEW a \in Nat, NEW b \in 0 .. Len(rows), a <= b
    PROVE  LET found == Range(SubSeq(rows, a + 1, b)) IN
           /\ found \in SUBSET Keys
           /\ IsFiniteSet(found) /\ Cardinality(found) = b - a
           /\ found \cap FirstRows(a) = {} /\ found \cup FirstRows(a) = FirstRows(b)
<1> DEFINE page == SubSeq(rows, a + 1, b)
<1>1. page \in Seq(Keys) /\ Len(page) = b - a /\ \A i \in 1 .. b - a : page[i] = rows[a + i]
  OBVIOUS
<1>2. DOMAIN page = 1 .. b - a /\ DOMAIN rows = 1 .. Len(rows) /\ b - a \in Nat
  BY <1>1
<1>3. \A i \in 1 .. b - a : a + i \in 1 .. Len(rows)
  BY <1>2
<1> HIDE DEF page
<1>4. page \in Injection(1 .. b - a, Range(page)) /\ page \in Surjection(1 .. b - a, Range(page))
  <2>1. page \in [1 .. b - a -> Range(page)]
    BY <1>1, <1>2 DEF Range
  <2>2. IsInjective(page)
    <3> SUFFICES ASSUME NEW i \in 1 .. b - a, NEW k \in 1 .. b - a, page[i] = page[k]
                 PROVE  i = k
      BY <1>2 DEF IsInjective
    <3>1. a + i = a + k
      BY <1>1, <1>2, <1>3 DEF IsInjective
    <3> QED
      BY <3>1, <1>2
  <2> QED
    BY <1>2, <2>1, <2>2 DEF Injection, Surjection, Range
<1>5. IsFiniteSet(Range(page)) /\ Cardinality(Range(page)) = b - a
  <2>1. IsFiniteSet(1 .. b - a) /\ Cardinality(1 .. b - a) = b - a
    BY <1>2, FS_Interval
  <2> QED
    BY <1>4, <2>1, FS_Surjection
<1>6. Range(page) \in SUBSET Keys
  BY <1>1, <1>2 DEF Range
<1>7. \A i \in 1 .. b : i \in 1 .. Len(rows) /\ (i \in 1 .. a \/ (i - a \in 1 .. b - a /\ a + (i - a) = i))
  OBVIOUS
<1>8. Range(page) \cup FirstRows(a) = FirstRows(b)
  <2>1. \A i \in 1 .. a : i \in 1 .. b
    OBVIOUS
  <2>2. \A i \in 1 .. b - a : a + i \in 1 .. b
    OBVIOUS
  <2>3. Range(page) \subseteq FirstRows(b) /\ FirstRows(a) \subseteq FirstRows(b)
    BY <1>1, <1>2, <2>1, <2>2 DEF Range, FirstRows
  <2>4. FirstRows(b) \subseteq Range(page) \cup FirstRows(a)
    <3> SUFFICES ASSUME NEW i \in 1 .. b
                 PROVE  rows[i] \in Range(page) \cup FirstRows(a)
      BY DEF FirstRows
    <3>1. CASE i \in 1 .. a
      BY <3>1 DEF FirstRows
    <3>2. CASE i - a \in 1 .. b - a /\ a + (i - a) = i
      <4>1. page[i - a] = rows[i]
        BY <1>1, <3>2
      <4> QED
        BY <1>2, <3>2, <4>1 DEF Range
    <3> QED
      BY <1>7, <3>1, <3>2
  <2> QED
    BY <2>3, <2>4
<1>9. Range(page) \cap FirstRows(a) = {}
  <2> SUFFICES ASSUME NEW i \in 1 .. b - a, NEW k \in 1 .. a, page[i] = rows[k]
               PROVE  FALSE
    BY <1>2 DEF Range, FirstRows
  <2>1. k \in 1 .. Len(rows)
    OBVIOUS
  <2>2. a + i = k
    BY <1>1, <1>2, <1>3, <2>1 DEF IsInjective
  <2> QED
    BY <2>2, <1>2
<1> QED
  BY <1>5, <1>6, <1>8, <1>9 DEF page

LEMMA JobsPageKeeps ==
    ASSUME BatchInv, JobsPage
    PROVE  BatchInv'
<1> USE BatchAssumption
<1> DEFINE m == Min({batchOffset + PageSize, Len(rows)})
           found == Range(SubSeq(rows, batchOffset + 1, m))
           more == SetToSeq(found)
<1>1. /\ rows \in Seq(Keys) /\ IsInjective(rows) /\ Len(rows) \in Nat
      /\ UNCHANGED <<paged, rows>> /\ paged = "jobs" /\ done = FALSE
      /\ batchOffset \in Nat /\ batchOffset <= Len(rows)
      /\ passed \in Seq(Keys) /\ IsInjective(passed)
      /\ Range(passed) = FirstRows(batchOffset)
  BY DEF BatchInv, BatchTypes, JobsPage, JobsPassed
<1>2. m = IF batchOffset + PageSize <= Len(rows) THEN batchOffset + PageSize ELSE Len(rows)
  BY <1>1, MinOfTwo
<1>3. passed' = passed \o more /\ Batch(Cardinality(found))
  BY DEF JobsPage
<1> HIDE DEF m
<1>4. m \in 0 .. Len(rows) /\ batchOffset <= m
  BY <1>1, <1>2
<1>5. /\ found \in SUBSET Keys /\ IsFiniteSet(found) /\ Cardinality(found) = m - batchOffset
      /\ found \cap Range(passed) = {} /\ found \cup Range(passed) = FirstRows(m)
  BY <1>1, <1>4, JobsOfPage
<1> HIDE DEF found
<1>6. more \in Seq(found) /\ IsInjective(more) /\ Range(more) = found
  BY <1>5, SetAsSequence
<1> HIDE DEF more
<1>7. more \in Seq(Keys)
  BY <1>5, <1>6
<1>8. Range(passed') = FirstRows(m) /\ IsInjective(passed') /\ passed' \in Seq(Keys)
  <2>1. passed' = passed \o more
    BY <1>3 DEF more
  <2>2. /\ Range(passed \o more) = Range(passed) \cup Range(more)
        /\ Range(passed) \cap Range(more) = {} => IsInjective(passed \o more)
    BY <1>1, <1>6, <1>7, RangeOfConcat
  <2>3. Range(passed) \cap Range(more) = {} /\ Range(passed) \cup Range(more) = FirstRows(m)
    BY <1>5, <1>6
  <2>4. passed \o more \in Seq(Keys)
    BY <1>1, <1>7
  <2> QED
    BY <2>1, <2>2, <2>3, <2>4
<1>9. Batch(m - batchOffset)
  BY <1>3, <1>5 DEF found
<1>10. CASE m - batchOffset < PageSize
  <2>1. m = Len(rows) /\ done' = TRUE /\ batchOffset' = batchOffset
    <3>1. m = Len(rows) /\ m - batchOffset \in Int
      BY <1>1, <1>2, <1>10
    <3> QED
      BY <1>9, <1>10, <3>1, BatchGoesOn, Zenon
  <2>2. FirstRows(m) = Range(rows)
    BY <1>1, <2>1 DEF FirstRows, Range
  <2>3. BatchTypes'
    BY <1>1, <1>8, <2>1 DEF BatchTypes
  <2>4. RunsPassed' /\ JobsPassed'
    BY <1>1, <1>8, <2>1, <2>2 DEF RunsPassed, JobsPassed
  <2> QED
    BY <2>3, <2>4 DEF BatchInv
<1>11. CASE m = batchOffset + PageSize
  <2>1. done' = FALSE /\ batchOffset' = m
    <3>1. ~(m - batchOffset < PageSize) /\ m - batchOffset \in Int
      BY <1>1, <1>4, <1>11
    <3> QED
      BY <1>9, <1>11, <3>1, BatchGoesOn, Zenon
  <2>3. BatchTypes'
    BY <1>1, <1>4, <1>8, <2>1 DEF BatchTypes
  <2>4. RunsPassed' /\ JobsPassed'
    BY <1>1, <1>8, <2>1 DEF RunsPassed, JobsPassed, FirstRows
  <2> QED
    BY <2>3, <2>4 DEF BatchInv
<1> QED
  BY <1>1, <1>2, <1>10, <1>11

LEMMA BatchInvNext ==
    ASSUME BatchInv, [BatchNext]_batchVars
    PROVE  BatchInv'
<1>1. CASE UNCHANGED batchVars
  BY <1>1 DEF batchVars, BatchInv, BatchTypes, RunsPassed, JobsPassed, FirstRows
<1> QED
  BY <1>1, RunsPageKeeps, JobsPageKeeps DEF BatchNext

LEMMA BatchesHold == MaxPerJob = 1 /\ BatchSpec => [](BatchTypeOK /\ AllArePassed /\ NonePassedTwice)
<1>1. BatchInv => BatchTypeOK /\ AllArePassed /\ NonePassedTwice
  <2> SUFFICES ASSUME BatchInv PROVE BatchTypeOK /\ AllArePassed /\ NonePassedTwice
    OBVIOUS
  <2> USE BatchAssumption
  <2>1. rows \in Seq(Keys) /\ IsInjective(rows) /\ Len(rows) \in Nat /\ batchOffset \in 0 .. Len(rows)
    BY DEF BatchInv, BatchTypes
  <2>2. Min({PageSize, Len(rows)}) = IF PageSize <= Len(rows) THEN PageSize ELSE Len(rows)
    BY <2>1, MinOfTwo
  <2>3. BatchTypeOK
    BY <2>1, <2>2 DEF BatchInv, BatchTypes, RunsPassed, BatchTypeOK
  <2>4. paged = "runs" /\ done /\ Len(rows) <= PageSize => passed = rows
    <3> SUFFICES ASSUME paged = "runs", done, Len(rows) <= PageSize
                 PROVE  passed = rows
      OBVIOUS
    <3>1. CASE passed = rows
      BY <3>1
    <3>2. CASE batchOffset = PageSize /\ passed = SubSeq(rows, 1, PageSize)
      BY <2>1, <3>2, FirstPage
    <3> QED
      BY <3>1, <3>2 DEF BatchInv, RunsPassed
  <2>5. AllArePassed
    BY <2>4 DEF AllArePassed, BatchInv, BatchTypes, JobsPassed
  <2>6. NonePassedTwice
    BY DEF BatchInv, BatchTypes, NonePassedTwice
  <2> QED
    BY <2>3, <2>5, <2>6
<1>2. BatchInv /\ [BatchNext]_batchVars => BatchInv'
  BY BatchInvNext
<1> QED
  BY BatchInvInit, <1>1, <1>2, PTL DEF BatchSpec

\* Stored jobs have their bridges, external initiators their own names, and pages pass
\* what is stored once, when a job has one log initiator.
THEOREM StoredRecordsAreFound == MaxPerJob = 1 /\ RegistrySpec /\ BatchSpec => []StoredIsFound
<1>1. JobsHaveTheirBridges /\ NamesAreUnique /\ BatchTypeOK /\ AllArePassed /\ NonePassedTwice => StoredIsFound
  BY DEF StoredIsFound
<1> QED
  BY <1>1, RegistryHolds, BatchesHold, PTL

----------------------------------------------------------------------------
(* PriceFeeds.                                                              *)

\* In an order of prices that are equal the one asked first comes first.
Precedes(s, i, j) == s[i] < s[j] \/ (s[i] = s[j] /\ i < j)
\* The place of a price among all.
Place(s, i) == Cardinality({j \in DOMAIN s : Precedes(s, j, i)}) + 1

InOrder(s, p) == \A i, j \in DOMAIN s : i <= j => s[p[i]] <= s[p[j]]

LEMMA PrecedesIsAnOrder ==
    ASSUME NEW s \in Seq(Int)
    PROVE  /\ \A i \in DOMAIN s : ~Precedes(s, i, i)
           /\ \A i, j \in DOMAIN s : i # j => Precedes(s, i, j) \/ Precedes(s, j, i)
           /\ \A i, j, k \in DOMAIN s : Precedes(s, i, j) /\ Precedes(s, j, k) => Precedes(s, i, k)
<1>1. \A i \in DOMAIN s : s[i] \in Int /\ i \in Int
  OBVIOUS
<1>2. \A x, y \in Int : x < y \/ x = y \/ y < x
  OBVIOUS
<1>3. \A i \in DOMAIN s : ~Precedes(s, i, i)
  BY <1>1 DEF Precedes
<1>4. \A i, j \in DOMAIN s : i # j => Precedes(s, i, j) \/ Precedes(s, j, i)
  BY <1>1, <1>2 DEF Precedes
<1>5. ASSUME NEW i \in DOMAIN s, NEW j \in DOMAIN s, NEW k \in DOMAIN s,
             Precedes(s, i, j), Precedes(s, j, k)
      PROVE  Precedes(s, i, k)
  <2> DEFINE a == s[i]
             b == s[j]
             c == s[k]
  <2>1. a \in Int /\ b \in Int /\ c \in Int /\ i \in Int /\ j \in Int /\ k \in Int
    BY <1>1
  <2>2. (a < b \/ (a = b /\ i < j)) /\ (b < c \/ (b = c /\ j < k))
    BY <1>5 DEF Precedes
  <2> HIDE DEF a, b, c
  <2>3. a < c \/ (a = c /\ i < k)
    BY <2>1, <2>2
  <2> QED
    BY <2>3 DEF Precedes, a, c
<1> QED
  BY <1>3, <1>4, <1>5

\* The places are a bijection of the indices.
LEMMA PlacesAreIndices ==
    ASSUME NEW s \in Seq(Int)
    PROVE  /\ \A i \in DOMAIN s : Place(s, i) \in DOMAIN s
           /\ \A i, j \in DOMAIN s : Precedes(s, i, j) => Place(s, i) < Place(s, j)
           /\ \A n \in DOMAIN s : \E i \in DOMAIN s : Place(s, i) = n
<1> DEFINE n == Len(s)
           before(i) == {j \in DOMAIN s : Precedes(s, j, i)}
<1>1. DOMAIN s = 1 .. n /\ n \in Nat
  OBVIOUS
<1>2. IsFiniteSet(DOMAIN s) /\ Cardinality(DOMAIN s) = n
  <2> HIDE DEF n
  <2>1. IsFiniteSet(1 .. n) /\ Cardinality(1 .. n) = IF 1 > n THEN 0 ELSE n - 1 + 1
    <3>1. 1 \in Int /\ n \in Int
      BY <1>1
    <3> QED
      BY <3>1, FS_Interval, Zenon
  <2>2. (IF 1 > n THEN 0 ELSE n - 1 + 1) = n
    BY <1>1
  <2> QED
    BY <1>1, <2>1, <2>2, Zenon
<1>3. \A i \in DOMAIN s : before(i) \in SUBSET DOMAIN s /\ i \notin before(i)
  BY PrecedesIsAnOrder
<1>4. \A i \in DOMAIN s : IsFiniteSet(before(i)) /\ Cardinality(before(i)) \in Nat
                          /\ Cardinality(before(i)) < n
  <2> SUFFICES ASSUME NEW i \in DOMAIN s
               PROVE  IsFiniteSet(before(i)) /\ Cardinality(before(i)) \in Nat /\ Cardinality(before(i)) < n
    OBVIOUS
  <2> HIDE DEF before, n
  <2>1. /\ IsFiniteSet(before(i)) /\ Cardinality(before(i)) <= Cardinality(DOMAIN s)
        /\ Cardinality(DOMAIN s) = Cardinality(before(i)) => DOMAIN s = before(i)
    BY <1>2, <1>3, FS_Subset
  <2>2. Cardinality(before(i)) \in Nat
    BY <2>1, FS_CardinalityType
  <2>3. Cardinality(before(i)) # n
    BY <1>2, <1>3, <2>1
  <2> QED
    BY <1>1, <1>2, <2>1, <2>2, <2>3
<1>5. ASSUME NEW i \in DOMAIN s, NEW j \in DOMAIN s, Precedes(s, i, j)
      PROVE  Cardinality(before(i)) < Cardinality(before(j))
  <2>1. before(i) \in SUBSET before(j)
    BY <1>5, PrecedesIsAnOrder
  <2>2. i \in before(j) /\ i \notin before(i)
    BY <1>5, PrecedesIsAnOrder
  <2> HIDE DEF before
  <2>3. before(i) # before(j)
    BY <2>2
  <2>4. /\ Cardinality(before(i)) <= Cardinality(before(j))
        /\ Cardinality(before(i)) # Cardinality(before(j))
    BY <1>4, <2>1, <2>3, FS_Subset
  <2> QED
    BY <1>4, <2>4
<1>6. \A i \in DOMAIN s : Place(s, i) = Cardinality(before(i)) + 1
  BY DEF Place
<1> HIDE DEF before
<1>7. \A i \in DOMAIN s : Place(s, i) \in DOMAIN s
  BY <1>1, <1>4, <1>6
<1>8. \A i, j \in DOMAIN s : Precedes(s, i, j) => Place(s, i) < Place(s, j)
  <2> SUFFICES ASSUME NEW i \in DOMAIN s, NEW j \in DOMAIN s, Precedes(s, i, j)
               PROVE  Place(s, i) < Place(s, j)
    OBVIOUS
  <2>1. Cardinality(before(i)) < Cardinality(before(j))
    BY <1>5
  <2> QED
    BY <1>4, <1>6, <2>1
<1>9. \A m \in DOMAIN s : \E i \in DOMAIN s : Place(s, i) = m
  <2> DEFINE f == [i \in DOMAIN s |-> Place(s, i)]
  <2>1. f \in [DOMAIN s -> DOMAIN s]
    BY <1>7
  <2>2. \A i, j \in DOMAIN s : i # j => f[i] # f[j]
    <3> SUFFICES ASSUME NEW i \in DOMAIN s, NEW j \in DOMAIN s, i # j
                 PROVE  Place(s, i) # Place(s, j)
      OBVIOUS
    <3>1. Place(s, i) < Place(s, j) \/ Place(s, j) < Place(s, i)
      BY <1>8, PrecedesIsAnOrder, Zenon
    <3>2. Place(s, i) \in Int /\ Place(s, j) \in Int
      BY <1>1, <1>7
    <3> QED
      BY <3>1, <3>2
  <2> HIDE DEF f
  <2>3. f \in Injection(DOMAIN s, DOMAIN s)
    BY <2>1, <2>2 DEF Injection, IsInjective
  <2>4. f \in Surjection(DOMAIN s, DOMAIN s)
    BY <1>2, <2>3, FS_Injection
  <2>5. \A m \in DOMAIN s : \E i \in DOMAIN s : f[i] = m
    BY <2>4 DEF Surjection
  <2> QED
    BY <2>5 DEF f
<1> QED
  BY <1>7, <1>8, <1>9

\* There is an order in which the prices do not fall, so Sorted is one.
LEMMA OrderExists ==
    ASSUME NEW s \in Seq(Int)
    PROVE  \E p \in Bijection(DOMAIN s, DOMAIN s) : InOrder(s, p)
<1> DEFINE p == [n \in DOMAIN s |-> CHOOSE i \in DOMAIN s : Place(s, i) = n]
<1>1. \A n \in DOMAIN s : p[n] \in DOMAIN s /\ Place(s, p[n]) = n
  BY PlacesAreIndices, Zenon
<1>2. p \in [DOMAIN s -> DOMAIN s]
  BY <1>1
<1> HIDE DEF p
<1>3. \A n, m \in DOMAIN s : p[n] = p[m] => n = m
  BY <1>1, Zenon
<1>4. p \in Injection(DOMAIN s, DOMAIN s)
  BY <1>2, <1>3 DEF Injection, IsInjective
<1>5. IsFiniteSet(DOMAIN s)
  <2>1. DOMAIN s = 1 .. Len(s) /\ Len(s) \in Int
    OBVIOUS
  <2> QED
    BY <2>1, FS_Interval
<1>6. p \in Bijection(DOMAIN s, DOMAIN s)
  BY <1>4, <1>5, FS_Injection DEF Bijection
<1>7. InOrder(s, p)
  <2> SUFFICES ASSUME NEW i \in DOMAIN s, NEW j \in DOMAIN s, i <= j, ~(s[p[i]] <= s[p[j]])
               PROVE  FALSE
    BY DEF InOrder
  <2>1. s[p[i]] \in Int /\ s[p[j]] \in Int /\ i \in Int /\ j \in Int
    <3>1. \A n \in DOMAIN s : n \in Int /\ s[n] \in Int
      OBVIOUS
    <3> QED
      BY <1>1, <3>1, Zenon
  <2>2. Precedes(s, p[j], p[i])
    <3>1. \A x, y \in Int : ~(x <= y) => y < x
      OBVIOUS
    <3> QED
      BY <2>1, <3>1, Zenon DEF Precedes
  <2>3. Place(s, p[j]) < Place(s, p[i])
    BY <1>1, <2>2, PlacesAreIndices, Zenon
  <2>4. j < i
    BY <1>1, <2>3, Zenon
  <2> QED
    BY <2>1, <2>4
<1> QED
  BY <1>6, <1>7

\* What is sorted rises, and some of it that are lies are lies of those sorted.
LEMMA SortedIs ==
    ASSUME NEW s \in Seq(Int)
    PROVE  /\ Sorted(s) \in Seq(Int) /\ Len(Sorted(s)) = Len(s)
           /\ \A i, j \in 1 .. Len(s) : i <= j => Sorted(s)[i] <= Sorted(s)[j]
           /\ \A H : \A A \in SUBSET (1 .. Len(s)) :
                  (\A i \in A : Sorted(s)[i] \notin H) =>
                      Cardinality(A) <= Cardinality({i \in DOMAIN s : s[i] \notin H})
<1> DEFINE p == CHOOSE p \in Bijection(DOMAIN s, DOMAIN s) :
                    \A i, j \in DOMAIN s : i <= j => s[p[i]] <= s[p[j]]
           t == Sorted(s)
<1>1. DOMAIN s = 1 .. Len(s) /\ Len(s) \in Nat
  OBVIOUS
<1>2. p \in Bijection(DOMAIN s, DOMAIN s) /\ \A i, j \in DOMAIN s : i <= j => s[p[i]] <= s[p[j]]
  BY OrderExists, Zenon DEF InOrder
<1>3. t = [i \in DOMAIN s |-> s[p[i]]]
  BY Zenon DEF Sorted
<1> HIDE DEF p, t
<1>4. p \in [DOMAIN s -> DOMAIN s] /\ p \in Injection(DOMAIN s, DOMAIN s)
  BY <1>2 DEF Bijection, Injection
<1>5. t \in [1 .. Len(s) -> Int]
  BY <1>1, <1>3, <1>4
<1>6. t \in Seq(Int) /\ Len(t) = Len(s)
  BY <1>1, <1>5
<1>7. \A i, j \in 1 .. Len(s) : i <= j => t[i] <= t[j]
  BY <1>1, <1>2, <1>3
<1>8. ASSUME NEW H, NEW A \in SUBSET (1 .. Len(s)), \A i \in A : t[i] \notin H
      PROVE  Cardinality(A) <= Cardinality({i \in DOMAIN s : s[i] \notin H})
  <2> DEFINE B == {i \in DOMAIN s : s[i] \notin H}
             f == [i \in A |-> p[i]]
  <2>1. f \in [A -> B]
    BY <1>1, <1>3, <1>4, <1>8
  <2>2. \A i, j \in A : f[i] = f[j] => i = j
    BY <1>1, <1>4 DEF Injection, IsInjective
  <2>3. B \in SUBSET (1 .. Len(s)) /\ IsFiniteSet(1 .. Len(s))
    BY <1>1, FS_Interval
  <2> HIDE DEF f, B
  <2>4. f \in Injection(A, B)
    BY <2>1, <2>2 DEF Injection, IsInjective
  <2>5. IsFiniteSet(B)
    BY <2>3, FS_Subset
  <2>6. Cardinality(A) <= Cardinality(B)
    BY <2>4, <2>5, FS_Injection
  <2> QED
    BY <2>6 DEF B
<1> QED
  BY <1>6, <1>7, <1>8 DEF t

\* A majority is not outvoted.
LEMMA MedianIsHonest ==
    ASSUME NEW s \in Seq(Int), NEW low \in Int, NEW high \in Int,
           2 * Cardinality({i \in DOMAIN s : s[i] \notin HonestPrices}) < Len(s),
           HonestPrices \subseteq low .. high
    PROVE  Median(Sorted(s)) \in low .. high
<1> DEFINE n == Len(s)
           k == n \div 2
           t == Sorted(s)
           lies == Cardinality({i \in DOMAIN s : s[i] \notin HonestPrices})
<1>1. /\ t \in Seq(Int) /\ Len(t) = n
      /\ \A i, j \in 1 .. n : i <= j => t[i] <= t[j]
      /\ \A A \in SUBSET (1 .. n) : (\A i \in A : t[i] \notin HonestPrices) => Cardinality(A) <= lies
  BY SortedIs
<1>2. lies \in Nat /\ n \in Nat
  <2>1. {i \in DOMAIN s : s[i] \notin HonestPrices} \in SUBSET (1 .. n) /\ n \in Nat
    OBVIOUS
  <2>2. IsFiniteSet(1 .. n)
    BY <2>1, FS_Interval
  <2> QED
    BY <2>1, <2>2, FS_Subset, FS_CardinalityType
<1>3. 2 * lies < n
  OBVIOUS
<1>4. Median(t) = IF n % 2 = 1 THEN t[k + 1] ELSE (t[k + 1] + t[k]) \div 2
  BY <1>1, Zenon DEF Median
<1> HIDE DEF t, lies, n
<1>5. k \in Nat /\ (n % 2 = 1 => n = 2 * k + 1) /\ (n % 2 # 1 => n = 2 * k)
  BY <1>2
<1> HIDE DEF k
<1>6. 0 < n /\ k + 1 \in 1 .. n /\ (n % 2 # 1 => k \in 1 .. n)
  BY <1>2, <1>3, <1>5
<1>7. ASSUME NEW a \in 1 .. n, NEW b \in 1 .. n, 2 * (b - a + 1) >= n
      PROVE  \E i \in a .. b : t[i] \in low .. high
  <2> SUFFICES ASSUME \A i \in a .. b : t[i] \notin low .. high
               PROVE  FALSE
    OBVIOUS
  <2>1. a .. b \in SUBSET (1 .. n) /\ \A i \in a .. b : t[i] \notin HonestPrices
    <3>1. \A i \in a .. b : i \in 1 .. n
      BY <1>2
    <3>2. \A x : x \notin low .. high => x \notin HonestPrices
      BY Zenon
    <3> QED
      BY <3>1, <3>2, Zenon
  <2>2. Cardinality(a .. b) <= lies
    BY <1>1, <2>1
  <2>3. Cardinality(a .. b) = IF a > b THEN 0 ELSE b - a + 1
    <3>1. a \in Int /\ b \in Int
      BY <1>2
    <3> QED
      BY <3>1, FS_Interval, Zenon
  <2> DEFINE c == Cardinality(a .. b)
  <2>4. a \in Int /\ b \in Int /\ c <= lies /\ c = IF a > b THEN 0 ELSE b - a + 1
    BY <1>2, <2>2, <2>3
  <2> HIDE DEF c
  <2> QED
    BY <1>2, <1>3, <1>7, <2>4
<1>8. CASE n % 2 = 1
  <2>a. /\ 1 \in 1 .. n /\ k + 1 \in 1 .. n /\ n \in 1 .. n
        /\ 2 * ((k + 1) - 1 + 1) >= n /\ 2 * (n - (k + 1) + 1) >= n
    BY <1>2, <1>5, <1>6, <1>8
  <2>1. PICK i \in 1 .. k + 1 : t[i] \in low .. high
    BY <1>7, <2>a, Zenon
  <2>2. PICK j \in k + 1 .. n : t[j] \in low .. high
    BY <1>7, <2>a, Zenon
  <2>3. /\ i \in 1 .. n /\ i <= k + 1 /\ j \in 1 .. n /\ k + 1 <= j
        /\ t[k + 1] \in Int
    BY <1>1, <1>2, <1>5, <2>a
  <2>4. t[i] <= t[k + 1] /\ t[k + 1] <= t[j]
    BY <1>1, <2>a, <2>3, Zenon
  <2>5. t[k + 1] \in low .. high
    BY <2>1, <2>2, <2>3, <2>4
  <2> QED
    BY <1>4, <1>8, <2>5, Zenon DEF t
<1>9. CASE n % 2 # 1
  <2>a. /\ 1 \in 1 .. n /\ k \in 1 .. n /\ k + 1 \in 1 .. n /\ n \in 1 .. n /\ k <= k + 1
        /\ 2 * (k - 1 + 1) >= n /\ 2 * (n - (k + 1) + 1) >= n
    BY <1>2, <1>5, <1>6, <1>9
  <2>1. PICK i \in 1 .. k : t[i] \in low .. high
    BY <1>7, <2>a, Zenon
  <2>2. PICK j \in k + 1 .. n : t[j] \in low .. high
    BY <1>7, <2>a, Zenon
  <2>b. /\ i \in 1 .. n /\ i <= k /\ j \in 1 .. n /\ k + 1 <= j
        /\ t[k] \in Int /\ t[k + 1] \in Int /\ t[i] \in Int /\ t[j] \in Int
    BY <1>1, <1>2, <1>5, <2>a
  <2>c. t[i] <= t[k] /\ t[k] <= t[k + 1] /\ t[k + 1] <= t[j]
    BY <1>1, <2>a, <2>b, Zenon
  <2>3. low <= t[k] /\ t[k] <= t[k + 1] /\ t[k + 1] <= high
    BY <2>1, <2>2, <2>b, <2>c
  <2>4. \A x, y \in Int : low <= x /\ x <= y /\ y <= high => (y + x) \div 2 \in low .. high
    OBVIOUS
  <2> QED
    BY <1>4, <1>9, <2>b, <2>3, <2>4, Zenon DEF t
<1> QED
  BY <1>8, <1>9 DEF t

\* A fetch keeps whole prices, and answers with their median.
FeedInv ==
    /\ prices \in Seq(Int)
    /\ fetch.status = "fetched" => fetch.price = Median(Sorted(prices))

LEMMA FeedInvInit == FeedInit => FeedInv
<1> SUFFICES ASSUME FeedInit PROVE FeedInv
  OBVIOUS
<1>1. fetch.status # "fetched"
  BY DEF FeedInit, Fetching
<1> QED
  BY <1>1 DEF FeedInit, FeedInv

LEMMA FeedInvNext == FeedInv /\ [FeedNext]_feedVars => FeedInv'
<1> SUFFICES ASSUME FeedInv, [FeedNext]_feedVars PROVE FeedInv'
  OBVIOUS
<1>1. CASE FetchOne
  <2>1. PICK a \in Answers : prices' = prices \o PriceOf(a)
    BY <1>1 DEF FetchOne
  <2>2. PriceOf(a) \in Seq(Int)
    BY FeedAssumption DEF PriceOf
  <2>3. prices' \in Seq(Int)
    BY <2>1, <2>2 DEF FeedInv
  <2>4. fetch'.status # "fetched"
    BY <1>1 DEF FetchOne, Fetching
  <2> QED
    BY <2>3, <2>4 DEF FeedInv
<1>2. CASE FetchEnds
  <2>1. prices' = prices
    BY <1>2 DEF FetchEnds
  <2>2. \/ fetch' = [status |-> "failed", price |-> 0]
        \/ fetch' = [status |-> "fetched", price |-> Median(Sorted(prices))]
    BY <1>2, Zenon DEF FetchEnds
  <2> QED
    BY <2>1, <2>2 DEF FeedInv
<1>3. CASE UNCHANGED feedVars
  BY <1>3 DEF feedVars, FeedInv
<1> QED
  BY <1>1, <1>2, <1>3 DEF FeedNext

\* A fetch answers with a price between honest ones when most of the prices are honest.
THEOREM MajorityOfPricesDecides == FeedSpec => []MedianIsBetweenHonestPrices
<1>1. FeedInv => MedianIsBetweenHonestPrices
  <2> SUFFICES ASSUME FeedInv, fetch.status = "fetched", 2 * Lies < Len(prices)
               PROVE  fetch.price \in Min(HonestPrices) .. Max(HonestPrices)
    BY DEF MedianIsBetweenHonestPrices
  <2>1. PICK low \in HonestPrices, high \in HonestPrices : HonestPrices \subseteq low .. high
    BY FeedAssumption
  <2>2. low \in Int /\ high \in Int /\ \A x \in HonestPrices : low <= x /\ x <= high
    BY <2>1, FeedAssumption
  <2>3. Min(HonestPrices) = low
    <3>1. \A x \in HonestPrices : (\A y \in HonestPrices : x <= y) => x = low
      BY <2>2, FeedAssumption
    <3> QED
      BY <2>2, <3>1, Zenon DEF Min
  <2>4. Max(HonestPrices) = high
    <3>1. \A x \in HonestPrices : (\A y \in HonestPrices : x >= y) => x = high
      BY <2>2, FeedAssumption
    <3>2. \A y \in HonestPrices : high >= y
      BY <2>2, FeedAssumption
    <3> QED
      BY <2>1, <3>1, <3>2, Zenon DEF Max
  <2>5. prices \in Seq(Int) /\ fetch.price = Median(Sorted(prices))
    BY DEF FeedInv
  <2>6. 2 * Cardinality({i \in DOMAIN prices : prices[i] \notin HonestPrices}) < Len(prices)
    BY DEF Lies
  <2>7. Median(Sorted(prices)) \in low .. high
    BY <2>1, <2>2, <2>5, <2>6, MedianIsHonest
  <2> QED
    BY <2>3, <2>4, <2>5, <2>7
<1> QED
  BY <1>1, FeedInvInit, FeedInvNext, PTL DEF FeedSpec

----------------------------------------------------------------------------
(* DataTasks.                                                               *)

\* What a key of the path leads to, after what the keys before it lead to.
Next1(found, path, n) == IF found[n - 1] = <<>> THEN <<>> ELSE Lookup(found[n - 1][1], path[n])

\* found holds what the first keys of a path lead to.
Digs(found, js, path, m) ==
    /\ found[0] = <<js>>
    /\ \A n \in 1 .. m : found[n] = Next1(found, path, n)

\* There is such a function for any path.
LEMMA SomethingDigs ==
    ASSUME NEW js, NEW path, NEW m \in Nat
    PROVE  \E found : Digs(found, js, path, m)
<1> DEFINE B == {n \in Nat : \A found : ~Digs(found, js, path, n)}
<1> SUFFICES ASSUME B # {}
             PROVE  FALSE
  BY Zenon
<1> DEFINE k == Min(B)
<1>1. k \in B /\ \A n \in B : k <= n
  BY LeastIsFirst
<1> HIDE DEF k
<1>2. k \in Nat /\ \A found : ~Digs(found, js, path, k)
  BY <1>1
<1>3. CASE k = 0
  <2>1. Digs([n \in {0} |-> <<js>>], js, path, 0)
    <3>1. \A n \in 1 .. 0 : FALSE
      OBVIOUS
    <3> QED
      BY <3>1 DEF Digs
  <2> QED
    BY <1>2, <1>3, <2>1
<1>4. CASE k # 0
  <2>1. k - 1 \in Nat /\ ~(k <= k - 1)
    BY <1>2, <1>4
  <2>2. PICK found : Digs(found, js, path, k - 1)
    <3>1. k - 1 \notin B
      <4> HIDE DEF B
      <4> QED
        BY <1>1, <2>1, Zenon
    <3>2. ~ \A found : ~Digs(found, js, path, k - 1)
      BY <2>1, <3>1
    <3> QED
      BY <3>2, Zenon
  <2> DEFINE more == [n \in 0 .. k |-> IF n < k THEN found[n] ELSE Next1(found, path, k)]
  <2>3. \A n \in 0 .. k - 1 : more[n] = found[n]
    <3>1. \A n \in 0 .. k - 1 : n \in 0 .. k /\ n < k
      BY <1>2
    <3> QED
      BY <3>1, Zenon
  <2>4. more[k] = Next1(found, path, k)
    BY <1>2
  <2> HIDE DEF more
  <2>5. more[0] = <<js>>
    BY <2>1, <2>2, <2>3 DEF Digs
  <2>6. \A n \in 1 .. k : more[n - 1] = found[n - 1]
    BY <1>2, <2>3
  <2>7. \A n \in 1 .. k : n \in 1 .. k - 1 \/ n = k
    BY <1>2
  <2>8. \A n \in 1 .. k - 1 : more[n] = found[n]
    BY <2>3
  <2>9. \A n \in 1 .. k : more[n] = Next1(more, path, n)
    <3> SUFFICES ASSUME NEW n \in 1 .. k
                 PROVE  more[n] = Next1(more, path, n)
      OBVIOUS
    <3>1. Next1(more, path, n) = Next1(found, path, n)
      BY <2>6, Zenon DEF Next1
    <3>2. CASE n \in 1 .. k - 1
      BY <2>2, <2>8, <3>1, <3>2, Zenon DEF Digs
    <3>3. CASE n = k
      BY <2>4, <3>1, <3>3, Zenon
    <3> QED
      BY <2>7, <3>2, <3>3
  <2>10. Digs(more, js, path, k)
    BY <2>5, <2>9, Zenon DEF Digs
  <2> QED
    BY <1>2, <2>10, Zenon
<1> QED
  BY <1>3, <1>4

\* The recursive function of dig.
LEMMA DigIs ==
    ASSUME NEW js, NEW path, Len(path) \in Nat
    PROVE  \E found : Digs(found, js, path, Len(path)) /\ dig(js, path) = found[Len(path)]
<1> DEFINE m == Len(path)
           Function(f) == f = [n \in 0 .. Len(path) |->
                                  IF n = 0 THEN <<js>>
                                  ELSE IF f[n - 1] = <<>> THEN <<>> ELSE Lookup(f[n - 1][1], path[n])]
<1>1. PICK some : Digs(some, js, path, m)
  BY SomethingDigs
<1> DEFINE f == [n \in 0 .. Len(path) |-> some[n]]
<1>2. Function(f)
  <2>1. \A n \in 0 .. m : n # 0 => n - 1 \in 0 .. m /\ n \in 1 .. m
    OBVIOUS
  <2>2. \A n \in 0 .. m : f[n] = IF n = 0 THEN <<js>>
                                ELSE IF f[n - 1] = <<>> THEN <<>> ELSE Lookup(f[n - 1][1], path[n])
    <3> SUFFICES ASSUME NEW n \in 0 .. m
                 PROVE  f[n] = IF n = 0 THEN <<js>>
                               ELSE IF f[n - 1] = <<>> THEN <<>> ELSE Lookup(f[n - 1][1], path[n])
      OBVIOUS
    <3>1. CASE n = 0
      BY <1>1, <3>1, Zenon DEF Digs
    <3>2. CASE n # 0
      <4>1. f[n] = some[n] /\ f[n - 1] = some[n - 1] /\ n \in 1 .. m
        BY <2>1, <3>2, Zenon
      <4>2. some[n] = Next1(some, path, n)
        BY <1>1, <4>1, Zenon DEF Digs
      <4> HIDE DEF f
      <4> QED
        BY <3>2, <4>1, <4>2, Zenon DEF Next1
    <3> QED
      BY <3>1, <3>2
  <2> QED
    BY <2>2, Zenon
<1> DEFINE g == CHOOSE h : Function(h)
<1>3. Function(g)
  <2> HIDE DEF Function, f
  <2> QED
    BY <1>2, Zenon
<1>4. dig(js, path) = g[Len(path)]
  BY Zenon DEF dig
<1> HIDE DEF g, f
<1>5. Digs(g, js, path, m)
  <2>1. 0 \in 0 .. m /\ \A n \in 1 .. m : n \in 0 .. m /\ n # 0
    OBVIOUS
  <2>2. g[0] = <<js>>
    BY <1>3, <2>1, Zenon
  <2>3. \A n \in 1 .. m : g[n] = Next1(g, path, n)
    BY <1>3, <2>1, Zenon DEF Next1
  <2> QED
    BY <2>2, <2>3, Zenon DEF Digs
<1> QED
  BY <1>4, <1>5

\* The keys of a path are words and numbers.
Keyed(path) == path \in Seq(Range(path)) /\ \A key \in Range(path) : key.type = "number" => key.n \in Int

\* A key leads to one value or to none.
LEMMA KeyLeads ==
    ASSUME NEW js \in Values, NEW key, key.type = "number" => key.n \in Int
    PROVE  \/ Lookup(js, key) = <<>> /\ Members(js, key) = {}
           \/ \E v \in Values : Lookup(js, key) = <<v>> /\ Members(js, key) = {v}
<1>0. "array" # "object"
  OBVIOUS
<1>1. CASE js.type = "array" /\ key.type = "number"
  <2> DEFINE items == js.items
             i == Index(items, key)
             at == {j \in DOMAIN items : key.n \in {j - 1, j - 1 - Len(items)}}
  <2>1. items \in Seq(Values) /\ key.n \in Int
    BY <1>1, DataAssumption
  <2>2. Lookup(js, key) = IF i \in 0 .. Len(items) - 1 THEN <<items[i + 1]>> ELSE <<>>
    BY <1>1, Zenon DEF Lookup
  <2>3. Members(js, key) = {items[j] : j \in at}
    BY <1>1, Zenon DEF Members
  <2>4. i = IF key.n < 0 THEN Len(items) + key.n ELSE key.n
    BY DEF Index
  <2>5. DOMAIN items = 1 .. Len(items) /\ Len(items) \in Nat
    BY <2>1
  <2> HIDE DEF items, i
  <2>0. \A j \in DOMAIN items :
          key.n \in {j - 1, j - 1 - Len(items)} <=> i \in 0 .. Len(items) - 1 /\ j = i + 1
    <3>1. \A j \in 1 .. Len(items) :
            key.n \in {j - 1, j - 1 - Len(items)} <=> i \in 0 .. Len(items) - 1 /\ j = i + 1
      <4> DEFINE n == Len(items)
                 k == key.n
      <4>1. n \in Nat /\ k \in Int /\ i = IF k < 0 THEN n + k ELSE k
        BY <2>1, <2>4, <2>5
      <4> HIDE DEF n, k
      <4>2. \A j \in 1 .. n : k \in {j - 1, j - 1 - n} <=> i \in 0 .. n - 1 /\ j = i + 1
        BY <4>1
      <4> QED
        BY <4>2, Zenon DEF n, k
    <3> QED
      BY <2>5, <3>1, Zenon
  <2>6. CASE i \in 0 .. Len(items) - 1
    <3>1. i + 1 \in DOMAIN items
      BY <2>5, <2>6
    <3>2. at = {i + 1}
      BY <2>0, <2>6, <3>1, Zenon
    <3> HIDE DEF at
    <3>3. items[i + 1] \in Values
      BY <2>1, <3>1
    <3>4. Members(js, key) = {items[i + 1]} /\ Lookup(js, key) = <<items[i + 1]>>
      BY <2>2, <2>3, <2>6, <3>2, Zenon
    <3> QED
      BY <3>3, <3>4, Zenon
  <2>7. CASE i \notin 0 .. Len(items) - 1
    <3>1. at = {}
      BY <2>0, <2>7, Zenon
    <3> HIDE DEF at
    <3>2. Members(js, key) = {} /\ Lookup(js, key) = <<>>
      BY <2>2, <2>3, <2>7, <3>1, Zenon
    <3> QED
      BY <3>2, Zenon
  <2> QED
    BY <2>6, <2>7
<1>2. CASE js.type = "object" /\ key.type = "word"
  <2>1. js.type # "array"
    BY <1>2
  <2>2. /\ Lookup(js, key) = IF key.word \in DOMAIN js.members THEN <<js.members[key.word]>> ELSE <<>>
        /\ Members(js, key) = {js.members[k] : k \in DOMAIN js.members \intersect {key.word}}
    BY <1>2, <2>1, Zenon DEF Lookup, Members
  <2>3. key.word \in DOMAIN js.members => js.members[key.word] \in Values
    BY <1>2, DataAssumption, Zenon
  <2> DEFINE members == js.members
             word == key.word
  <2> HIDE DEF members, word
  <2>4. CASE word \in DOMAIN members
    <3>1. {members[k] : k \in DOMAIN members \intersect {word}} = {members[word]}
      BY <2>4
    <3> QED
      BY <2>2, <2>3, <2>4, <3>1, Zenon DEF members, word
  <2>5. CASE word \notin DOMAIN members
    <3>1. {members[k] : k \in DOMAIN members \intersect {word}} = {}
      BY <2>5
    <3> QED
      BY <2>2, <2>5, <3>1, Zenon DEF members, word
  <2> QED
    BY <2>4, <2>5
<1>3. CASE ~(js.type = "array" /\ key.type = "number") /\ ~(js.type = "object" /\ key.type = "word")
  BY <1>3, Zenon DEF Lookup, Members
<1> QED
  BY <1>1, <1>2, <1>3, Zenon

\* The keys of a path, one by one.
LEMMA KeyOfPath ==
    ASSUME NEW path, Keyed(path), NEW n \in 1 .. Len(path)
    PROVE  path[n].type = "number" => path[n].n \in Int
<1>1. path[n] \in Range(path)
  <2>1. DOMAIN path = 1 .. Len(path)
    BY DEF Keyed
  <2> QED
    BY <2>1 DEF Range
<1> QED
  BY <1>1 DEF Keyed

\* Found so far is a value or nothing.
LEMMA FoundIsValue ==
    ASSUME NEW js \in Values, NEW path, Keyed(path), NEW found, Digs(found, js, path, Len(path)),
           NEW n \in 0 .. Len(path)
    PROVE  found[n] = <<>> \/ \E v \in Values : found[n] = <<v>>
<1> DEFINE B == {k \in 0 .. Len(path) : ~(found[k] = <<>> \/ \E v \in Values : found[k] = <<v>>)}
<1>0. Len(path) \in Nat
  BY DEF Keyed
<1> SUFFICES ASSUME B # {}
             PROVE  FALSE
  BY Zenon
<1> DEFINE k == Min(B)
<1>1. k \in B /\ \A i \in B : k <= i
  <2>1. B \subseteq Nat
    BY <1>0
  <2> QED
    BY <2>1, LeastIsFirst
<1> HIDE DEF k
<1>2. k \in 0 .. Len(path)
  BY <1>1
<1>3. k # 0
  <2>1. found[0] = <<js>>
    BY DEF Digs
  <2> QED
    BY <1>1, <2>1
<1>4. k \in 1 .. Len(path) /\ k - 1 \in 0 .. Len(path) /\ ~(k <= k - 1)
  BY <1>0, <1>2, <1>3
<1>5. k - 1 \notin B
  <2> HIDE DEF B
  <2> QED
    BY <1>1, <1>4, Zenon
<1>6. found[k] = Next1(found, path, k)
  BY <1>4, Zenon DEF Digs
<1>7. CASE found[k - 1] = <<>>
  BY <1>1, <1>6, <1>7, Zenon DEF Next1
<1>8. ASSUME NEW v \in Values, found[k - 1] = <<v>>
      PROVE  FALSE
  <2>1. <<v>> # <<>> /\ <<v>>[1] = v
    OBVIOUS
  <2>2. found[k] = Lookup(v, path[k])
    BY <1>6, <1>8, <2>1, Zenon DEF Next1
  <2>3. path[k].type = "number" => path[k].n \in Int
    BY <1>4, KeyOfPath, Zenon
  <2>4. Lookup(v, path[k]) = <<>> \/ \E w \in Values : Lookup(v, path[k]) = <<w>>
    BY <2>3, KeyLeads
  <2> QED
    BY <1>1, <2>2, <2>4, Zenon
<1> QED
  BY <1>4, <1>5, <1>7, <1>8, Zenon

\* What a trail consists of.
LEMMA TrailIs ==
    ASSUME NEW js \in Values, NEW path, Keyed(path), NEW rest \in [1 .. Len(path) -> Values]
    PROVE  LET t == <<js>> \o rest IN
           t[1] = js /\ \A n \in 1 .. Len(path) : t[n + 1] = rest[n] /\ t[n] \in Values /\ t[n + 1] \in Values
<1> DEFINE m == Len(path)
           t == <<js>> \o rest
<1>1. m \in Nat
  BY DEF Keyed
<1> HIDE DEF m
<1>2. rest \in Seq(Values) /\ Len(rest) = m
  BY <1>1 DEF m
<1>3. t[1] = js /\ \A n \in 1 .. m : t[n + 1] = rest[n]
  BY <1>1, <1>2
<1>4. \A n \in 1 .. m : t[n] \in Values /\ t[n + 1] \in Values
  <2> SUFFICES ASSUME NEW n \in 1 .. m
               PROVE  t[n] \in Values /\ t[n + 1] \in Values
    OBVIOUS
  <2>1. \A k \in 1 .. m : rest[k] \in Values
    BY DEF m
  <2> HIDE DEF t
  <2>2. n = 1 \/ (n - 1 \in 1 .. m /\ (n - 1) + 1 = n)
    BY <1>1
  <2> QED
    BY <1>3, <2>1, <2>2, Zenon
<1> QED
  BY <1>3, <1>4 DEF m

\* A trail passes what dig finds.
LEMMA TrailIsFound ==
    ASSUME NEW js \in Values, NEW path, Keyed(path), NEW found, Digs(found, js, path, Len(path)),
           NEW t \in Trails(js, path), NEW n \in 0 .. Len(path)
    PROVE  found[n] = <<t[n + 1]>>
<1> DEFINE m == Len(path)
           B == {k \in 0 .. m : found[k] # <<t[k + 1]>>}
<1>1. m \in Nat
  BY DEF Keyed
<1>2. /\ t[1] = js /\ \A k \in 1 .. m : t[k] \in Values
      /\ \A k \in 1 .. m : t[k + 1] \in Members(t[k], path[k])
  <2>1. PICK rest \in [1 .. Len(path) -> Values] : t = <<js>> \o rest
    BY Zenon DEF Trails
  <2>2. \A k \in 1 .. m : t[k + 1] \in Members(t[k], path[k])
    BY Zenon DEF Trails
  <2> QED
    BY <2>1, <2>2, TrailIs, Zenon
<1> HIDE DEF m
<1> SUFFICES ASSUME B # {}
             PROVE  FALSE
  BY Zenon DEF m
<1> DEFINE k == Min(B)
<1>3. k \in B /\ \A i \in B : k <= i
  <2>1. B \subseteq Nat
    BY <1>1
  <2> QED
    BY <2>1, LeastIsFirst
<1> HIDE DEF k
<1>4. k \in 0 .. m /\ found[k] # <<t[k + 1]>>
  BY <1>3
<1>5. k # 0
  <2>1. found[0] = <<js>> /\ 0 + 1 = 1
    BY DEF Digs
  <2> QED
    BY <1>2, <1>4, <2>1, Zenon
<1>6. k \in 1 .. m /\ k - 1 \in 0 .. m /\ ~(k <= k - 1) /\ (k - 1) + 1 = k
  BY <1>1, <1>4, <1>5
<1>7. k - 1 \notin B
  <2> HIDE DEF B
  <2> QED
    BY <1>3, <1>6, Zenon
<1>8. found[k - 1] = <<t[k]>>
  BY <1>6, <1>7, Zenon
<1>9. <<t[k]>> # <<>> /\ <<t[k]>>[1] = t[k]
  OBVIOUS
<1>10. found[k] = Lookup(t[k], path[k])
  <2>1. found[k] = Next1(found, path, k)
    BY <1>6, Zenon DEF Digs, m
  <2> QED
    BY <1>8, <1>9, <2>1, Zenon DEF Next1
<1>11. t[k + 1] \in Members(t[k], path[k]) /\ t[k] \in Values
  BY <1>2, <1>6, Zenon
<1>12. path[k].type = "number" => path[k].n \in Int
  BY <1>6, KeyOfPath, Zenon DEF m
<1>13. PICK v \in Values : Lookup(t[k], path[k]) = <<v>> /\ Members(t[k], path[k]) = {v}
  <2>1. Members(t[k], path[k]) # {}
    BY <1>11, Zenon
  <2> QED
    BY <1>11, <1>12, <2>1, KeyLeads, Zenon
<1> QED
  BY <1>4, <1>10, <1>11, <1>13, Zenon

\* When something is found a trail leads there.
LEMMA FoundIsTrail ==
    ASSUME NEW js \in Values, NEW path, Keyed(path), NEW found, Digs(found, js, path, Len(path)),
           found[Len(path)] # <<>>
    PROVE  \E t : t \in Trails(js, path)
<1> DEFINE m == Len(path)
<1>1. m \in Nat
  BY DEF Keyed
<1> HIDE DEF m
<1>2. \A n \in 0 .. m : found[n] # <<>>
  <2> SUFFICES ASSUME NEW n \in 0 .. m, found[n] = <<>>
               PROVE  FALSE
    OBVIOUS
  <2> DEFINE B == {i \in n .. m : found[i] # <<>>}
             k == Min(B)
  <2>1. m \in B /\ B \subseteq Nat
    BY <1>1 DEF m
  <2>2. k \in B /\ \A i \in B : k <= i
    BY <2>1, LeastIsFirst
  <2> HIDE DEF k
  <2>3. k \in n .. m /\ found[k] # <<>> /\ k # n
    BY <2>2
  <2>4. k \in 1 .. m /\ k - 1 \in n .. m /\ ~(k <= k - 1)
    BY <1>1, <2>3
  <2>5. k - 1 \notin B
    <3> HIDE DEF B
    <3> QED
      BY <2>2, <2>4, Zenon
  <2>6. found[k - 1] = <<>>
    BY <2>4, <2>5, Zenon
  <2>7. found[k] = Next1(found, path, k)
    BY <2>4, Zenon DEF Digs, m
  <2> QED
    BY <2>3, <2>6, <2>7, Zenon DEF Next1
<1>3. \A n \in 0 .. m : found[n][1] \in Values /\ found[n] = <<found[n][1]>>
  <2> SUFFICES ASSUME NEW n \in 0 .. m
               PROVE  found[n][1] \in Values /\ found[n] = <<found[n][1]>>
    OBVIOUS
  <2>0. found[n] = <<>> \/ \E v \in Values : found[n] = <<v>>
    <3>1. n \in 0 .. Len(path)
      BY DEF m
    <3> QED
      BY <3>1, FoundIsValue
  <2>1. PICK v \in Values : found[n] = <<v>>
    BY <1>2, <2>0, Zenon
  <2> QED
    BY <2>1
<1> DEFINE rest == [n \in 1 .. m |-> found[n][1]]
           t == <<js>> \o rest
<1>4. \A n \in 1 .. m : n \in 0 .. m /\ n - 1 \in 0 .. m /\ (n - 1 = 0 \/ n - 1 \in 1 .. m)
  BY <1>1
<1>5. rest \in [1 .. m -> Values]
  BY <1>3, <1>4
<1>6. t[1] = js /\ \A n \in 1 .. m : t[n + 1] = rest[n]
  <2> HIDE DEF rest
  <2>1. rest \in [1 .. Len(path) -> Values]
    BY <1>5 DEF m
  <2>2. (<<js>> \o rest)[1] = js /\ \A n \in 1 .. Len(path) : (<<js>> \o rest)[n + 1] = rest[n]
    BY <2>1, TrailIs
  <2> QED
    BY <2>2 DEF m
<1>7. \A n \in 1 .. m : rest[n] = found[n][1]
  OBVIOUS
<1> HIDE DEF rest, t
<1>8. \A n \in 1 .. m : t[n + 1] \in Members(t[n], path[n])
  <2> SUFFICES ASSUME NEW n \in 1 .. m
               PROVE  t[n + 1] \in Members(t[n], path[n])
    OBVIOUS
  <2>1. t[n + 1] = found[n][1]
    BY <1>6, <1>7, Zenon
  <2>2. t[n] = found[n - 1][1]
    <3>1. CASE n - 1 = 0
      <4>1. n = 1 /\ found[0] = <<js>> /\ <<js>>[1] = js
        BY <1>1, <3>1 DEF Digs
      <4> QED
        BY <1>6, <3>1, <4>1, Zenon
    <3>2. CASE n - 1 \in 1 .. m
      <4>1. (n - 1) + 1 = n
        BY <1>1
      <4> QED
        BY <1>6, <1>7, <3>2, <4>1, Zenon
    <3> QED
      BY <1>4, <3>1, <3>2
  <2>3. found[n] = Next1(found, path, n)
    BY Zenon DEF Digs, m
  <2>4. found[n] = Lookup(found[n - 1][1], path[n])
    BY <1>2, <1>4, <2>3, Zenon DEF Next1
  <2>5. path[n].type = "number" => path[n].n \in Int
    BY KeyOfPath, Zenon DEF m
  <2>6. PICK v \in Values : /\ Lookup(found[n - 1][1], path[n]) = <<v>>
                            /\ Members(found[n - 1][1], path[n]) = {v}
    <3>1. found[n - 1][1] \in Values /\ Lookup(found[n - 1][1], path[n]) # <<>>
      BY <1>2, <1>3, <1>4, <2>4, Zenon
    <3> QED
      BY <2>5, <3>1, KeyLeads, Zenon
  <2>7. <<v>>[1] = v
    OBVIOUS
  <2> QED
    BY <2>1, <2>2, <2>4, <2>6, <2>7, Zenon
<1>9. t \in {<<js>> \o r : r \in [1 .. m -> Values]}
  BY <1>5, Zenon DEF t
<1> QED
  BY <1>8, <1>9, Zenon DEF Trails, m

\* What dig finds is what the path leads to.
LEMMA DigFollows ==
    ASSUME NEW js \in Values, NEW path, Keyed(path)
    PROVE  \/ dig(js, path) = <<>> /\ Followed(js, path) = {}
           \/ \E v \in Values : dig(js, path) = <<v>> /\ Followed(js, path) = {v}
<1> DEFINE m == Len(path)
<1>1. m \in Nat /\ m \in 0 .. m
  BY DEF Keyed
<1>2. PICK found : Digs(found, js, path, m) /\ dig(js, path) = found[m]
  BY <1>1, DigIs, Zenon
<1>3. \A t \in Trails(js, path) : found[m] = <<t[m + 1]>>
  <2> SUFFICES ASSUME NEW t \in Trails(js, path)
               PROVE  found[m] = <<t[m + 1]>>
    OBVIOUS
  <2>1. Digs(found, js, path, Len(path)) /\ Len(path) \in 0 .. Len(path)
    BY <1>1, <1>2
  <2>2. found[Len(path)] = <<t[Len(path) + 1]>>
    BY <2>1, TrailIsFound
  <2> QED
    BY <2>2
<1>4. Followed(js, path) = {t[m + 1] : t \in Trails(js, path)}
  BY Zenon DEF Followed
<1>5. \A x : <<x>> # <<>> /\ \A y : <<x>> = <<y>> => x = y
  OBVIOUS
<1>6. CASE found[m] = <<>>
  <2>1. Followed(js, path) = {}
    BY <1>3, <1>4, <1>5, <1>6, Zenon
  <2> QED
    BY <1>2, <1>6, <2>1, Zenon
<1>7. ASSUME NEW v \in Values, found[m] = <<v>>
      PROVE  dig(js, path) = <<v>> /\ Followed(js, path) = {v}
  <2>1. PICK t : t \in Trails(js, path)
    BY <1>2, <1>5, <1>7, FoundIsTrail, Zenon
  <2>2. \A s \in Trails(js, path) : s[m + 1] = v
    BY <1>3, <1>5, <1>7, Zenon
  <2> QED
    BY <1>2, <1>4, <1>7, <2>1, <2>2, Zenon
<1>8. found[m] = <<>> \/ \E v \in Values : found[m] = <<v>>
  <2>1. Digs(found, js, path, Len(path)) /\ Len(path) \in 0 .. Len(path)
    BY <1>1, <1>2
  <2>2. found[Len(path)] = <<>> \/ \E v \in Values : found[Len(path)] = <<v>>
    BY <2>1, FoundIsValue
  <2> QED
    BY <2>2
<1> HIDE DEF m
<1> QED
  BY <1>6, <1>7, <1>8, Zenon

\* The path without its last key.
LEMMA FrontIsKeyed ==
    ASSUME NEW path, Keyed(path)
    PROVE  Keyed(Front(path))
<1> DEFINE m == Len(path)
           front == Front(path)
<1>1. m \in Nat /\ path \in Seq(Range(path)) /\ DOMAIN path = 1 .. m
  BY DEF Keyed
<1>2. front \in Seq(Range(path))
  BY <1>1 DEF Front
<1> HIDE DEF front
<1>3. front \in Seq(Range(front)) /\ \A key \in Range(front) : key \in Range(path)
  BY <1>2 DEF Range
<1> QED
  BY <1>3, Zenon DEF Keyed, front

\* A path that leads nowhere before its last key leads nowhere.
LEMMA NothingBeyondNothing ==
    ASSUME NEW js \in Values, NEW path, Keyed(path), Followed(js, Front(path)) = {}
    PROVE  Followed(js, path) = {}
<1> DEFINE m == Len(path)
           front == Front(path)
<1>1. m \in Nat /\ path \in Seq(Range(path)) /\ DOMAIN path = 1 .. m
  BY DEF Keyed
<1>2. CASE m = 0
  <2>1. path = <<>> /\ front = <<>>
    BY <1>1, <1>2 DEF Front
  <2>2. front = path
    BY <2>1
  <2> HIDE DEF front
  <2> QED
    BY <2>2, Zenon DEF front
<1>3. CASE m # 0
  <2>1. front \in Seq(Range(path)) /\ Len(front) = m - 1
    BY <1>1, <1>3 DEF Front
  <2>2. \A n \in 1 .. m - 1 : front[n] = path[n] /\ n \in 1 .. m
    BY <1>1, <1>3 DEF Front
  <2> HIDE DEF front
  <2>3. Keyed(front)
    BY FrontIsKeyed, Zenon DEF front
  <2>4. ASSUME NEW t \in Trails(js, path)
        PROVE  FALSE
    <3>1. PICK rest \in [1 .. m -> Values] : t = <<js>> \o rest
      BY Zenon DEF Trails
    <3>2. \A n \in 1 .. m : t[n + 1] \in Members(t[n], path[n])
      BY Zenon DEF Trails
    <3>3. t[1] = js /\ \A n \in 1 .. m : t[n + 1] = rest[n]
      BY <3>1, TrailIs
    <3> DEFINE less == [n \in 1 .. m - 1 |-> rest[n]]
               s == <<js>> \o less
    <3>4. less \in [1 .. Len(front) -> Values]
      BY <1>1, <2>1
    <3>5. \A n \in 1 .. m - 1 : less[n] = rest[n]
      OBVIOUS
    <3> HIDE DEF less
    <3>6. s[1] = js /\ \A n \in 1 .. Len(front) : s[n + 1] = less[n]
      BY <2>3, <3>4, TrailIs
    <3> HIDE DEF s
    <3>7. \A n \in 1 .. m - 1 : s[n + 1] = t[n + 1] /\ s[n] = t[n]
      <4>1. \A n \in 1 .. m - 1 : n \in 1 .. Len(front)
        BY <2>1
      <4>2. \A n \in 1 .. m - 1 : s[n + 1] = t[n + 1]
        BY <2>2, <3>3, <3>5, <3>6, <4>1, Zenon
      <4>3. \A n \in 1 .. m - 1 : n = 1 \/ (n - 1 \in 1 .. m - 1 /\ (n - 1) + 1 = n)
        BY <1>1
      <4>4. \A n \in 1 .. m - 1 : s[n] = t[n]
        BY <3>3, <3>6, <4>2, <4>3, Zenon
      <4> QED
        BY <4>2, <4>4, Zenon
    <3>8. \A n \in 1 .. Len(front) : s[n + 1] \in Members(s[n], front[n])
      <4>1. \A n \in 1 .. Len(front) : n \in 1 .. m - 1
        BY <2>1
      <4> QED
        BY <2>2, <3>2, <3>7, <4>1, Zenon
    <3>9. s \in Trails(js, front)
      <4>1. s \in {<<js>> \o r : r \in [1 .. Len(front) -> Values]}
        BY <3>4, Zenon DEF s
      <4> QED
        BY <3>8, <4>1, Zenon DEF Trails
    <3>10. s[Len(front) + 1] \in Followed(js, front)
      BY <3>9, Zenon DEF Followed
    <3> QED
      BY <3>10, Zenon DEF front
  <2>5. Followed(js, path) = {}
    BY <2>4, Zenon DEF Followed
  <2> QED
    BY <2>5, Zenon
<1> QED
  BY <1>2, <1>3

\* The right one's values win.
LEMMA MergedTakesRight ==
    ASSUME NEW a, NEW b, NEW k \in DOMAIN b
    PROVE  k \in DOMAIN Merged(a, b) /\ Merged(a, b)[k] = Float(b[k])
BY Zenon DEF Merged

\* The result of the task before is the input's, whatever the request says.
LEMMA ResultOfMerged ==
    ASSUME NEW request, NEW v
    PROVE  Result(Merged(request, WithResult(v))) = Float(v)
<1>1. "result" \in DOMAIN WithResult(v) /\ WithResult(v)["result"] = v
  BY Zenon DEF WithResult
<1> QED
  BY <1>1, MergedTakesRight, Zenon DEF Result

LEMMA TextIsNoNumber ==
    ASSUME NEW v
    PROVE  /\ Float(Text(v)) = Text(v)
           /\ Text(v).type = "string" /\ Text(v).text = v
<1>1. Text(v).type = "string" /\ Text(v).text = v /\ "string" # "number"
  BY DEF Text
<1> QED
  BY <1>1, Zenon DEF Float

\* A number is one before it is decoded.
LEMMA NumericFloat ==
    ASSUME NEW v, IsNumeric(String(Float(v)))
    PROVE  IsNumeric(String(v))
<1>1. CASE v.type = "number"
  <2>1. String(v) = v
    <3>1. v.type # "string" /\ v.type # "null"
      BY <1>1
    <3> QED
      BY <3>1, Zenon DEF String
  <2> QED
    BY <1>1, <2>1, Zenon DEF IsNumeric
<1>2. CASE v.type # "number"
  BY <1>2, Zenon DEF Float
<1> QED
  BY <1>1, <1>2

LEMMA OutputStatuses ==
    /\ Errored.status = "errored" /\ Errored.data = NoMembers
    /\ \A v : CompleteWithResult(v).status = "completed" /\ CompleteWithResult(v).data = WithResult(v)
BY DEF Errored, CompleteWithResult, Complete

\* What the tasks of a job that fetches, parses and multiplies may come to.
LEMMA PerformIs ==
    ASSUME NEW task, NEW params, NEW data, NEW out \in Perform(task, params, data)
    PROVE  /\ task.type = "httpget" => out = Errored \/ \E d \in Documents : out = CompleteWithResult(Text(d))
           /\ task.type = "jsonparse" => out = JSONParse(task.path, Result(data))
           /\ task.type = "multiply" => out = Multiply(params, Result(data))
<1>1. CASE task.type = "httpget"
  <2>1. task.type # "jsonparse" /\ task.type # "multiply"
    BY <1>1
  <2>2. Perform(task, params, data) = {CompleteWithResult(Text(d)) : d \in Documents} \union {Errored}
    BY <1>1, Zenon DEF Perform
  <2> QED
    BY <1>1, <2>1, <2>2, Zenon
<1>2. CASE task.type = "jsonparse"
  <2>1. task.type # "httpget" /\ task.type # "multiply"
    BY <1>2
  <2>2. Perform(task, params, data) = {JSONParse(task.path, Result(data))}
    BY <1>2, <2>1, Zenon DEF Perform
  <2> QED
    BY <1>2, <2>1, <2>2, Zenon
<1>3. CASE task.type = "multiply"
  <2>1. /\ task.type # "httpget" /\ task.type # "jsonparse" /\ task.type # "copy"
        /\ task.type # "compare"
    BY <1>3
  <2>2. Perform(task, params, data) = {Multiply(params, Result(data))}
    BY <1>3, <2>1, Zenon DEF Perform
  <2> QED
    BY <1>3, <2>1, <2>2, Zenon
<1> QED
  BY <1>1, <1>2, <1>3, Zenon

\* What the parsing of a document comes to.
LEMMA ParsedIs ==
    ASSUME NEW js \in Values, NEW path, Keyed(path)
    PROVE  LET out == JSONParse(path, Text(js)) IN
           \/ out = Errored /\ (js.type = "word"
                                \/ (dig(js, path) = <<>> /\ getEarlyPath(js, path) = <<>>))
           \/ js.type # "word" /\ \E v \in Values : dig(js, path) = <<v>> /\ out = CompleteWithResult(v)
           \/ js.type # "word" /\ dig(js, path) = <<>> /\ getEarlyPath(js, path) # <<>>
              /\ out = CompleteWithResult(Null)
<1> DEFINE found == dig(js, path)
           early == getEarlyPath(js, path)
           out == JSONParse(path, Text(js))
<1>1. Text(js).type = "string" /\ Text(js).text = js /\ "string" # "array" /\ "string" # "object"
  BY DEF Text
<1>2. Text(js).type \notin {"array", "object"}
  BY <1>1, Zenon
<1>3. out = IF js.type = "word" THEN Errored
            ELSE IF found # <<>> THEN CompleteWithResult(found[1])
            ELSE IF early = <<>> THEN Errored ELSE CompleteWithResult(Null)
  BY <1>1, <1>2, Zenon DEF JSONParse
<1>4. found = <<>> \/ \E v \in Values : found = <<v>> /\ found # <<>> /\ found[1] = v
  <2>1. found = <<>> \/ \E v \in Values : found = <<v>>
    BY DigFollows, Zenon
  <2>2. \A v : <<v>> # <<>> /\ <<v>>[1] = v
    OBVIOUS
  <2> QED
    BY <2>1, <2>2, Zenon
<1> HIDE DEF found, early, out
<1>5. CASE js.type = "word"
  BY <1>3, <1>5, Zenon DEF found, early, out
<1>6. CASE js.type # "word" /\ found = <<>>
  BY <1>3, <1>6, Zenon DEF found, early, out
<1>7. ASSUME js.type # "word", NEW v \in Values, found = <<v>>, found # <<>>, found[1] = v
      PROVE  \E w \in Values : found = <<w>> /\ out = CompleteWithResult(w)
  <2>1. out = CompleteWithResult(found[1])
    BY <1>3, <1>7, Zenon
  <2> QED
    BY <1>7, <2>1, Zenon
<1> QED
  BY <1>4, <1>5, <1>6, <1>7, Zenon DEF found, early, out

\* An output more.
LEMMA AppendIs ==
    ASSUME NEW s, s \in Seq(Range(s)), NEW e
    PROVE  LET t == Append(s, e) IN
           /\ t \in Seq(Range(t)) /\ Len(t) = Len(s) + 1 /\ t[Len(s) + 1] = e
           /\ \A i \in 1 .. Len(s) : t[i] = s[i]
<1> DEFINE A == Range(s) \union {e}
           t == Append(s, e)
<1>1. s \in Seq(A) /\ e \in A
  OBVIOUS
<1> HIDE DEF A
<1>2. t \in Seq(A) /\ Len(t) = Len(s) + 1 /\ t[Len(s) + 1] = e /\ \A i \in 1 .. Len(s) : t[i] = s[i]
  BY <1>1
<1> HIDE DEF t
<1>3. t \in Seq(Range(t))
  BY <1>2 DEF Range
<1> QED
  BY <1>2, <1>3 DEF t

\* Another output for a task.
LEMMA ReplaceIs ==
    ASSUME NEW s, s \in Seq(Range(s)), NEW i \in 1 .. Len(s), NEW e
    PROVE  LET t == [s EXCEPT ![i] = e] IN
           /\ t \in Seq(Range(t)) /\ Len(t) = Len(s)
           /\ \A j \in 1 .. Len(s) : j # i => t[j] = s[j]
<1> DEFINE A == Range(s) \union {e}
           t == [s EXCEPT ![i] = e]
<1>1. s \in Seq(A) /\ e \in A
  OBVIOUS
<1> HIDE DEF A
<1>2. t \in Seq(A) /\ Len(t) = Len(s) /\ \A j \in 1 .. Len(s) : j # i => t[j] = s[j]
  BY <1>1
<1> HIDE DEF t
<1>3. t \in Seq(Range(t))
  BY <1>2 DEF Range
<1> QED
  BY <1>2, <1>3 DEF t

\* How many tasks have begun.
Began == Len(taskOutputs)

\* The tasks begun are of a job.
OutputsAreOfTasks ==
    /\ tasks \in Pipelines
    /\ taskOutputs \in Seq(Range(taskOutputs)) /\ Began <= Len(tasks)

\* No other task than a bridge waits for an answer.
PendingIsOfAnother ==
    dataStatus = "pending_bridge" =>
        Began # 0 /\ tasks[Began].type \notin {"httpget", "jsonparse", "multiply"}

\* What a job has fetched is the text of a document.
DocumentIsServed ==
    Began >= 1 /\ tasks[1].type = "httpget" /\ (Began > 1 \/ dataStatus # "errored") =>
        served \in Documents /\ taskOutputs[1] = WithResult(Text(served))

\* What it has parsed is that document.
DocumentIsParsed ==
    Began >= 2 /\ tasks[1].type = "httpget" /\ tasks[2].type = "jsonparse" =>
        LET out == JSONParse(tasks[2].path, Text(served)) IN
        /\ taskOutputs[2] = out.data
        /\ IF Began = 2 THEN dataStatus = "errored" <=> out.status = "errored"
           ELSE out.status # "errored"

DataInv ==
    /\ OutputsAreOfTasks
    /\ PendingIsOfAnother
    /\ DocumentIsServed
    /\ DocumentIsParsed
    /\ CompletedResultIsTheDocuments

LEMMA PipelineIs ==
    ASSUME NEW p \in Pipelines
    PROVE  /\ Len(p) \in Nat /\ DOMAIN p = 1 .. Len(p)
           /\ \A i \in DOMAIN p : p[i].type = "jsonparse" => Keyed(p[i].path)
<1>1. p \in Seq(Range(p))
  BY DataAssumption, Zenon
<1>2. Len(p) \in Nat /\ DOMAIN p = 1 .. Len(p)
  BY <1>1
<1> QED
  BY <1>2, DataAssumption, Zenon DEF Keyed

LEMMA InitSafe == DataInit => DataInv
<1> SUFFICES ASSUME DataInit
             PROVE  DataInv
  OBVIOUS
<1>0. tasks \in Pipelines /\ taskOutputs = <<>> /\ dataStatus = "in_progress"
  BY Zenon DEF DataInit
<1>1. Len(tasks) \in Nat
  BY <1>0, PipelineIs, Zenon
<1>2. Began = 0 /\ taskOutputs \in Seq(Range(taskOutputs)) /\ dataStatus = "in_progress"
  BY <1>0 DEF Began
<1>3. OutputsAreOfTasks
  BY <1>0, <1>1, <1>2 DEF OutputsAreOfTasks
<1>6. /\ ~(Began >= 1) /\ ~(Began >= 2)
      /\ dataStatus # "pending_bridge" /\ dataStatus # "completed"
  BY <1>2
<1>4. PendingIsOfAnother /\ CompletedResultIsTheDocuments
  BY <1>6, Zenon DEF PendingIsOfAnother, CompletedResultIsTheDocuments
<1>5. DocumentIsServed /\ DocumentIsParsed
  BY <1>6, Zenon DEF DocumentIsServed, DocumentIsParsed
<1> QED
  BY <1>3, <1>4, <1>5 DEF DataInv

LEMMA ParsedStatus ==
    ASSUME NEW js \in Values, NEW path, Keyed(path)
    PROVE  JSONParse(path, Text(js)).status \in {"completed", "errored"}
BY ParsedIs, OutputStatuses, Zenon

\* What the product of a document's number comes to.
LEMMA MultipliedIs ==
    ASSUME NEW request, NEW own, NEW v,
           Multiply(TaskParams(request, own), Float(v)).status = "completed",
           "times" \in DOMAIN own
    PROVE  LET times == own["times"]
               out == Multiply(TaskParams(request, own), Float(v))
           IN  /\ IsNumeric(String(v))
               /\ v = Float(v) /\ times = Float(times) =>
                     out = CompleteWithResult(Text(Number((String(v).n * times.n) \div 4)))
<1> DEFINE params == TaskParams(request, own)
           out == Multiply(params, Float(v))
           times == own["times"]
<1>1. IsNumeric(String(Float(v)))
  <2>1. Errored.status # "completed"
    BY OutputStatuses
  <2> QED
    BY <2>1, Zenon DEF Multiply
<1>2. Param(params, "times", Number(4)) = Float(times)
  <2>1. "times" \in DOMAIN params /\ params["times"] = Float(times)
    BY MergedTakesRight, Zenon DEF TaskParams
  <2> QED
    BY <2>1, Zenon DEF Param
<1>3. out = CompleteWithResult(Text(Number((String(Float(v)).n * Param(params, "times", Number(4)).n) \div 4)))
  BY <1>1, Zenon DEF Multiply
<1> HIDE DEF out, params
<1>4. IsNumeric(String(v))
  BY <1>1, NumericFloat, Zenon
<1>5. ASSUME v = Float(v), times = Float(times)
      PROVE  out = CompleteWithResult(Text(Number((String(v).n * times.n) \div 4)))
  BY <1>2, <1>3, <1>5, Zenon
<1> QED
  BY <1>4, <1>5, Zenon DEF out, params

LEMMA ExecuteTaskSafe == DataInv /\ ExecuteTask => DataInv'
<1> SUFFICES ASSUME DataInv, ExecuteTask
             PROVE  DataInv'
  OBVIOUS
<1> DEFINE i == Began + 1
           task == tasks[i]
           params == TaskParams(requestParams, task.params)
           data == Merged(requestParams, OutputBefore(i))
<1>1. PICK out \in Perform(task, params, data) :
        /\ taskOutputs' = Append(taskOutputs, out.data)
        /\ dataStatus' = CASE out.status # "completed" -> out.status
                           [] out.status = "completed" /\ i = Len(tasks) -> "completed"
                           [] OTHER -> "in_progress"
        /\ served' = IF i = 1 /\ task.type = "httpget" /\ out.status = "completed"
                     THEN Result(out.data).text ELSE served
  BY Zenon DEF ExecuteTask, Began
<1> HIDE DEF i, task, params, data
<1>0. /\ task.type = "httpget" => out = Errored \/ \E d \in Documents : out = CompleteWithResult(Text(d))
      /\ task.type = "jsonparse" => out = JSONParse(task.path, Result(data))
      /\ task.type = "multiply" => out = Multiply(params, Result(data))
  BY PerformIs
<1>2. /\ tasks \in Pipelines /\ tasks' = tasks /\ requestParams' = requestParams
      /\ dataStatus = "in_progress" /\ Began < Len(tasks)
      /\ taskOutputs \in Seq(Range(taskOutputs))
  BY DEF ExecuteTask, DataInv, OutputsAreOfTasks, Began
<1>3. /\ taskOutputs' \in Seq(Range(taskOutputs')) /\ Began' = i /\ taskOutputs'[i] = out.data
      /\ \A j \in 1 .. Began : taskOutputs'[j] = taskOutputs[j]
  <2>1. /\ taskOutputs' = Append(taskOutputs, out.data)
        /\ taskOutputs \in Seq(Range(taskOutputs)) /\ i = Len(taskOutputs) + 1
    BY <1>1, <1>2 DEF i, Began
  <2>2. LET t == Append(taskOutputs, out.data) IN
           /\ t \in Seq(Range(t)) /\ Len(t) = Len(taskOutputs) + 1 /\ t[Len(taskOutputs) + 1] = out.data
           /\ \A j \in 1 .. Len(taskOutputs) : t[j] = taskOutputs[j]
    BY <2>1, AppendIs
  <2> QED
    BY <2>1, <2>2, Zenon DEF Began
<1>4. Len(tasks) \in Nat /\ DOMAIN tasks = 1 .. Len(tasks)
  BY <1>2, PipelineIs, Zenon
<1>5. Began \in Nat /\ i \in 1 .. Len(tasks)
  BY <1>2, <1>4 DEF Began, i
<1>6. /\ dataStatus' = "errored" <=> out.status = "errored"
      /\ dataStatus' = "pending_bridge" => out.status = "pending_bridge"
      /\ dataStatus' = "completed" => out.status = "completed" /\ i = Len(tasks)
  <2>1. \/ out.status # "completed" /\ dataStatus' = out.status
        \/ out.status = "completed" /\ i = Len(tasks) /\ dataStatus' = "completed"
        \/ out.status = "completed" /\ i # Len(tasks) /\ dataStatus' = "in_progress"
    BY <1>1, Zenon
  <2> QED
    BY <2>1
<1>7. OutputsAreOfTasks'
  BY <1>2, <1>3, <1>5 DEF OutputsAreOfTasks
<1>8. /\ Errored.status = "errored" /\ Errored.data = NoMembers
      /\ \A v : CompleteWithResult(v).status = "completed" /\ CompleteWithResult(v).data = WithResult(v)
  BY OutputStatuses, Zenon
<1>9. /\ "errored" # "completed" /\ "errored" # "pending_bridge" /\ "completed" # "pending_bridge"
      /\ "httpget" # "jsonparse" /\ "httpget" # "multiply" /\ "jsonparse" # "multiply"
  OBVIOUS
<1>10. PendingIsOfAnother'
  <2> SUFFICES ASSUME dataStatus' = "pending_bridge"
               PROVE  Began' # 0 /\ tasks'[Began'].type \notin {"httpget", "jsonparse", "multiply"}
    BY Zenon DEF PendingIsOfAnother
  <2>1. Began' # 0
    BY <1>3, <1>5
  <2>2. out.status = "pending_bridge"
    BY <1>6, Zenon
  <2>3. task.type # "httpget"
    BY <1>0, <1>8, <1>9, <2>2, Zenon
  <2>4. task.type # "jsonparse"
    <3>1. ASSUME NEW path, NEW input
          PROVE  JSONParse(path, input).status # "pending_bridge"
      BY <1>8, <1>9, Zenon DEF JSONParse
    <3> QED
      BY <1>0, <2>2, <3>1, Zenon
  <2>5. task.type # "multiply"
    <3>1. ASSUME NEW own, NEW input
          PROVE  Multiply(own, input).status # "pending_bridge"
      BY <1>8, <1>9, Zenon DEF Multiply
    <3> QED
      BY <1>0, <2>2, <3>1, Zenon
  <2> QED
    BY <1>2, <1>3, <2>1, <2>3, <2>4, <2>5, Zenon DEF task
<1>11. DocumentIsServed'
  <2> SUFFICES ASSUME Began' >= 1, tasks[1].type = "httpget", Began' > 1 \/ dataStatus' # "errored"
               PROVE  served' \in Documents /\ taskOutputs'[1] = WithResult(Text(served'))
    BY <1>2, Zenon DEF DocumentIsServed
  <2>1. CASE Began = 0
    <3>1. i = 1 /\ Began' = 1 /\ ~(Began' > 1) /\ task = tasks[1]
      BY <1>3, <2>1 DEF i, task
    <3>2. out.status # "errored"
      BY <1>6, <3>1, Zenon
    <3>3. PICK d \in Documents : out = CompleteWithResult(Text(d))
      BY <1>0, <1>8, <3>1, <3>2, Zenon
    <3>4. served' = Result(WithResult(Text(d))).text
      BY <1>1, <1>8, <3>1, <3>3, Zenon
    <3>5. Result(WithResult(Text(d))) = Text(d) /\ Text(d).text = d
      <4>1. "result" \in DOMAIN WithResult(Text(d)) /\ WithResult(Text(d))["result"] = Text(d)
        BY Zenon DEF WithResult
      <4> QED
        BY <4>1, TextIsNoNumber, Zenon DEF Result
    <3> QED
      BY <1>3, <1>8, <3>1, <3>3, <3>4, <3>5, Zenon
  <2>2. CASE Began # 0
    <3>1. Began >= 1 /\ 1 \in 1 .. Began /\ i # 1
      BY <1>5, <2>2 DEF i
    <3>2. served' = served
      BY <1>1, <3>1, Zenon
    <3>3. dataStatus # "errored"
      BY <1>2
    <3> QED
      BY <1>3, <3>1, <3>2, <3>3, Zenon DEF DataInv, DocumentIsServed
  <2> QED
    BY <2>1, <2>2

<1>12. DocumentIsParsed'
  <2> SUFFICES ASSUME Began' >= 2, tasks[1].type = "httpget", tasks[2].type = "jsonparse"
               PROVE  LET parsed == JSONParse(tasks[2].path, Text(served')) IN
                      /\ taskOutputs'[2] = parsed.data
                      /\ IF Began' = 2 THEN dataStatus' = "errored" <=> parsed.status = "errored"
                         ELSE parsed.status # "errored"
    BY <1>2, Zenon DEF DocumentIsParsed
  <2>1. i # 1 /\ Began >= 1 /\ 1 \in 1 .. Began
    BY <1>3, <1>5 DEF i
  <2>2. served' = served
    BY <1>1, <2>1, Zenon
  <2>3. served \in Documents /\ taskOutputs[1] = WithResult(Text(served))
    BY <1>2, <1>9, <2>1, Zenon DEF DataInv, DocumentIsServed
  <2>4. CASE Began = 1
    <3>1. i = 2 /\ Began' = 2
      BY <1>3, <2>4 DEF i
    <3>2. data = Merged(requestParams, taskOutputs[1])
      <4>1. i - 1 = 1
        BY <3>1
      <4> QED
        BY <2>1, <4>1, Zenon DEF data, OutputBefore
    <3>3. Result(data) = Text(served)
      BY <2>3, <3>2, ResultOfMerged, TextIsNoNumber
    <3>4. out = JSONParse(tasks[2].path, Text(served))
      BY <1>0, <3>1, <3>3, Zenon DEF task
    <3> QED
      BY <1>3, <1>6, <2>2, <3>1, <3>4, Zenon
  <2>5. CASE Began # 1
    <3>1. Began >= 2 /\ 2 \in 1 .. Began /\ Began' # 2
      BY <1>3, <1>5, <2>1, <2>5 DEF i
    <3>2. dataStatus # "errored"
      BY <1>2
    <3> QED
      BY <1>3, <2>2, <3>1, <3>2, Zenon DEF DataInv, DocumentIsParsed
  <2> QED
    BY <2>4, <2>5
<1>13. CompletedResultIsTheDocuments'
  <2> SUFFICES ASSUME dataStatus' = "completed", Types = <<"httpget", "jsonparse", "multiply">>,
                      "times" \in DOMAIN tasks[3].params
               PROVE  \E v \in Followed(served', tasks[2].path) :
                        LET times == tasks[3].params["times"]
                        IN  /\ IsNumeric(String(v))
                            /\ v = Float(v) /\ times = Float(times) =>
                                  Result(taskOutputs'[3]) = Text(Number((String(v).n * times.n) \div 4))
    <3>1. Types' = Types
      BY <1>2, Zenon DEF Types
    <3> QED
      BY <1>2, <3>1, Zenon DEF CompletedResultIsTheDocuments
  <2>1. /\ tasks[1].type = "httpget" /\ tasks[2].type = "jsonparse" /\ tasks[3].type = "multiply"
        /\ Len(tasks) = 3
    <3>1. DOMAIN Types = 1 .. 3 /\ Types[1] = "httpget" /\ Types[2] = "jsonparse" /\ Types[3] = "multiply"
      OBVIOUS
    <3>2. DOMAIN Types = DOMAIN tasks /\ \A n \in DOMAIN tasks : Types[n] = tasks[n].type
      BY Zenon DEF Types
    <3>3. 1 \in DOMAIN tasks /\ 2 \in DOMAIN tasks /\ 3 \in DOMAIN tasks /\ 3 = Len(tasks)
      <4>1. 1 .. Len(tasks) = 1 .. 3
        BY <1>4, <3>1, <3>2, Zenon
      <4>2. Len(tasks) = 3
        BY <1>4, <4>1
      <4> QED
        BY <1>4, <4>2
    <3> QED
      BY <3>1, <3>2, <3>3, Zenon
  <2>2. out.status = "completed" /\ i = 3 /\ Began = 2 /\ Began >= 1 /\ Began >= 2 /\ i # 1 /\ Began > 1
    BY <1>5, <1>6, <2>1 DEF i
  <2>3. served' = served
    BY <1>1, <2>2, Zenon
  <2>4. served \in Documents /\ dataStatus # "errored"
    BY <1>2, <1>9, <2>1, <2>2, Zenon DEF DataInv, DocumentIsServed
  <2> DEFINE path == tasks[2].path
             parsed == JSONParse(path, Text(served))
  <2>5. taskOutputs[2] = parsed.data /\ parsed.status # "errored"
    BY <2>1, <2>2, <2>4, Zenon DEF DataInv, DocumentIsParsed
  <2>6. Keyed(path) /\ served \in Values
    <3>1. 2 \in DOMAIN tasks
      BY <1>4, <2>1
    <3> QED
      BY <1>2, <2>1, <2>4, <3>1, PipelineIs, DataAssumption, Zenon
  <2>7. out = Multiply(params, Result(data))
    BY <1>0, <2>1, <2>2, Zenon DEF task
  <2>8. data = Merged(requestParams, taskOutputs[2])
    <3>1. i - 1 = 2
      BY <2>2
    <3> QED
      BY <2>2, <3>1, Zenon DEF data, OutputBefore
  <2>9. params = TaskParams(requestParams, tasks[3].params)
    BY <2>2, Zenon DEF params, task
  <2> HIDE DEF path, parsed
  <2>10. ASSUME NEW v, parsed = CompleteWithResult(v)
         PROVE  out = Multiply(params, Float(v))
    <3>1. taskOutputs[2] = WithResult(v)
      BY <1>8, <2>5, <2>10, Zenon
    <3>2. Result(Merged(requestParams, WithResult(v))) = Float(v)
      BY ResultOfMerged
    <3> QED
      BY <2>7, <2>8, <3>1, <3>2, Zenon
  <2>11. PICK v \in Values : dig(served, path) = <<v>> /\ parsed = CompleteWithResult(v)
    <3>1. parsed # CompleteWithResult(Null)
      <4> SUFFICES ASSUME parsed = CompleteWithResult(Null)
                   PROVE  FALSE
        OBVIOUS
      <4>1. Null.type = "null" /\ "null" # "string" /\ "null" # "number" /\ "word" # "number"
        BY DEF Null
      <4>2. Float(Null) = Null
        BY <4>1, Zenon DEF Float
      <4>3. String(Null) = Plain("")
        BY <4>1, Zenon DEF String
      <4>4. Plain("").type = "word"
        BY DEF Plain
      <4>5. ~IsNumeric(String(Null))
        BY <4>1, <4>3, <4>4, Zenon DEF IsNumeric
      <4>6. out = Errored
        BY <2>10, <4>2, <4>5, Zenon DEF Multiply
      <4> QED
        BY <1>8, <1>9, <2>2, <4>6, Zenon
    <3>2. parsed # Errored
      BY <1>8, <2>5, Zenon
    <3> QED
      BY <2>6, <3>1, <3>2, ParsedIs, Zenon DEF parsed
  <2>12. v \in Followed(served, path)
    <3>1. \A x, y : <<x>> = <<y>> => x = y
      OBVIOUS
    <3>2. \A x : <<x>> # <<>>
      OBVIOUS
    <3>3. \/ dig(served, path) = <<>> /\ Followed(served, path) = {}
          \/ \E w \in Values : dig(served, path) = <<w>> /\ Followed(served, path) = {w}
      BY <2>6, DigFollows
    <3> QED
      BY <2>11, <3>1, <3>2, <3>3, Zenon
  <2> DEFINE times == tasks[3].params["times"]
             number == Number((String(v).n * times.n) \div 4)
  <2>13. /\ IsNumeric(String(v))
         /\ v = Float(v) /\ times = Float(times) => out = CompleteWithResult(Text(number))
    <3>1. out = Multiply(TaskParams(requestParams, tasks[3].params), Float(v)) /\ out.status = "completed"
      BY <2>2, <2>9, <2>10, <2>11, Zenon
    <3>2. LET product == Multiply(TaskParams(requestParams, tasks[3].params), Float(v))
          IN  /\ IsNumeric(String(v))
              /\ v = Float(v) /\ times = Float(times) => product = CompleteWithResult(Text(number))
      BY <3>1, MultipliedIs
    <3> QED
      BY <3>1, <3>2, Zenon
  <2>14. taskOutputs'[3] = out.data
    BY <1>3, <2>2, Zenon
  <2> HIDE DEF number, times
  <2>15. out = CompleteWithResult(Text(number)) => Result(taskOutputs'[3]) = Text(number)
    <3>1. "result" \in DOMAIN WithResult(Text(number)) /\ WithResult(Text(number))["result"] = Text(number)
      BY Zenon DEF WithResult
    <3>2. Result(WithResult(Text(number))) = Text(number)
      BY <3>1, Zenon DEF Result
    <3> QED
      BY <1>8, <2>14, <3>2, Zenon
  <2> QED
    BY <2>3, <2>12, <2>13, <2>15, Zenon DEF number, times, path
<1> QED
  BY <1>7, <1>10, <1>11, <1>12, <1>13, Zenon DEF DataInv

LEMMA ResumePendingBridgeSafe == DataInv /\ ResumePendingBridge => DataInv'
<1> SUFFICES ASSUME DataInv, ResumePendingBridge
             PROVE  DataInv'
  OBVIOUS
<1>1. /\ tasks' = tasks /\ served' = served /\ dataStatus = "pending_bridge"
      /\ dataStatus' \in {"errored", "completed", "in_progress"}
      /\ \/ taskOutputs' = taskOutputs
         \/ \E data : taskOutputs' = [taskOutputs EXCEPT ![Began] = data]
  <2>1. /\ tasks' = tasks /\ served' = served /\ dataStatus = "pending_bridge"
    BY DEF ResumePendingBridge
  <2>2. dataStatus' \in {"errored", "completed", "in_progress"}
    BY Zenon DEF ResumePendingBridge
  <2>3. taskOutputs' = taskOutputs \/ \E data : taskOutputs' = [taskOutputs EXCEPT ![Began] = data]
    BY Zenon DEF ResumePendingBridge, Began
  <2> QED
    BY <2>1, <2>2, <2>3
<1>2. /\ Began # 0 /\ tasks[Began].type \notin {"httpget", "jsonparse", "multiply"}
      /\ tasks \in Pipelines
      /\ taskOutputs \in Seq(Range(taskOutputs)) /\ Began <= Len(tasks)
  BY <1>1, Zenon DEF DataInv, OutputsAreOfTasks, PendingIsOfAnother
<1>3. Began \in Nat /\ Began \in 1 .. Len(taskOutputs) /\ Len(tasks) \in Nat /\ DOMAIN tasks = 1 .. Len(tasks)
  <2>1. Len(tasks) \in Nat /\ DOMAIN tasks = 1 .. Len(tasks)
    BY <1>2, PipelineIs, Zenon
  <2> QED
    BY <1>2, <2>1 DEF Began
<1>4. /\ taskOutputs' \in Seq(Range(taskOutputs')) /\ Began' = Began
      /\ \A j \in 1 .. Began : j # Began => taskOutputs'[j] = taskOutputs[j]
  <2>1. CASE taskOutputs' = taskOutputs
    BY <1>2, <2>1 DEF Began
  <2>2. ASSUME NEW data, taskOutputs' = [taskOutputs EXCEPT ![Began] = data]
        PROVE  /\ taskOutputs' \in Seq(Range(taskOutputs')) /\ Began' = Began
               /\ \A j \in 1 .. Began : j # Began => taskOutputs'[j] = taskOutputs[j]
    <3>1. LET t == [taskOutputs EXCEPT ![Began] = data] IN
          /\ t \in Seq(Range(t)) /\ Len(t) = Len(taskOutputs)
          /\ \A j \in 1 .. Len(taskOutputs) : j # Began => t[j] = taskOutputs[j]
      BY <1>2, <1>3, ReplaceIs
    <3> QED
      BY <2>2, <3>1, Zenon DEF Began
  <2> QED
    BY <1>1, <2>1, <2>2, Zenon
<1>5. OutputsAreOfTasks'
  BY <1>1, <1>2, <1>4, Zenon DEF OutputsAreOfTasks
<1>6. PendingIsOfAnother'
  <2>1. dataStatus' # "pending_bridge"
    BY <1>1
  <2> QED
    BY <2>1, Zenon DEF PendingIsOfAnother
<1>7. tasks[1].type = "httpget" => Began > 1 /\ 1 \in 1 .. Began /\ 1 # Began
  BY <1>2, <1>3
<1>8. tasks[2].type = "jsonparse" => Began # 2
  BY <1>2
<1>9. DocumentIsServed'
  BY <1>1, <1>4, <1>7, Zenon DEF DataInv, DocumentIsServed
<1>10. DocumentIsParsed'
  <2> SUFFICES ASSUME Began >= 2, tasks[1].type = "httpget", tasks[2].type = "jsonparse"
               PROVE  LET parsed == JSONParse(tasks[2].path, Text(served)) IN
                      /\ taskOutputs'[2] = parsed.data
                      /\ IF Began = 2 THEN dataStatus' = "errored" <=> parsed.status = "errored"
                         ELSE parsed.status # "errored"
    BY <1>1, <1>4, Zenon DEF DocumentIsParsed
  <2>1. 2 \in 1 .. Began /\ 2 # Began
    BY <1>3, <1>8
  <2> QED
    BY <1>4, <2>1, Zenon DEF DataInv, DocumentIsParsed
<1>11. CompletedResultIsTheDocuments'
  <2>1. ASSUME Types = <<"httpget", "jsonparse", "multiply">>
        PROVE  FALSE
    <3>1. DOMAIN Types = 1 .. 3 /\ Types[1] = "httpget" /\ Types[2] = "jsonparse" /\ Types[3] = "multiply"
      BY <2>1
    <3>2. DOMAIN Types = DOMAIN tasks /\ \A n \in DOMAIN tasks : Types[n] = tasks[n].type
      BY Zenon DEF Types
    <3>3. Began \in {1, 2, 3} /\ Began \in DOMAIN tasks
      BY <1>2, <1>3, <3>1, <3>2
    <3>4. tasks[Began].type = Types[Began]
      BY <3>2, <3>3, Zenon
    <3> QED
      BY <1>2, <3>1, <3>3, <3>4, Zenon
  <2>2. Types' = Types
    BY <1>1, Zenon DEF Types
  <2> QED
    BY <2>1, <2>2, Zenon DEF CompletedResultIsTheDocuments
<1> QED
  BY <1>5, <1>6, <1>9, <1>10, <1>11, Zenon DEF DataInv

LEMMA DataStutterSafe == DataInv /\ UNCHANGED dataVars => DataInv'
<1> SUFFICES ASSUME DataInv, UNCHANGED dataVars
             PROVE  DataInv'
  OBVIOUS
<1>1. /\ tasks' = tasks /\ requestParams' = requestParams /\ taskOutputs' = taskOutputs
      /\ dataStatus' = dataStatus /\ served' = served
  BY DEF dataVars
<1> QED
  BY <1>1, Zenon DEF DataInv, OutputsAreOfTasks, PendingIsOfAnother, DocumentIsServed, DocumentIsParsed,
                     CompletedResultIsTheDocuments, Types, Began

LEMMA OnlyTheLast == DataInv => OnlyTheLastKeyMayBeMissing
<1> SUFFICES ASSUME DataInv, Len(taskOutputs) >= 2, Types[1] = "httpget", Types[2] = "jsonparse",
                    served.type \in {"array", "object"}
             PROVE  dataStatus = "errored" /\ Len(taskOutputs) = 2
                        <=> Followed(served, Front(tasks[2].path)) = {}
  BY Zenon DEF OnlyTheLastKeyMayBeMissing
<1>1. tasks \in Pipelines /\ taskOutputs \in Seq(Range(taskOutputs)) /\ Began <= Len(tasks)
  BY DEF DataInv, OutputsAreOfTasks
<1>2. Len(tasks) \in Nat /\ DOMAIN tasks = 1 .. Len(tasks)
  BY <1>1, PipelineIs, Zenon
<1>3. 1 \in DOMAIN tasks /\ 2 \in DOMAIN tasks /\ Began >= 1 /\ Began >= 2 /\ Began > 1
  BY <1>1, <1>2 DEF Began
<1>4. tasks[1].type = "httpget" /\ tasks[2].type = "jsonparse"
  BY <1>3, Zenon DEF Types
<1> DEFINE path == tasks[2].path
           parsed == JSONParse(path, Text(served))
<1>5. served \in Values /\ Keyed(path)
  <2>1. served \in Documents
    BY <1>3, <1>4, Zenon DEF DataInv, DocumentIsServed
  <2> QED
    BY <1>1, <1>3, <1>4, <2>1, PipelineIs, DataAssumption, Zenon
<1>6. dataStatus = "errored" /\ Began = 2 <=> parsed.status = "errored"
  BY <1>3, <1>4, Zenon DEF DataInv, DocumentIsParsed
<1> HIDE DEF path, parsed
<1>7. served.type # "word" /\ "completed" # "errored"
  OBVIOUS
<1>8. parsed.status = "errored" <=> dig(served, path) = <<>> /\ getEarlyPath(served, path) = <<>>
  <2>1. \A v : <<v>> # <<>>
    OBVIOUS
  <2> QED
    BY <1>5, <1>7, <2>1, ParsedIs, OutputStatuses, Zenon DEF parsed
<1>9. getEarlyPath(served, path) = <<>> <=> Followed(served, Front(path)) = {}
  <2>1. Keyed(Front(path))
    BY <1>5, FrontIsKeyed, Zenon
  <2>2. \A v : <<v>> # <<>> /\ {v} # {}
    OBVIOUS
  <2> QED
    BY <1>5, <2>1, <2>2, DigFollows, Zenon DEF getEarlyPath
<1>10. Followed(served, Front(path)) = {} => dig(served, path) = <<>>
  <2>1. \A v : {v} # {}
    OBVIOUS
  <2> QED
    BY <1>5, <2>1, NothingBeyondNothing, DigFollows, Zenon
<1> QED
  BY <1>6, <1>8, <1>9, <1>10, Zenon DEF Began, path

\* A job that fetches, parses and multiplies completes with the number its path leads to
\* in the document it was served, times its factor, and parsing fails only where a key
\* before the last is missing (json_parse.go, run_executor.go), for any documents,
\* requests, jobs and answers of adapters.
THEOREM ResultIsOfTheDocument == DataSpec => []ResultIsTheDocuments
<1>1. DataInit => DataInv
  BY InitSafe
<1>2. DataInv /\ [DataNext]_dataVars => DataInv'
  BY ExecuteTaskSafe, ResumePendingBridgeSafe, DataStutterSafe, Zenon DEF DataNext
<1>3. DataInv => ResultIsTheDocuments
  BY OnlyTheLast, Zenon DEF DataInv, ResultIsTheDocuments
<1> QED
  BY <1>1, <1>2, <1>3, PTL DEF DataSpec

----------------------------------------------------------------------------
(* Vrf.  Doubling is adding over and over, so powers and multiples have     *)
(* their laws; the response makes the nonce, so the challenge is the same   *)
(* hash to whoever checks it; and the fractions of solidity_ports.go are    *)
(* the sum of the points.                                                   *)

\* A number is its remainder and a multiple, in one way only.
LEMMA QuotientIsOne ==
    ASSUME NEW n \in Nat \ {0}, NEW x \in Int, NEW k \in Int, NEW r \in 0 .. n - 1, x = k * n + r
    PROVE  x % n = r
<1> DEFINE d == x \div n
           w == x % n
<1>1. d \in Int /\ w \in 0 .. n - 1 /\ x = n * d + w
  OBVIOUS
<1> HIDE DEF d, w
<1>2. n * (d - k) = r - w
  <2>1. n * (d - k) = n * d - n * k
    BY <1>1
  <2>2. n * k = k * n
    BY <1>1
  <2> QED
    BY <1>1, <2>1, <2>2
<1>3. d - k = 0
  <2> DEFINE e == d - k
  <2>0. e \in Int /\ n * e = r - w
    BY <1>1, <1>2
  <2> HIDE DEF e
  <2>1. e >= 1 => n * e >= n
    BY <2>0
  <2>2. e <= -1 => n * e <= -n
    BY <2>0
  <2>3. e = 0
    BY <1>1, <2>0, <2>1, <2>2
  <2> QED
    BY <2>3 DEF e
<1>4. r = w
  BY <1>1, <1>2, <1>3
<1> QED
  BY <1>4 DEF w

LEMMA Remainder ==
    ASSUME NEW n \in Nat \ {0}, NEW x \in Int
    PROVE  x % n \in 0 .. n - 1 /\ \E k \in Int : x = k * n + (x % n)
<1>1. x \div n \in Int /\ x % n \in 0 .. n - 1 /\ x = n * (x \div n) + (x % n)
  OBVIOUS
<1>2. n * (x \div n) = (x \div n) * n
  BY <1>1
<1> QED
  BY <1>1, <1>2

LEMMA Reduced ==
    ASSUME NEW n \in Nat \ {0}, NEW x \in 0 .. n - 1
    PROVE  x % n = x
BY QuotientIsOne

\* Two numbers have the same remainder if they differ by a multiple.
LEMMA SameRemainder ==
    ASSUME NEW n \in Nat \ {0}, NEW x \in Int, NEW y \in Int, NEW k \in Int, x = y + k * n
    PROVE  x % n = y % n
<1>1. PICK j \in Int : y = j * n + (y % n)
  BY Remainder
<1>2. y % n \in 0 .. n - 1
  BY Remainder
<1> DEFINE r == y % n
<1> HIDE DEF r
<1>3. x = (j + k) * n + r
  <2>1. (j + k) * n = j * n + k * n
    BY <1>1
  <2> QED
    BY <1>1, <1>2, <2>1 DEF r
<1>4. r \in 0 .. n - 1 /\ j + k \in Int
  BY <1>1, <1>2 DEF r
<1>5. x % n = r
  BY <1>3, <1>4, QuotientIsOne
<1> QED
  BY <1>5 DEF r

\* Sums, differences and products of remainders.
LEMMA Remainders ==
    ASSUME NEW n \in Nat \ {0}, NEW x \in Int, NEW y \in Int
    PROVE  /\ ((x % n) + y) % n = (x + y) % n
           /\ ((x % n) - y) % n = (x - y) % n
           /\ (y - (x % n)) % n = (y - x) % n
           /\ ((x % n) * y) % n = (x * y) % n
<1>1. PICK j \in Int : x = j * n + (x % n)
  BY Remainder
<1> DEFINE r == x % n
<1>2. r \in 0 .. n - 1 /\ r \in Int /\ x = j * n + r
  BY <1>1, Remainder
<1> HIDE DEF r
<1>3. x + y = (r + y) + j * n
  BY <1>2
<1>4. x - y = (r - y) + j * n
  BY <1>2
<1>5. y - x = (y - r) + (-j) * n
  <2>1. (-j) * n = -(j * n)
    BY <1>2
  <2> QED
    BY <1>2, <2>1
<1>6. x * y = r * y + (j * y) * n
  <2>1. (j * n + r) * y = (j * n) * y + r * y
    BY <1>2
  <2>2. (j * n) * y = (j * y) * n
    BY <1>2
  <2> QED
    BY <1>2, <2>1, <2>2
<1>7. (x + y) % n = (r + y) % n
  <2>1. x + y \in Int /\ r + y \in Int
    BY <1>2
  <2> QED
    BY <1>3, <2>1, SameRemainder
<1>8. (x - y) % n = (r - y) % n
  <2>1. x - y \in Int /\ r - y \in Int
    BY <1>2
  <2> QED
    BY <1>4, <2>1, SameRemainder
<1>9. (y - x) % n = (y - r) % n
  <2>1. y - x \in Int /\ y - r \in Int /\ -j \in Int
    BY <1>2
  <2> QED
    BY <1>5, <2>1, SameRemainder
<1>10. (x * y) % n = (r * y) % n
  <2>1. x * y \in Int /\ r * y \in Int /\ j * y \in Int
    BY <1>2
  <2> QED
    BY <1>6, <2>1, SameRemainder
<1> QED
  BY <1>7, <1>8, <1>9, <1>10 DEF r

\* f is defined by recursion: from a, and at n from what it is at d[n].
Recurs(f, m, a, d, step) == f[0] = a /\ \A n \in 1 .. m : f[n] = step[<<n, f[d[n]]>>]

\* There is such a function, as the recursion goes down.
LEMMA RecursionEnds ==
    ASSUME NEW V, NEW m \in Nat, NEW a \in V, NEW d, \A n \in 1 .. m : d[n] \in 0 .. n - 1,
           NEW step \in [(1 .. m) \X V -> V]
    PROVE  \E f \in [0 .. m -> V] : Recurs(f, m, a, d, step)
<1> DEFINE Defined(n) == \E f \in [0 .. n -> V] : Recurs(f, n, a, d, step)
           B == {n \in 0 .. m : ~Defined(n)}
<1> SUFFICES ASSUME B # {}
             PROVE  FALSE
  <2>1. m \in 0 .. m
    OBVIOUS
  <2> QED
    BY <2>1, Zenon
<1> DEFINE k == Min(B)
<1>1. k \in B /\ \A n \in B : k <= n
  <2>1. B \subseteq Nat
    OBVIOUS
  <2> HIDE DEF B
  <2> QED
    BY <2>1, LeastIsFirst
<1> HIDE DEF k
<1>2. k \in 0 .. m /\ ~Defined(k)
  BY <1>1, Zenon
<1>3. CASE k = 0
  <2> DEFINE g == [n \in 0 .. 0 |-> a]
  <2>1. g \in [0 .. 0 -> V] /\ g[0] = a
    OBVIOUS
  <2>2. \A n \in 1 .. 0 : FALSE
    OBVIOUS
  <2> HIDE DEF g
  <2>3. Recurs(g, 0, a, d, step)
    BY <2>1, <2>2, Zenon DEF Recurs
  <2> QED
    BY <1>2, <1>3, <2>1, <2>3, Zenon
<1>4. CASE k # 0
  <2>1. k - 1 \in 0 .. m /\ ~(k <= k - 1) /\ k \in 1 .. m /\ k \in Nat
    BY <1>2, <1>4
  <2>2. Defined(k - 1)
    <3> HIDE DEF Defined
    <3> QED
      BY <1>1, <2>1, Zenon
  <2>3. PICK f \in [0 .. k - 1 -> V] : Recurs(f, k - 1, a, d, step)
    BY <2>2, Zenon
  <2> DEFINE g == [n \in 0 .. k |-> IF n = k THEN step[<<k, f[d[k]]>>] ELSE f[n]]
  <2>4. d[k] \in 0 .. k - 1
    BY <2>1
  <2>5. step[<<k, f[d[k]]>>] \in V
    <3>1. <<k, f[d[k]]>> \in (1 .. m) \X V
      BY <2>1, <2>3, <2>4
    <3> QED
      BY <3>1
  <2>6. \A n \in 0 .. k : n # k => n \in 0 .. k - 1
    BY <2>1
  <2>7. g \in [0 .. k -> V]
    BY <2>3, <2>5, <2>6
  <2>8. \A n \in 0 .. k - 1 : n \in 0 .. k /\ n # k
    BY <2>1
  <2>9. \A n \in 0 .. k - 1 : g[n] = f[n]
    BY <2>8, Zenon
  <2>10. g[k] = step[<<k, f[d[k]]>>]
    <3>1. k \in 0 .. k
      BY <2>1
    <3> QED
      BY <3>1, Zenon
  <2> HIDE DEF g
  <2>11. g[0] = a
    <3>1. 0 \in 0 .. k - 1
      BY <2>1
    <3> QED
      BY <2>3, <2>9, <3>1, Zenon DEF Recurs
  <2>12. ASSUME NEW n \in 1 .. k
         PROVE  g[n] = step[<<n, g[d[n]]>>]
    <3>1. d[n] \in 0 .. k - 1
      <4>1. n \in 1 .. m /\ 0 .. n - 1 \subseteq 0 .. k - 1
        BY <2>1
      <4> QED
        BY <4>1
    <3>2. g[d[n]] = f[d[n]]
      BY <2>9, <3>1, Zenon
    <3>3. CASE n = k
      BY <2>10, <3>2, <3>3, Zenon
    <3>4. CASE n # k
      <4>1. n \in 1 .. k - 1 /\ n \in 0 .. k - 1
        BY <2>1, <3>4
      <4> QED
        BY <2>3, <2>9, <3>2, <4>1, Zenon DEF Recurs
    <3> QED
      BY <3>3, <3>4
  <2>13. Recurs(g, k, a, d, step)
    BY <2>11, <2>12, Zenon DEF Recurs
  <2> QED
    BY <1>2, <2>7, <2>13, Zenon
<1> QED
  BY <1>3, <1>4

\* Induction over numbers, with a set for the property.
LEMMA NumbersInductive ==
    ASSUME NEW S, NEW m \in Nat, 0 \in S, \A n \in 0 .. m - 1 : n \in S => n + 1 \in S
    PROVE  0 .. m \subseteq S
<1> DEFINE B == {n \in 0 .. m : n \notin S}
<1> SUFFICES ASSUME B # {}
             PROVE  FALSE
  BY Zenon
<1> DEFINE k == Min(B)
<1>1. k \in B /\ \A n \in B : k <= n
  <2>1. B \subseteq Nat
    OBVIOUS
  <2> HIDE DEF B
  <2> QED
    BY <2>1, LeastIsFirst
<1> HIDE DEF k
<1>2. k \in 0 .. m /\ k \notin S
  BY <1>1, Zenon
<1>3. k # 0
  BY <1>2
<1>4. k - 1 \in 0 .. m - 1 /\ k - 1 \in 0 .. m /\ ~(k <= k - 1) /\ (k - 1) + 1 = k
  BY <1>2, <1>3
<1>5. k - 1 \in S
  BY <1>1, <1>4, Zenon
<1>6. (k - 1) + 1 \in S
  BY <1>4, <1>5, Zenon
<1> QED
  BY <1>2, <1>4, <1>6, Zenon

\* What op does is associative and commutative, and e changes nothing.
Commutes(V, op, e) ==
    /\ e \in V
    /\ \A u, v \in V : op[<<u, v>>] \in V /\ op[<<u, v>>] = op[<<v, u>>]
    /\ \A u, v, w \in V : op[<<op[<<u, v>>], w>>] = op[<<u, op[<<v, w>>]>>]
    /\ \A v \in V : op[<<e, v>>] = v

\* Twice a sum is both parts twice.
LEMMA SquareOfSum ==
    ASSUME NEW V, NEW op, NEW e, Commutes(V, op, e), NEW h \in V, NEW v \in V
    PROVE  op[<<op[<<h, v>>], op[<<h, v>>]>>] = op[<<op[<<op[<<h, h>>], v>>], v>>]
<1>0. \A x, y, z \in V : op[<<op[<<x, y>>], z>>] = op[<<x, op[<<y, z>>]>>]
  BY Zenon DEF Commutes
<1>1. PICK w \in V : w = op[<<h, v>>]
  BY Zenon DEF Commutes
<1>2. op[<<v, w>>] = op[<<w, v>>]
  BY Zenon DEF Commutes
<1>3. op[<<op[<<h, v>>], w>>] = op[<<h, op[<<v, w>>]>>]
  BY <1>0
<1>4. op[<<op[<<h, w>>], v>>] = op[<<h, op[<<w, v>>]>>]
  BY <1>0
<1>5. op[<<op[<<h, h>>], v>>] = op[<<h, op[<<h, v>>]>>]
  BY <1>0
<1> QED
  BY <1>1, <1>2, <1>3, <1>4, <1>5, Zenon

\* Doubled at every step, and v once more if the number is odd.
Doubled(f, n, op, v) ==
    LET twice == op[<<f[n \div 2], f[n \div 2]>>] IN
    IF n % 2 = 1 THEN op[<<twice, v>>] ELSE twice

Doubles(f, m, op, e, v) == f[0] = e /\ \A n \in 1 .. m : f[n] = Doubled(f, n, op, v)

Adds(f, m, op, v) == \A n \in 0 .. m - 1 : f[n + 1] = op[<<f[n], v>>]

\* Doubling takes v as many times as adding it over and over does.
LEMMA DoublingAdds ==
    ASSUME NEW V, NEW op, NEW e, Commutes(V, op, e), NEW v \in V, NEW m \in Nat,
           NEW f \in [0 .. m -> V], Doubles(f, m, op, e, v)
    PROVE  Adds(f, m, op, v)
<1> DEFINE AddsAt(n) == f[n + 1] = op[<<f[n], v>>]
           S == {n \in Nat : \A i \in 0 .. n : i <= m - 1 => AddsAt(i)}
<1>0. f[0] = e /\ \A n \in 1 .. m : f[n] = Doubled(f, n, op, v)
  BY Zenon DEF Doubles
<1>1. 0 \in S
  <2>1. \A i \in 0 .. 0 : i = 0
    OBVIOUS
  <2>2. ASSUME 0 <= m - 1
        PROVE  AddsAt(0)
    <3>1. f[1] = op[<<op[<<f[0], f[0]>>], v>>]
      <4>1. 1 \in 1 .. m /\ 1 % 2 = 1 /\ 1 \div 2 = 0
        BY <2>2
      <4> QED
        BY <1>0, <4>1, Zenon DEF Doubled
    <3>2. op[<<f[0], f[0]>>] = f[0]
      BY <1>0, Zenon DEF Commutes
    <3>3. 0 + 1 = 1
      OBVIOUS
    <3> QED
      BY <3>1, <3>2, <3>3, Zenon
  <2> QED
    BY <2>1, <2>2
<1>2. ASSUME NEW n \in Nat, n \in S
      PROVE  n + 1 \in S
  <2> HIDE DEF AddsAt
  <2>0. \A i \in 0 .. n : i <= m - 1 => AddsAt(i)
    BY <1>2
  <2>1. ASSUME n + 1 <= m - 1
        PROVE  AddsAt(n + 1)
    <3> DEFINE k == (n + 1) \div 2
               h == f[k]
    <3>1. k \in 0 .. n /\ k <= m - 1 /\ k \in 0 .. m /\ k + 1 \in 0 .. m
      BY <2>1
    <3>2. n + 1 \in 1 .. m /\ n + 2 \in 1 .. m /\ (n + 1) + 1 = n + 2
      BY <2>1
    <3>3. h \in V /\ f[k + 1] \in V
      BY <3>1
    <3>4. f[n + 1] = Doubled(f, n + 1, op, v) /\ f[n + 2] = Doubled(f, n + 2, op, v)
      BY <1>0, <3>2, Zenon
    <3>5. CASE (n + 1) % 2 = 0
      <4>1. (n + 2) \div 2 = k /\ (n + 2) % 2 = 1 /\ (n + 1) % 2 # 1
        BY <3>5
      <4> HIDE DEF k
      <4>2. f[n + 2] = op[<<op[<<f[k], f[k]>>], v>>]
        BY <3>4, <4>1, Zenon DEF Doubled
      <4>3. f[n + 1] = op[<<f[k], f[k]>>]
        BY <3>4, <4>1, Zenon DEF Doubled, k
      <4> QED
        BY <3>2, <4>2, <4>3, Zenon DEF AddsAt
    <3>6. CASE (n + 1) % 2 = 1
      <4>1. (n + 2) \div 2 = k + 1 /\ (n + 2) % 2 # 1
        BY <3>6
      <4>2. f[n + 2] = op[<<f[k + 1], f[k + 1]>>]
        <5> HIDE DEF k
        <5> QED
          BY <3>4, <4>1, Zenon DEF Doubled
      <4>3. f[n + 1] = op[<<op[<<h, h>>], v>>]
        BY <3>4, <3>6, Zenon DEF Doubled
      <4>4. f[k + 1] = op[<<h, v>>]
        <5>1. AddsAt(k)
          <6> HIDE DEF k
          <6> QED
            BY <2>0, <3>1, Zenon
        <5> QED
          BY <5>1, Zenon DEF AddsAt
      <4>5. op[<<op[<<h, v>>], op[<<h, v>>]>>] = op[<<op[<<op[<<h, h>>], v>>], v>>]
        <5> HIDE DEF h
        <5> QED
          BY <3>3, SquareOfSum
      <4>9. f[n + 2] = op[<<f[n + 1], v>>]
        <5> HIDE DEF h
        <5> QED
          BY <4>2, <4>3, <4>4, <4>5, Zenon
      <4> QED
        BY <3>2, <4>9, Zenon DEF AddsAt
    <3>7. (n + 1) % 2 = 0 \/ (n + 1) % 2 = 1
      OBVIOUS
    <3> QED
      BY <3>5, <3>6, <3>7, Zenon
  <2>2. \A i \in 0 .. n + 1 : i \in 0 .. n \/ i = n + 1
    OBVIOUS
  <2>3. \A i \in 0 .. n + 1 : i <= m - 1 => AddsAt(i)
    BY <2>0, <2>1, <2>2, Zenon
  <2>4. n + 1 \in Nat
    OBVIOUS
  <2> QED
    BY <2>3, <2>4, Zenon
<1>3. 0 .. m \subseteq S
  <2> HIDE DEF S
  <2>1. \A n \in 0 .. m - 1 : n \in Nat
    OBVIOUS
  <2>2. \A n \in 0 .. m - 1 : n \in S => n + 1 \in S
    BY <1>2, <2>1
  <2> QED
    BY <1>1, <2>2, NumbersInductive
<1>4. m \in S
  <2>1. m \in 0 .. m
    OBVIOUS
  <2> QED
    BY <1>3, <2>1, Zenon
<1>5. \A n \in 0 .. m - 1 : n \in 0 .. m /\ n <= m - 1
  OBVIOUS
<1> QED
  BY <1>4, <1>5, Zenon DEF Adds

\* The field.
Field == 0 .. FieldSize - 1

LEMMA FieldIs ==
    FieldSize \in Nat \ {0} /\ FieldSize > 7 /\ FieldSize \in Nat /\ 0 \in Field /\ 1 \in Field
    /\ Field \subseteq Int /\ Field \subseteq Nat
<1>1. FieldSize \in Nat /\ FieldSize > 7
  BY CurveAssumption DEF FieldAssumption
<1> QED
  BY <1>1 DEF Field

\* modQ of Remainders.
LEMMA FieldRemainders ==
    ASSUME NEW x \in Int, NEW y \in Int
    PROVE  /\ modQ(x) \in Field /\ modQ(x) \in Int
           /\ modQ(modQ(x)) = modQ(x)
           /\ modQ(modQ(x) + y) = modQ(x + y)
           /\ modQ(modQ(x) - y) = modQ(x - y)
           /\ modQ(y - modQ(x)) = modQ(y - x)
           /\ modQ(modQ(x) * y) = modQ(x * y)
           /\ modQ(y * modQ(x)) = modQ(y * x)
<1>1. modQ(x) \in Field /\ modQ(x) \in Int
  BY FieldIs, Remainder DEF modQ, Field
<1>2. modQ(modQ(x) + y) = modQ(x + y)
  BY FieldIs, Remainders DEF modQ
<1>3. modQ(modQ(x) - y) = modQ(x - y)
  BY FieldIs, Remainders DEF modQ
<1>4. modQ(y - modQ(x)) = modQ(y - x)
  BY FieldIs, Remainders DEF modQ
<1>5. modQ(modQ(x) * y) = modQ(x * y)
  BY FieldIs, Remainders DEF modQ
<1>6. modQ(modQ(x)) = modQ(x)
  BY <1>1, FieldIs, Reduced DEF modQ, Field
<1>7. modQ(x) * y = y * modQ(x) /\ x * y = y * x
  BY <1>1
<1> QED
  BY <1>1, <1>2, <1>3, <1>4, <1>5, <1>6, <1>7

LEMMA ReducedFactors ==
    ASSUME NEW x \in Int, NEW y \in Int
    PROVE  modQ(modQ(x) * modQ(y)) = modQ(x * y)
<1>1. modQ(y) \in Int
  BY FieldRemainders
<1>2. modQ(modQ(x) * modQ(y)) = modQ(x * modQ(y))
  BY <1>1, FieldRemainders
<1>3. modQ(x * modQ(y)) = modQ(x * y)
  BY FieldRemainders
<1> QED
  BY <1>2, <1>3

LEMMA FieldReduced ==
    ASSUME NEW x \in Field
    PROVE  modQ(x) = x
BY FieldIs, Reduced DEF modQ, Field

\* Its product, as a function.
Products == [p \in Field \X Field |-> modQ(p[1] * p[2])]

LEMMA ProductsAre ==
    ASSUME NEW u \in Field, NEW v \in Field
    PROVE  Products[<<u, v>>] = modQ(u * v) /\ Products[<<u, v>>] \in Field
<1>1. u * v \in Int
  BY FieldIs
<1>2. <<u, v>> \in Field \X Field /\ <<u, v>>[1] = u /\ <<u, v>>[2] = v
  OBVIOUS
<1>3. Products[<<u, v>>] = modQ(<<u, v>>[1] * <<u, v>>[2])
  BY <1>2, Zenon DEF Products
<1> QED
  BY <1>1, <1>2, <1>3, FieldRemainders

LEMMA ProductsCommute == Commutes(Field, Products, 1)
<1>1. ASSUME NEW u \in Field, NEW v \in Field
      PROVE  Products[<<u, v>>] \in Field /\ Products[<<u, v>>] = Products[<<v, u>>]
  <2>1. u * v = v * u
    BY FieldIs
  <2> QED
    BY <2>1, ProductsAre
<1>2. ASSUME NEW u \in Field, NEW v \in Field, NEW w \in Field
      PROVE  Products[<<Products[<<u, v>>], w>>] = Products[<<u, Products[<<v, w>>]>>]
  <2>0. u \in Int /\ v \in Int /\ w \in Int
    BY FieldIs
  <2>1. u * v \in Int /\ v * w \in Int
    BY <2>0
  <2>2. Products[<<Products[<<u, v>>], w>>] = modQ(modQ(u * v) * w)
    BY ProductsAre
  <2>3. Products[<<u, Products[<<v, w>>]>>] = modQ(u * modQ(v * w))
    BY ProductsAre
  <2>4. modQ(modQ(u * v) * w) = modQ((u * v) * w)
    BY <2>0, <2>1, FieldRemainders
  <2>5. modQ(u * modQ(v * w)) = modQ(u * (v * w))
    BY <2>0, <2>1, FieldRemainders
  <2>6. (u * v) * w = u * (v * w)
    BY <2>0
  <2> QED
    BY <2>2, <2>3, <2>4, <2>5, <2>6
<1>3. ASSUME NEW v \in Field
      PROVE  Products[<<1, v>>] = v
  <2>1. 1 * v = v
    BY FieldIs
  <2> QED
    BY <2>1, FieldIs, ProductsAre, FieldReduced
<1> QED
  BY <1>1, <1>2, <1>3, FieldIs, Zenon DEF Commutes

\* The powers of b, one after the other.
Powers(f, b, m) == f[0] = 1 /\ \A n \in 0 .. m - 1 : f[n + 1] = modQ(f[n] * b)

\* The recursive function of Exp.
LEMMA ExpIs ==
    ASSUME NEW b \in Int, NEW e \in Nat
    PROVE  \E f \in [0 .. e -> Field] : Powers(f, b, e) /\ Exp(b, e) = f[e]
<1> DEFINE Function(f) == f = [n \in 0 .. e |->
                                  IF n = 0 THEN 1
                                  ELSE LET half == f[n \div 2] IN
                                       modQ(modQ(half * half) * (IF n % 2 = 1 THEN b ELSE 1))]
           By(n) == IF n % 2 = 1 THEN b ELSE 1
           d == [n \in 1 .. e |-> n \div 2]
           step == [t \in (1 .. e) \X Field |-> modQ(modQ(t[2] * t[2]) * By(t[1]))]
<1>1. \A n \in 1 .. e : d[n] = n \div 2 /\ n \div 2 \in 0 .. n - 1
  OBVIOUS
<1>2. ASSUME NEW n \in 1 .. e, NEW u \in Field
      PROVE  /\ step[<<n, u>>] = modQ(modQ(u * u) * By(n))
             /\ modQ(modQ(u * u) * By(n)) \in Field
  <2>1. By(n) \in Int
    OBVIOUS
  <2> HIDE DEF By
  <2>2. <<n, u>> \in (1 .. e) \X Field /\ <<n, u>>[1] = n /\ <<n, u>>[2] = u
    OBVIOUS
  <2>3. step[<<n, u>>] = modQ(modQ(<<n, u>>[2] * <<n, u>>[2]) * By(<<n, u>>[1]))
    BY <2>2, Zenon
  <2>4. u * u \in Int
    BY FieldIs
  <2>5. modQ(u * u) \in Int
    BY <2>4, FieldRemainders
  <2>6. modQ(u * u) * By(n) \in Int
    BY <2>1, <2>5
  <2> QED
    BY <2>2, <2>3, <2>6, FieldRemainders
<1>3. step \in [(1 .. e) \X Field -> Field]
  <2>1. \A t \in (1 .. e) \X Field : step[t] \in Field
    <3> SUFFICES ASSUME NEW t \in (1 .. e) \X Field
                 PROVE  step[t] \in Field
      OBVIOUS
    <3> HIDE DEF step
    <3>1. PICK n \in 1 .. e, u \in Field : t = <<n, u>>
      OBVIOUS
    <3> QED
      BY <1>2, <3>1, Zenon
  <2>2. step = [t \in (1 .. e) \X Field |-> step[t]]
    BY Zenon
  <2> HIDE DEF step
  <2> QED
    BY <2>1, <2>2
<1>4. PICK some \in [0 .. e -> Field] : Recurs(some, e, 1, d, step)
  <2> HIDE DEF d, step
  <2>1. \A n \in 1 .. e : d[n] \in 0 .. n - 1
    BY <1>1
  <2> QED
    BY <1>3, <2>1, FieldIs, RecursionEnds
<1> DEFINE g == [n \in 0 .. e |-> some[n]]
<1>5. Function(g)
  <2>1. \A n \in 0 .. e : n # 0 => n \div 2 \in 0 .. e /\ n \in 1 .. e
    OBVIOUS
  <2>2. ASSUME NEW n \in 0 .. e
        PROVE  g[n] = IF n = 0 THEN 1
                      ELSE LET half == g[n \div 2] IN
                           modQ(modQ(half * half) * (IF n % 2 = 1 THEN b ELSE 1))
    <3>1. CASE n = 0
      BY <1>4, <3>1, Zenon DEF Recurs
    <3>2. CASE n # 0
      <4>1. g[n] = some[n] /\ g[n \div 2] = some[n \div 2] /\ n \in 1 .. e
        BY <2>1, <3>2, Zenon
      <4> HIDE DEF step, g, d
      <4>2. some[n] = step[<<n, some[n \div 2]>>]
        BY <1>1, <1>4, <4>1, Zenon DEF Recurs
      <4>3. some[n \div 2] \in Field
        BY <2>1, <3>2
      <4>4. some[n] = modQ(modQ(g[n \div 2] * g[n \div 2]) * By(n))
        BY <1>2, <4>1, <4>2, <4>3, Zenon
      <4> QED
        BY <3>2, <4>1, <4>4, Zenon
    <3> QED
      BY <3>1, <3>2
  <2> HIDE DEF By, d, step
  <2> QED
    BY <2>2, Zenon
<1> DEFINE f == CHOOSE h : Function(h)
<1>6. Function(f)
  <2> HIDE DEF Function, g
  <2> QED
    BY <1>5, Zenon
<1>7. Exp(b, e) = f[e]
  BY Zenon DEF Exp
<1> HIDE DEF g, f
<1>8. \A n \in 0 .. e : n # 0 => n \div 2 \in 0 .. e
  OBVIOUS
<1>9. f[0] = 1
  <2>1. 0 \in 0 .. e
    OBVIOUS
  <2> QED
    BY <1>6, <2>1, Zenon
<1>10. \A n \in 1 .. e : f[n] = modQ(modQ(f[n \div 2] * f[n \div 2]) * By(n))
  <2>1. \A n \in 1 .. e : n \in 0 .. e /\ n # 0
    OBVIOUS
  <2> QED
    BY <1>6, <2>1, Zenon
<1>11. f \in [0 .. e -> Field]
  <2> DEFINE S == {n \in Nat : \A i \in 0 .. n : i <= e => f[i] \in Field}
  <2>1. 0 \in S
    <3>1. \A i \in 0 .. 0 : i = 0
      OBVIOUS
    <3> QED
      BY <1>9, <3>1, FieldIs
  <2>2. ASSUME NEW n \in 0 .. e - 1, n \in S
        PROVE  n + 1 \in S
    <3>1. \A i \in 0 .. n : i <= e => f[i] \in Field
      BY <2>2
    <3>2. n + 1 \in 1 .. e /\ (n + 1) \div 2 \in 0 .. n /\ (n + 1) \div 2 <= e /\ n + 1 \in Nat
      BY <2>2
    <3>3. f[(n + 1) \div 2] \in Field
      BY <3>1, <3>2, Zenon
    <3>4. f[n + 1] \in Field
      <4> DEFINE u == f[(n + 1) \div 2]
      <4>1. f[n + 1] = modQ(modQ(u * u) * By(n + 1))
        BY <1>10, <3>2, Zenon
      <4> HIDE DEF u, step
      <4>2. u \in Field
        BY <3>3 DEF u
      <4> QED
        BY <1>2, <3>2, <4>1, <4>2
    <3>5. \A i \in 0 .. n + 1 : i \in 0 .. n \/ i = n + 1
      BY <3>2
    <3> QED
      BY <3>1, <3>2, <3>4, <3>5, Zenon
  <2>3. 0 .. e \subseteq S
    <3> HIDE DEF S
    <3> QED
      BY <2>1, <2>2, NumbersInductive
  <2>4. \A n \in 0 .. e : f[n] \in Field
    <3>1. \A n \in 0 .. e : n \in 0 .. n /\ n <= e
      OBVIOUS
    <3> QED
      BY <2>3, <3>1, Zenon
  <2>5. f = [n \in 0 .. e |-> f[n]]
    BY <1>6, Zenon
  <2> QED
    BY <2>4, <2>5, Zenon
<1> HIDE DEF Function
<1> DEFINE v == modQ(b)
<1>12. v \in Field
  BY FieldRemainders
<1>13. ASSUME NEW n \in 1 .. e
       PROVE  f[n] = Doubled(f, n, Products, v)
  <2> DEFINE u == f[n \div 2]
  <2>1. u \in Field
    BY <1>8, <1>11
  <2>2. f[n] = modQ(modQ(u * u) * By(n))
    BY <1>10, Zenon
  <2>3. Products[<<u, u>>] = modQ(u * u) /\ modQ(u * u) \in Field
    BY <2>1, ProductsAre
  <2>4. CASE n % 2 = 1
    <3>1. f[n] = modQ(modQ(u * u) * b)
      BY <2>2, <2>4, Zenon
    <3>2. modQ(modQ(u * u) * b) = modQ(modQ(u * u) * v)
      <4> HIDE DEF u
      <4>1. modQ(u * u) \in Int
        BY <2>3, FieldIs
      <4> QED
        BY <4>1, FieldRemainders
    <3>3. Products[<<Products[<<u, u>>], v>>] = modQ(modQ(u * u) * v)
      <4> HIDE DEF u, v
      <4> QED
        BY <1>12, <2>3, ProductsAre
    <3>4. Doubled(f, n, Products, v) = Products[<<Products[<<u, u>>], v>>]
      BY <2>4, Zenon DEF Doubled
    <3> QED
      BY <3>1, <3>2, <3>3, <3>4, Zenon
  <2>5. CASE n % 2 # 1
    <3>1. f[n] = modQ(modQ(u * u) * 1)
      BY <2>2, <2>5, Zenon
    <3>2. modQ(modQ(u * u) * 1) = modQ(u * u)
      <4> HIDE DEF u
      <4>0. \A x \in Int : x * 1 = x
        OBVIOUS
      <4>1. modQ(u * u) * 1 = modQ(u * u)
        BY <2>3, <4>0, FieldIs
      <4> QED
        BY <2>3, <4>1, FieldReduced
    <3>3. Doubled(f, n, Products, v) = Products[<<u, u>>]
      BY <2>5, Zenon DEF Doubled
    <3> QED
      BY <2>3, <3>1, <3>2, <3>3, Zenon
  <2> QED
    BY <2>4, <2>5
<1>14. \A n \in 0 .. e - 1 : f[n + 1] = Products[<<f[n], v>>]
  <2>1. PICK h : h = f
    OBVIOUS
  <2>2. PICK w \in Field : w = v
    BY <1>12
  <2>3. h \in [0 .. e -> Field] /\ Doubles(h, e, Products, 1, w)
    BY <1>9, <1>11, <1>13, <2>1, <2>2, Zenon DEF Doubles
  <2> HIDE DEF v, By, d, step
  <2>4. Adds(h, e, Products, w)
    BY <2>3, ProductsCommute, DoublingAdds
  <2> QED
    BY <2>1, <2>2, <2>4, Zenon DEF Adds
<1>15. \A n \in 0 .. e - 1 : f[n + 1] = modQ(f[n] * b)
  <2> SUFFICES ASSUME NEW n \in 0 .. e - 1
               PROVE  f[n + 1] = modQ(f[n] * b)
    OBVIOUS
  <2>1. f[n] \in Field
    <3>1. n \in 0 .. e
      OBVIOUS
    <3> QED
      BY <1>11, <3>1
  <2>2. Products[<<f[n], v>>] = modQ(f[n] * v)
    <3> HIDE DEF v
    <3> QED
      BY <1>12, <2>1, ProductsAre
  <2>3. modQ(f[n] * v) = modQ(f[n] * b)
    <3>1. f[n] \in Int
      BY <2>1, FieldIs
    <3> QED
      BY <3>1, FieldRemainders
  <2> QED
    BY <1>14, <2>2, <2>3, Zenon
<1> QED
  BY <1>7, <1>9, <1>11, <1>15, Zenon DEF Powers

\* Square and multiply is multiplying by the base over and over.
LEMMA ExpStep ==
    ASSUME NEW b \in Int, NEW e \in Nat
    PROVE  Exp(b, 0) = 1 /\ Exp(b, e) \in Field /\ Exp(b, e + 1) = modQ(Exp(b, e) * b)
<1>1. Exp(b, 0) = 1
  <2>1. 0 \in Nat
    OBVIOUS
  <2>2. \E f : f[0] = 1 /\ Exp(b, 0) = f[0]
    BY <2>1, ExpIs, Zenon DEF Powers
  <2> QED
    BY <2>2, Zenon
<1>2. PICK f \in [0 .. e -> Field] : Powers(f, b, e) /\ Exp(b, e) = f[e]
  BY ExpIs
<1>3. PICK g \in [0 .. e + 1 -> Field] : Powers(g, b, e + 1) /\ Exp(b, e + 1) = g[e + 1]
  <2>1. e + 1 \in Nat
    OBVIOUS
  <2> QED
    BY <2>1, ExpIs, Zenon
<1> DEFINE S == {n \in 0 .. e : f[n] = g[n]}
<1>4. 0 \in S
  <2>1. 0 \in 0 .. e
    OBVIOUS
  <2> QED
    BY <1>2, <1>3, <2>1, Zenon DEF Powers
<1>5. ASSUME NEW n \in 0 .. e - 1, n \in S
      PROVE  n + 1 \in S
  <2>1. n + 1 \in 0 .. e /\ n \in 0 .. (e + 1) - 1
    OBVIOUS
  <2>2. f[n + 1] = modQ(f[n] * b) /\ g[n + 1] = modQ(g[n] * b) /\ f[n] = g[n]
    BY <1>2, <1>3, <1>5, <2>1, Zenon DEF Powers
  <2> QED
    BY <2>1, <2>2, Zenon
<1>6. e \in S
  <2> HIDE DEF S
  <2>1. e \in 0 .. e
    OBVIOUS
  <2> QED
    BY <1>4, <1>5, <2>1, NumbersInductive
<1>7. g[e + 1] = modQ(g[e] * b)
  <2>1. e \in 0 .. (e + 1) - 1
    OBVIOUS
  <2> QED
    BY <1>3, <2>1, Zenon DEF Powers
<1>8. Exp(b, e) \in Field
  BY <1>2
<1> QED
  BY <1>1, <1>2, <1>3, <1>6, <1>7, <1>8, Zenon

\* The laws of powers.
LEMMA ExpOfSum ==
    ASSUME NEW b \in Int, NEW m \in Nat, NEW k \in Nat
    PROVE  Exp(b, m + k) = modQ(Exp(b, m) * Exp(b, k))
<1> DEFINE S == {n \in Nat : Exp(b, m + n) = modQ(Exp(b, m) * Exp(b, n))}
<1>1. 0 \in S
  <2>1. Exp(b, 0) = 1 /\ Exp(b, m) \in Field /\ m + 0 = m
    BY ExpStep
  <2>2. Exp(b, m) * 1 = Exp(b, m)
    <3>1. \A x \in Int : x * 1 = x
      OBVIOUS
    <3> QED
      BY <2>1, <3>1, FieldIs
  <2>3. modQ(Exp(b, m)) = Exp(b, m)
    BY <2>1, FieldReduced
  <2> QED
    BY <2>1, <2>2, <2>3
<1>2. ASSUME NEW n \in Nat, n \in S
      PROVE  n + 1 \in S
  <2> DEFINE u == Exp(b, m)
             v == Exp(b, n)
  <2>0. Exp(b, m + n) = modQ(u * v)
    BY <1>2
  <2>1. u \in Int /\ v \in Int
    BY ExpStep, FieldIs
  <2>2. Exp(b, m + (n + 1)) = modQ(modQ(u * v) * b)
    <3>1. m + (n + 1) = (m + n) + 1 /\ m + n \in Nat
      OBVIOUS
    <3>2. Exp(b, (m + n) + 1) = modQ(Exp(b, m + n) * b)
      BY <3>1, ExpStep
    <3> QED
      BY <2>0, <3>1, <3>2, Zenon
  <2>3. Exp(b, n + 1) = modQ(v * b)
    BY ExpStep
  <2> HIDE DEF u, v
  <2>4. modQ(modQ(u * v) * b) = modQ((u * v) * b)
    <3>1. u * v \in Int
      BY <2>1
    <3> QED
      BY <3>1, FieldRemainders
  <2>5. modQ(u * modQ(v * b)) = modQ(u * (v * b))
    <3>1. v * b \in Int
      BY <2>1
    <3> QED
      BY <2>1, <3>1, FieldRemainders
  <2>6. (u * v) * b = u * (v * b)
    BY <2>1
  <2>7. Exp(b, m + (n + 1)) = modQ(u * Exp(b, n + 1))
    BY <2>2, <2>3, <2>4, <2>5, <2>6, Zenon
  <2> QED
    BY <2>7 DEF u
<1>3. 0 .. k \subseteq S
  <2> HIDE DEF S
  <2>1. \A n \in 0 .. k - 1 : n \in Nat
    OBVIOUS
  <2> QED
    BY <1>1, <1>2, <2>1, NumbersInductive
<1> QED
  <2>1. k \in 0 .. k
    OBVIOUS
  <2> QED
    BY <1>3, <2>1, Zenon

LEMMA ExpOfProduct ==
    ASSUME NEW x \in Int, NEW y \in Int, NEW k \in Nat
    PROVE  Exp(modQ(x * y), k) = modQ(Exp(x, k) * Exp(y, k))
<1> DEFINE b == modQ(x * y)
           S == {n \in Nat : Exp(b, n) = modQ(Exp(x, n) * Exp(y, n))}
<1>0. b \in Int
  <2>1. x * y \in Int
    OBVIOUS
  <2> QED
    BY <2>1, FieldRemainders
<1>1. 0 \in S
  <2>1. Exp(b, 0) = 1 /\ Exp(x, 0) = 1 /\ Exp(y, 0) = 1
    <3> HIDE DEF b
    <3> QED
      BY <1>0, ExpStep
  <2>2. modQ(1 * 1) = 1
    BY FieldIs, FieldReduced
  <2> QED
    BY <2>1, <2>2, Zenon
<1>2. ASSUME NEW n \in Nat, n \in S
      PROVE  n + 1 \in S
  <2> DEFINE u == Exp(x, n)
             v == Exp(y, n)
  <2>0. Exp(b, n) = modQ(u * v)
    BY <1>2
  <2>1. u \in Int /\ v \in Int
    BY ExpStep, FieldIs
  <2>2. Exp(b, n + 1) = modQ(Exp(b, n) * b)
    <3> HIDE DEF b
    <3> QED
      BY <1>0, ExpStep
  <2>3. Exp(x, n + 1) = modQ(u * x) /\ Exp(y, n + 1) = modQ(v * y)
    BY ExpStep
  <2> HIDE DEF u, v
  <2>4. u * v \in Int /\ x * y \in Int /\ u * x \in Int /\ v * y \in Int
    BY <2>1
  <2>5. modQ(modQ(u * v) * modQ(x * y)) = modQ((u * v) * (x * y))
    BY <2>4, ReducedFactors
  <2>6. modQ(modQ(u * x) * modQ(v * y)) = modQ((u * x) * (v * y))
    BY <2>4, ReducedFactors
  <2>7. (u * v) * (x * y) = (u * x) * (v * y)
    BY <2>1
  <2>8. Exp(b, n + 1) = modQ(Exp(x, n + 1) * Exp(y, n + 1))
    BY <2>0, <2>2, <2>3, <2>5, <2>6, <2>7, Zenon
  <2>9. n + 1 \in Nat
    OBVIOUS
  <2> QED
    BY <2>8, <2>9, Zenon
<1>3. 0 .. k \subseteq S
  <2> HIDE DEF S
  <2>1. \A n \in 0 .. k - 1 : n \in Nat
    OBVIOUS
  <2> QED
    BY <1>1, <1>2, <2>1, NumbersInductive
<1> QED
  <2>1. k \in 0 .. k
    OBVIOUS
  <2> QED
    BY <1>3, <2>1, Zenon

\* The group of points, from CurveAssumption.
LEMMA GroupIs ==
    /\ GroupOrder \in Nat \ {0}
    /\ Infinity \in Points /\ Generator \in Points \ {Infinity}
    /\ \A p, q \in Points : AddPoints(p, q) \in Points /\ AddPoints(p, q) = AddPoints(q, p)
    /\ \A p, q, r \in Points : AddPoints(AddPoints(p, q), r) = AddPoints(p, AddPoints(q, r))
    /\ \A p \in Points : AddPoints(Mul(GroupOrder - 1, p), p) = Infinity
    /\ \A p \in Points \ {Infinity} : \A n \in 1 .. GroupOrder - 1 : Mul(n, p) # Infinity
    /\ \A p \in Points : AddPoints(Infinity, p) = p /\ AddPoints(p, Infinity) = p
<1>1. Infinity \in Points
  BY Zenon DEF Points
<1>2. \A p \in Points : AddPoints(Infinity, p) = p
  BY Zenon DEF AddPoints
<1>3. \A p, q \in Points : AddPoints(p, q) = AddPoints(q, p)
  BY CurveAssumption, Zenon DEF GroupAssumption
<1>4. \A p \in Points : AddPoints(p, Infinity) = p
  BY <1>1, <1>2, <1>3
<1> QED
  BY <1>1, <1>2, <1>4, CurveAssumption, Zenon DEF GroupAssumption

\* Its sum, as a function.
Sums == [t \in Points \X Points |-> AddPoints(t[1], t[2])]

LEMMA SumsIs ==
    ASSUME NEW p \in Points, NEW q \in Points
    PROVE  Sums[<<p, q>>] = AddPoints(p, q) /\ Sums[<<p, q>>] \in Points
<1>1. <<p, q>> \in Points \X Points /\ <<p, q>>[1] = p /\ <<p, q>>[2] = q
  OBVIOUS
<1>2. Sums[<<p, q>>] = AddPoints(<<p, q>>[1], <<p, q>>[2])
  BY <1>1, Zenon DEF Sums
<1>3. AddPoints(p, q) \in Points
  BY GroupIs, Zenon
<1> QED
  BY <1>1, <1>2, <1>3

LEMMA SumsCommute == Commutes(Points, Sums, Infinity)
<1>1. ASSUME NEW p \in Points, NEW q \in Points
      PROVE  Sums[<<p, q>>] \in Points /\ Sums[<<p, q>>] = Sums[<<q, p>>]
  <2>1. AddPoints(p, q) = AddPoints(q, p)
    BY GroupIs, Zenon
  <2> QED
    BY <2>1, SumsIs
<1>2. ASSUME NEW p \in Points, NEW q \in Points, NEW r \in Points
      PROVE  Sums[<<Sums[<<p, q>>], r>>] = Sums[<<p, Sums[<<q, r>>]>>]
  <2>1. AddPoints(AddPoints(p, q), r) = AddPoints(p, AddPoints(q, r))
    BY GroupIs
  <2>2. Sums[<<p, q>>] = AddPoints(p, q) /\ AddPoints(p, q) \in Points
    BY SumsIs
  <2>3. Sums[<<q, r>>] = AddPoints(q, r) /\ AddPoints(q, r) \in Points
    BY SumsIs
  <2>4. Sums[<<AddPoints(p, q), r>>] = AddPoints(AddPoints(p, q), r)
    BY <2>2, SumsIs
  <2>5. Sums[<<p, AddPoints(q, r)>>] = AddPoints(p, AddPoints(q, r))
    BY <2>3, SumsIs
  <2> QED
    BY <2>1, <2>2, <2>3, <2>4, <2>5
<1>3. ASSUME NEW p \in Points
      PROVE  Sums[<<Infinity, p>>] = p
  <2>1. AddPoints(Infinity, p) = p /\ Infinity \in Points
    BY GroupIs, Zenon
  <2> QED
    BY <2>1, SumsIs
<1> QED
  BY <1>1, <1>2, <1>3, GroupIs, Zenon DEF Commutes

\* The recursive function of Multiples.
LEMMA MultiplesAre ==
    ASSUME NEW p \in Points
    PROVE  \E f \in [0 .. GroupOrder - 1 -> Points] :
              /\ f[0] = Infinity
              /\ \A n \in 0 .. (GroupOrder - 1) - 1 : f[n + 1] = AddPoints(f[n], p)
              /\ \A n \in 0 .. GroupOrder - 1 : Multiples[p][n] = f[n]
<1> DEFINE Function(f) == f = [n \in 0 .. GroupOrder - 1 |->
                                  IF n = 0 THEN Infinity
                                  ELSE LET half == f[n \div 2]
                                           twice == AddPoints(half, half)
                                       IN IF n % 2 = 1 THEN AddPoints(twice, p) ELSE twice]
           Twice(u, n) == IF n % 2 = 1 THEN AddPoints(AddPoints(u, u), p) ELSE AddPoints(u, u)
<1> DEFINE m == GroupOrder - 1
<1>0. m \in Nat
  BY GroupIs
<1> DEFINE d == [n \in 1 .. m |-> n \div 2]
           step == [t \in (1 .. m) \X Points |-> Twice(t[2], t[1])]
<1>1. \A n \in 1 .. m : d[n] = n \div 2 /\ n \div 2 \in 0 .. n - 1
  <2> HIDE DEF m
  <2> QED
    BY <1>0
<1>2. ASSUME NEW n \in 1 .. m, NEW u \in Points
      PROVE  step[<<n, u>>] = Twice(u, n) /\ Twice(u, n) \in Points
  <2>1. <<n, u>> \in (1 .. m) \X Points /\ <<n, u>>[1] = n /\ <<n, u>>[2] = u
    OBVIOUS
  <2>2. step[<<n, u>>] = Twice(<<n, u>>[2], <<n, u>>[1])
    BY <2>1, Zenon
  <2>3. AddPoints(u, u) \in Points /\ AddPoints(AddPoints(u, u), p) \in Points
    BY GroupIs, Zenon
  <2>4. Twice(u, n) \in Points
    BY <2>3, Zenon
  <2> HIDE DEF Twice, step
  <2> QED
    BY <2>1, <2>2, <2>4
<1>3. step \in [(1 .. m) \X Points -> Points]
  <2>1. \A t \in (1 .. m) \X Points : step[t] \in Points
    <3> SUFFICES ASSUME NEW t \in (1 .. m) \X Points
                 PROVE  step[t] \in Points
      OBVIOUS
    <3> HIDE DEF step, Twice, m
    <3>1. PICK n \in 1 .. m, u \in Points : t = <<n, u>>
      OBVIOUS
    <3> QED
      BY <1>2, <3>1, Zenon
  <2>2. step = [t \in (1 .. m) \X Points |-> step[t]]
    BY Zenon
  <2> HIDE DEF step
  <2> QED
    BY <2>1, <2>2
<1>4. PICK some \in [0 .. m -> Points] : Recurs(some, m, Infinity, d, step)
  <2> HIDE DEF d, step, m
  <2>1. \A n \in 1 .. m : d[n] \in 0 .. n - 1
    BY <1>1
  <2>2. Infinity \in Points
    BY GroupIs, Zenon
  <2> QED
    BY <1>0, <1>3, <2>1, <2>2, RecursionEnds
<1> DEFINE g == [n \in 0 .. m |-> some[n]]
<1>4a. \A n \in 0 .. m : n # 0 => n \div 2 \in 0 .. m /\ n \in 1 .. m
  <2> HIDE DEF m
  <2> QED
    BY <1>0
<1>5. Function(g)
  <2>2. ASSUME NEW n \in 0 .. m
        PROVE  g[n] = IF n = 0 THEN Infinity
                      ELSE LET half == g[n \div 2]
                               twice == AddPoints(half, half)
                           IN IF n % 2 = 1 THEN AddPoints(twice, p) ELSE twice
    <3>1. CASE n = 0
      BY <1>4, <3>1, Zenon DEF Recurs
    <3>2. CASE n # 0
      <4>1. g[n] = some[n] /\ g[n \div 2] = some[n \div 2] /\ n \in 1 .. m
        BY <1>4a, <3>2, Zenon
      <4> HIDE DEF step, g, d, m
      <4>2. some[n] = step[<<n, some[n \div 2]>>]
        BY <1>1, <1>4, <4>1, Zenon DEF Recurs
      <4>3. some[n \div 2] \in Points
        BY <1>4a, <3>2
      <4>4. some[n] = Twice(g[n \div 2], n)
        BY <1>2, <4>1, <4>2, <4>3, Zenon
      <4> QED
        BY <3>2, <4>1, <4>4, Zenon
    <3> QED
      BY <3>1, <3>2
  <2> HIDE DEF d, step
  <2> QED
    BY <2>2, Zenon
<1> DEFINE f == CHOOSE h : Function(h)
<1>6. Function(f)
  <2> HIDE DEF Function, g
  <2> QED
    BY <1>5, Zenon
<1>7. Multiples[p] = [n \in 0 .. GroupOrder - 1 |-> f[n]]
  BY Zenon DEF Multiples
<1>8. \A n \in 0 .. m : Multiples[p][n] = f[n]
  <2> HIDE DEF f
  <2> QED
    BY <1>7, Zenon
<1> HIDE DEF g, f
<1>9. f[0] = Infinity
  <2>1. 0 \in 0 .. m
    BY <1>0
  <2> QED
    BY <1>6, <2>1, Zenon
<1>10. \A n \in 1 .. m : f[n] = Twice(f[n \div 2], n)
  <2>1. \A n \in 1 .. m : n \in 0 .. m /\ n # 0
    BY <1>0
  <2> QED
    BY <1>6, <2>1, Zenon
<1>11. f \in [0 .. m -> Points]
  <2> DEFINE S == {n \in Nat : \A i \in 0 .. n : i <= m => f[i] \in Points}
  <2>1. 0 \in S
    <3>1. \A i \in 0 .. 0 : i = 0
      OBVIOUS
    <3>2. Infinity \in Points /\ 0 \in Nat
      BY GroupIs, Zenon
    <3> QED
      BY <1>9, <3>1, <3>2, Zenon
  <2>2. ASSUME NEW n \in 0 .. m - 1, n \in S
        PROVE  n + 1 \in S
    <3>1. \A i \in 0 .. n : i <= m => f[i] \in Points
      BY <2>2
    <3>2. n + 1 \in 1 .. m /\ (n + 1) \div 2 \in 0 .. n /\ (n + 1) \div 2 <= m /\ n + 1 \in Nat
      <4> HIDE DEF m
      <4> QED
        BY <1>0, <2>2
    <3>3. f[(n + 1) \div 2] \in Points
      BY <3>1, <3>2, Zenon
    <3>4. f[n + 1] \in Points
      <4>1. f[n + 1] = Twice(f[(n + 1) \div 2], n + 1)
        BY <1>10, <3>2, Zenon
      <4> HIDE DEF step, Twice
      <4> QED
        BY <1>2, <3>2, <3>3, <4>1, Zenon
    <3>5. \A i \in 0 .. n + 1 : i \in 0 .. n \/ i = n + 1
      BY <3>2
    <3> QED
      BY <3>1, <3>2, <3>4, <3>5, Zenon
  <2>3. 0 .. m \subseteq S
    <3> HIDE DEF S, m
    <3> QED
      BY <1>0, <2>1, <2>2, NumbersInductive
  <2>4. \A n \in 0 .. m : f[n] \in Points
    <3>1. \A n \in 0 .. m : n \in 0 .. n /\ n <= m
      BY <1>0
    <3> QED
      BY <2>3, <3>1, Zenon
  <2>5. f = [n \in 0 .. m |-> f[n]]
    BY <1>6, Zenon
  <2> QED
    BY <2>4, <2>5, Zenon
<1> HIDE DEF Function
<1>13. ASSUME NEW n \in 1 .. m
       PROVE  f[n] = Doubled(f, n, Sums, p)
  <2> DEFINE u == f[n \div 2]
  <2>1. u \in Points
    <3>1. n \in 0 .. m /\ n # 0
      BY <1>0
    <3> HIDE DEF m
    <3> QED
      BY <1>4a, <1>11, <3>1
  <2>2. f[n] = Twice(u, n)
    BY <1>10, Zenon
  <2>3. Sums[<<u, u>>] = AddPoints(u, u) /\ AddPoints(u, u) \in Points
    BY <2>1, SumsIs
  <2>4. Sums[<<AddPoints(u, u), p>>] = AddPoints(AddPoints(u, u), p)
    <3> HIDE DEF u
    <3> QED
      BY <2>3, SumsIs
  <2> QED
    BY <2>2, <2>3, <2>4, Zenon DEF Doubled
<1>14. Adds(f, m, Sums, p)
  <2>1. PICK h : h = f
    OBVIOUS
  <2>2. h \in [0 .. m -> Points] /\ Doubles(h, m, Sums, Infinity, p)
    BY <1>9, <1>11, <1>13, <2>1, Zenon DEF Doubles
  <2> HIDE DEF m, d, step, Twice
  <2>3. Adds(h, m, Sums, p)
    BY <1>0, <2>2, SumsCommute, DoublingAdds
  <2> QED
    BY <2>1, <2>3, Zenon
<1>15. ASSUME NEW n \in 0 .. m - 1
       PROVE  f[n + 1] = AddPoints(f[n], p)
  <2>1. n \in 0 .. m
    BY <1>0
  <2>2. f[n] \in Points
    <3> HIDE DEF m
    <3> QED
      BY <1>11, <2>1
  <2>3. Sums[<<f[n], p>>] = AddPoints(f[n], p)
    BY <2>2, SumsIs
  <2> QED
    BY <1>14, <2>3, Zenon DEF Adds
<1> HIDE DEF f
<1> QED
  BY <1>8, <1>9, <1>11, <1>15, Zenon

\* Scalars count modulo the order of the group.
LEMMA ScalarRemainders ==
    ASSUME NEW x \in Int
    PROVE  modG(x) \in 0 .. GroupOrder - 1 /\ modG(x) \in Nat /\ modG(modG(x)) = modG(x)
<1>1. GroupOrder \in Nat \ {0}
  BY GroupIs
<1>2. modG(x) \in 0 .. GroupOrder - 1
  BY <1>1, Remainder DEF modG
<1>3. modG(modG(x)) = modG(x)
  BY <1>1, <1>2, Reduced DEF modG
<1> QED
  BY <1>2, <1>3

LEMMA MulReduces ==
    ASSUME NEW p, NEW s \in Int, NEW t \in Int, modG(s) = modG(t)
    PROVE  Mul(s, p) = Mul(t, p)
BY Zenon DEF Mul, modG

\* Double and add is adding the point over and over.
LEMMA MulStep ==
    ASSUME NEW p \in Points, NEW n \in Nat
    PROVE  Mul(0, p) = Infinity /\ Mul(n, p) \in Points /\ Mul(n + 1, p) = AddPoints(Mul(n, p), p)
<1>0. GroupOrder \in Nat \ {0} /\ 0 \in 0 .. GroupOrder - 1
  BY GroupIs
<1>1. PICK f \in [0 .. GroupOrder - 1 -> Points] :
          /\ f[0] = Infinity
          /\ \A k \in 0 .. (GroupOrder - 1) - 1 : f[k + 1] = AddPoints(f[k], p)
          /\ \A k \in 0 .. GroupOrder - 1 : Multiples[p][k] = f[k]
  BY MultiplesAre
<1>2. \A s \in Int : Mul(s, p) = f[s % GroupOrder] /\ s % GroupOrder \in 0 .. GroupOrder - 1
  <2>1. \A s \in Int : s % GroupOrder \in 0 .. GroupOrder - 1
    BY <1>0, Remainder
  <2> QED
    BY <1>1, <2>1, Zenon DEF Mul
<1>3. 0 % GroupOrder = 0
  BY <1>0, Reduced
<1>4. Mul(0, p) = Infinity
  <2>1. 0 \in Int
    OBVIOUS
  <2> QED
    BY <1>1, <1>2, <1>3, <2>1, Zenon
<1> DEFINE r == n % GroupOrder
<1>5. n \in Int /\ n + 1 \in Int /\ r \in 0 .. GroupOrder - 1
  BY <1>2
<1>6. Mul(n, p) \in Points
  <2>1. Mul(n, p) = f[r]
    BY <1>2, <1>5, Zenon
  <2> HIDE DEF r
  <2> QED
    BY <1>5, <2>1
<1>7. (n + 1) % GroupOrder = (r + 1) % GroupOrder
  <2>1. \A y \in Int : ((n % GroupOrder) + y) % GroupOrder = (n + y) % GroupOrder
    BY <1>0, <1>5, Remainders
  <2>2. 1 \in Int
    OBVIOUS
  <2> QED
    BY <2>1, <2>2, Zenon
<1>8. Mul(n + 1, p) = AddPoints(Mul(n, p), p)
  <2>1. CASE r + 1 \in 0 .. GroupOrder - 1
    <3> HIDE DEF r
    <3>1. (r + 1) % GroupOrder = r + 1
      BY <1>0, <2>1, Reduced
    <3>2. r \in 0 .. (GroupOrder - 1) - 1
      BY <1>0, <1>5, <2>1
    <3>3. f[r + 1] = AddPoints(f[r], p)
      BY <1>1, <3>2, Zenon
    <3>4. Mul(n + 1, p) = f[r + 1]
      BY <1>2, <1>5, <1>7, <3>1, Zenon
    <3>5. Mul(n, p) = f[r]
      BY <1>2, <1>5, Zenon DEF r
    <3> QED
      BY <3>3, <3>4, <3>5, Zenon
  <2>2. CASE r + 1 \notin 0 .. GroupOrder - 1
    <3> HIDE DEF r
    <3>1. r = GroupOrder - 1 /\ r + 1 = GroupOrder
      BY <1>0, <1>5, <2>2
    <3>2. GroupOrder % GroupOrder = 0
      <4>1. GroupOrder = 1 * GroupOrder + 0 /\ 0 \in 0 .. GroupOrder - 1 /\ 1 \in Int /\ GroupOrder \in Int
        BY <1>0
      <4> QED
        BY <1>0, <4>1, QuotientIsOne
    <3>3. Mul(n + 1, p) = Infinity
      <4>1. Mul(n + 1, p) = f[0]
        BY <1>2, <1>5, <1>7, <3>1, <3>2, Zenon
      <4> QED
        BY <1>1, <4>1, Zenon
    <3>4. AddPoints(Mul(GroupOrder - 1, p), p) = Infinity
      BY GroupIs, Zenon
    <3>5. Mul(n, p) = Mul(GroupOrder - 1, p)
      <4>1. modG(n) = modG(GroupOrder - 1)
        <5>1. (GroupOrder - 1) % GroupOrder = r
          BY <1>0, <1>5, <3>1, Reduced
        <5> QED
          BY <5>1, Zenon DEF modG, r
      <4>2. GroupOrder - 1 \in Int
        BY <1>0
      <4> QED
        BY <1>5, <4>1, <4>2, MulReduces
    <3> QED
      BY <3>3, <3>4, <3>5, Zenon
  <2> QED
    BY <2>1, <2>2
<1> QED
  BY <1>4, <1>6, <1>8, Zenon

\* The laws of multiples.
LEMMA MulOfSum ==
    ASSUME NEW p \in Points, NEW m \in Nat, NEW k \in Nat
    PROVE  Mul(m + k, p) = AddPoints(Mul(m, p), Mul(k, p))
<1> DEFINE S == {n \in Nat : Mul(m + n, p) = AddPoints(Mul(m, p), Mul(n, p))}
<1>1. 0 \in S
  <2>1. Mul(0, p) = Infinity /\ Mul(m, p) \in Points /\ m + 0 = m /\ 0 \in Nat
    BY MulStep
  <2>2. AddPoints(Mul(m, p), Infinity) = Mul(m, p)
    BY <2>1, GroupIs, Zenon
  <2>3. Mul(m + 0, p) = AddPoints(Mul(m, p), Mul(0, p))
    BY <2>1, <2>2
  <2> QED
    BY <2>1, <2>3, Zenon
<1>2. ASSUME NEW n \in Nat, n \in S
      PROVE  n + 1 \in S
  <2>0. Mul(m + n, p) = AddPoints(Mul(m, p), Mul(n, p))
    BY <1>2, Zenon
  <2>1. m + (n + 1) = (m + n) + 1 /\ m + n \in Nat /\ n + 1 \in Nat
    OBVIOUS
  <2>2. Mul((m + n) + 1, p) = AddPoints(Mul(m + n, p), p)
    BY <2>1, MulStep
  <2>3. Mul(n + 1, p) = AddPoints(Mul(n, p), p) /\ Mul(n, p) \in Points /\ Mul(m, p) \in Points
    BY MulStep
  <2>4. AddPoints(AddPoints(Mul(m, p), Mul(n, p)), p) = AddPoints(Mul(m, p), AddPoints(Mul(n, p), p))
    BY <2>3, GroupIs
  <2>5. Mul(m + (n + 1), p) = AddPoints(Mul(m, p), Mul(n + 1, p))
    BY <2>0, <2>1, <2>2, <2>3, <2>4, Zenon
  <2> QED
    BY <2>1, <2>5, Zenon
<1>3. 0 .. k \subseteq S
  <2> HIDE DEF S
  <2>1. \A n \in 0 .. k - 1 : n \in Nat
    OBVIOUS
  <2> QED
    BY <1>1, <1>2, <2>1, NumbersInductive
<1> QED
  <2>1. k \in 0 .. k
    OBVIOUS
  <2> QED
    BY <1>3, <2>1, Zenon

LEMMA MulOfMul ==
    ASSUME NEW p \in Points, NEW m \in Nat, NEW k \in Nat
    PROVE  Mul(k, Mul(m, p)) = Mul(k * m, p)
<1> DEFINE S == {n \in Nat : Mul(n, Mul(m, p)) = Mul(n * m, p)}
<1>0. Mul(m, p) \in Points /\ Mul(0, p) = Infinity
  BY MulStep
<1>1. 0 \in S
  <2>1. Mul(0, Mul(m, p)) = Infinity
    BY <1>0, MulStep
  <2>2. 0 * m = 0 /\ 0 \in Nat
    OBVIOUS
  <2>3. Mul(0, Mul(m, p)) = Mul(0 * m, p)
    BY <1>0, <2>1, <2>2
  <2> QED
    BY <2>2, <2>3, Zenon
<1>2. ASSUME NEW n \in Nat, n \in S
      PROVE  n + 1 \in S
  <2>0. Mul(n, Mul(m, p)) = Mul(n * m, p)
    BY <1>2, Zenon
  <2>1. (n + 1) * m = n * m + m /\ n * m \in Nat /\ n + 1 \in Nat
    OBVIOUS
  <2>2. Mul(n + 1, Mul(m, p)) = AddPoints(Mul(n, Mul(m, p)), Mul(m, p))
    BY <1>0, MulStep
  <2>3. Mul(n * m + m, p) = AddPoints(Mul(n * m, p), Mul(m, p))
    BY <2>1, MulOfSum
  <2>4. Mul(n + 1, Mul(m, p)) = Mul((n + 1) * m, p)
    BY <2>0, <2>1, <2>2, <2>3, Zenon
  <2> QED
    BY <2>1, <2>4, Zenon
<1>3. 0 .. k \subseteq S
  <2> HIDE DEF S
  <2>1. \A n \in 0 .. k - 1 : n \in Nat
    OBVIOUS
  <2> QED
    BY <1>1, <1>2, <2>1, NumbersInductive
<1> QED
  <2>1. k \in 0 .. k
    OBVIOUS
  <2> QED
    BY <1>3, <2>1, Zenon

\* The field has no divisors of zero, so a square has at most two roots.
LEMMA Zeroes ==
    ASSUME NEW a \in Int, NEW b \in Int, modQ(a * b) = 0
    PROVE  modQ(a) = 0 \/ modQ(b) = 0
<1> SUFFICES ASSUME modQ(a) # 0, modQ(b) # 0
             PROVE  FALSE
  OBVIOUS
<1>1. modQ(a) \in 1 .. FieldSize - 1 /\ modQ(b) \in 1 .. FieldSize - 1
  <2>1. \A x \in Field : x # 0 => x \in 1 .. FieldSize - 1
    BY FieldIs DEF Field
  <2>2. modQ(a) \in Field /\ modQ(b) \in Field
    BY FieldRemainders
  <2> QED
    BY <2>1, <2>2, Zenon
<1>2. modQ(modQ(a) * modQ(b)) # 0
  BY <1>1, CurveAssumption, Zenon DEF FieldAssumption
<1>3. modQ(modQ(a) * modQ(b)) = modQ(a * modQ(b)) /\ modQ(a * modQ(b)) = modQ(a * b)
  <2>1. modQ(b) \in Int
    BY FieldRemainders
  <2> QED
    BY <2>1, FieldRemainders
<1> QED
  BY <1>2, <1>3

\* Two remainders are the same when their difference is none.
LEMMA NoDifference ==
    ASSUME NEW a \in Field, NEW b \in Field, modQ(a - b) = 0
    PROVE  a = b
<1>1. a \in Int /\ b \in Int /\ a - b \in Int
  BY FieldIs
<1>2. modQ(modQ(a - b) + b) = modQ((a - b) + b)
  BY <1>1, FieldRemainders
<1>3. (a - b) + b = a /\ 0 + b = b
  BY <1>1
<1> QED
  BY <1>2, <1>3, FieldReduced

LEMMA Roots ==
    ASSUME NEW a \in Field, NEW b \in Field, modQ(a * a) = modQ(b * b)
    PROVE  a = b \/ a = modQ(-b)
<1>1. a \in Int /\ b \in Int /\ a - b \in Int /\ a + b \in Int /\ a * a \in Int /\ b * b \in Int
  BY FieldIs
<1>2. modQ((a - b) * (a + b)) = 0
  <2>1. (a - b) * (a + b) = a * a - b * b
    BY <1>1
  <2>2. modQ(a * a - b * b) = modQ(modQ(a * a) - b * b)
    BY <1>1, FieldRemainders
  <2>3. modQ(modQ(b * b) - b * b) = modQ(b * b - b * b)
    BY <1>1, FieldRemainders
  <2>4. b * b - b * b = 0
    BY <1>1
  <2>5. modQ(0) = 0
    BY FieldIs, FieldReduced
  <2> QED
    BY <2>1, <2>2, <2>3, <2>4, <2>5
<1>3. CASE modQ(a - b) = 0
  BY <1>3, NoDifference
<1>4. CASE modQ(a + b) = 0
  <2>1. modQ(a - modQ(a + b)) = modQ(a - (a + b))
    BY <1>1, FieldRemainders
  <2>2. a - (a + b) = -b /\ a - 0 = a
    BY <1>1
  <2>3. modQ(a) = a
    BY FieldReduced
  <2> QED
    BY <1>4, <2>1, <2>2, <2>3
<1> QED
  BY <1>1, <1>2, <1>3, <1>4, Zeroes

\* The opposite of an element has the same square.
LEMMA Opposite ==
    ASSUME NEW b \in Field
    PROVE  /\ modQ(-b) \in Field /\ modQ(-modQ(-b)) = b
           /\ modQ(modQ(-b) * modQ(-b)) = modQ(b * b)
<1>1. b \in Int /\ -b \in Int
  BY FieldIs
<1>2. modQ(-b) \in Field /\ modQ(-b) \in Int
  BY <1>1, FieldRemainders
<1>3. modQ(0 - modQ(-b)) = modQ(0 - (-b)) /\ 0 - (-b) = b /\ 0 - modQ(-b) = -modQ(-b)
  <2>1. 0 \in Int
    OBVIOUS
  <2>2. modQ(0 - modQ(-b)) = modQ(0 - (-b))
    BY <1>1, <2>1, FieldRemainders
  <2> QED
    BY <1>1, <1>2, <2>2
<1>4. modQ(modQ(-b) * modQ(-b)) = modQ((-b) * modQ(-b)) /\ modQ((-b) * modQ(-b)) = modQ((-b) * (-b))
  BY <1>1, <1>2, FieldRemainders
<1>5. (-b) * (-b) = b * b
  BY <1>1
<1> QED
  BY <1>2, <1>3, <1>4, <1>5, FieldReduced

LEMMA PowersOfZero ==
    ASSUME NEW e \in Nat, e # 0
    PROVE  Exp(0, e) = 0
<1>1. e - 1 \in Nat /\ (e - 1) + 1 = e /\ 0 \in Int
  OBVIOUS
<1>2. Exp(0, (e - 1) + 1) = modQ(Exp(0, e - 1) * 0) /\ Exp(0, e - 1) \in Int
  BY <1>1, ExpStep, FieldIs
<1>3. Exp(0, e - 1) * 0 = 0
  <2>1. \A x \in Int : x * 0 = 0
    OBVIOUS
  <2> QED
    BY <1>2, <2>1
<1>4. modQ(0) = 0
  BY FieldIs, FieldReduced
<1> QED
  BY <1>1, <1>2, <1>3, <1>4

\* The exponents of maybeSqrtInField and IsSquare.
LEMMA SqrtPowerIs == SqrtPower \in Nat /\ (FieldSize - 1) \div 2 \in Nat
                     /\ (SqrtPower + SqrtPower) + (SqrtPower + SqrtPower) = FieldSize + 1
                     /\ SqrtPower + SqrtPower = (FieldSize - 1) \div 2 + 1
                     /\ (FieldSize - 1) \div 2 # 0
<1>1. FieldSize \in Nat /\ FieldSize > 7 /\ FieldSize % 4 = 3
  BY CurveAssumption DEF FieldAssumption
<1> QED
  BY <1>1 DEF SqrtPower

LEMMA RightHandSide == ASSUME NEW x \in Int
                       PROVE  rightHandSide(x) \in Field
<1>1. Exp(x, 3) + 7 \in Int
  <2>1. Exp(x, 3) \in Field
    BY ExpStep
  <2>2. \A u \in Field : u + 7 \in Int
    BY FieldIs
  <2> QED
    BY <2>1, <2>2, Zenon
<1> QED
  BY <1>1, FieldRemainders DEF rightHandSide

\* The root that the code takes is one.
LEMMA RootOfSquare ==
    ASSUME NEW y \in Field
    PROVE  LET s == Exp(modQ(y * y), SqrtPower) IN s \in Field /\ modQ(s * s) = modQ(y * y)
<1> DEFINE v == modQ(y * y)
           k == SqrtPower
           s == Exp(v, k)
<1>1. y \in Int /\ v \in Int /\ k \in Nat /\ k + k \in Nat
  <2>1. y \in Int /\ y * y \in Int
    BY FieldIs
  <2> QED
    BY <2>1, FieldRemainders, SqrtPowerIs
<1>2. s \in Field
  <2> HIDE DEF v, k
  <2> QED
    BY <1>1, ExpStep
<1>3. modQ(s * s) = Exp(v, k + k)
  <2> HIDE DEF v, k
  <2> QED
    BY <1>1, ExpOfSum
<1>4. Exp(v, k + k) = modQ(Exp(y, k + k) * Exp(y, k + k))
  <2> HIDE DEF k
  <2> QED
    BY <1>1, ExpOfProduct
<1>5. modQ(Exp(y, k + k) * Exp(y, k + k)) = Exp(y, FieldSize + 1)
  <2>1. Exp(y, (k + k) + (k + k)) = modQ(Exp(y, k + k) * Exp(y, k + k))
    <3> HIDE DEF k
    <3> QED
      BY <1>1, ExpOfSum
  <2> QED
    BY <2>1, SqrtPowerIs
<1>6. Exp(y, FieldSize + 1) = v
  <2>1. CASE y = 0
    <3>1. FieldSize + 1 \in Nat /\ FieldSize + 1 # 0
      BY FieldIs
    <3>2. 0 * 0 = 0 /\ modQ(0) = 0
      BY FieldIs, FieldReduced
    <3> QED
      BY <2>1, <3>1, <3>2, PowersOfZero
  <2>2. CASE y # 0
    <3>1. y \in 1 .. FieldSize - 1
      BY <2>2, FieldIs DEF Field
    <3>2. Exp(y, FieldSize - 1) = 1
      BY <3>1, CurveAssumption, Zenon DEF FieldAssumption
    <3>3. FieldSize - 1 \in Nat /\ (FieldSize - 1) + 1 = FieldSize /\ FieldSize \in Nat
      BY FieldIs
    <3>4. Exp(y, FieldSize) = modQ(1 * y)
      BY <1>1, <3>2, <3>3, ExpStep
    <3>5. 1 * y = y /\ modQ(y) = y
      BY <1>1, FieldReduced
    <3>6. Exp(y, FieldSize + 1) = modQ(Exp(y, FieldSize) * y)
      BY <1>1, <3>3, ExpStep
    <3> QED
      BY <3>4, <3>5, <3>6
  <2> QED
    BY <2>1, <2>2
<1> QED
  BY <1>2, <1>3, <1>4, <1>5, <1>6

\* A point is at infinity or on the curve.
LEMMA PointIs ==
    ASSUME NEW p \in Points
    PROVE  p[1] \in Field /\ p[2] \in Field /\ p = <<p[1], p[2]>> /\ p \in Seq(Int) /\ Len(p) = 2
           /\ (p # Infinity => modQ(p[2] * p[2]) = rightHandSide(p[1]))
<1>1. CASE p = Infinity
  BY <1>1, FieldIs DEF Infinity, Field
<1>2. CASE p # Infinity
  <2>1. p \in Field \X Field /\ modQ(p[2] * p[2]) = rightHandSide(p[1])
    BY <1>2, Zenon DEF Points, Field
  <2>2. \A x, y \in Field : x \in Int /\ y \in Int
    BY FieldIs
  <2>3. PICK x \in Field, y \in Field : p = <<x, y>>
    BY <2>1
  <2>4. <<x, y>> \in Seq(Int) /\ Len(<<x, y>>) = 2 /\ <<x, y>>[1] = x /\ <<x, y>>[2] = y
    BY <2>2
  <2> QED
    BY <2>1, <2>3, <2>4
<1> QED
  BY <1>1, <1>2

\* ValidPublicKey takes every point but the one at infinity, and SetCoordinates reads it back.
LEMMA PointsAreValid ==
    ASSUME NEW p \in Points, p # Infinity
    PROVE  ValidPublicKey(p) /\ LongUnmarshal(p[1], p[2]) = p
<1>1. p[1] \in Field /\ p[2] \in Field /\ p = <<p[1], p[2]>> /\ modQ(p[2] * p[2]) = rightHandSide(p[1])
  BY PointIs
<1> DEFINE s == Exp(rightHandSide(p[1]), SqrtPower)
           root == maybeSqrtInField(rightHandSide(p[1]))
<1>2. s \in Field /\ modQ(s * s) = rightHandSide(p[1])
  BY <1>1, RootOfSquare
<1>3. root = s
  BY <1>2, Zenon DEF maybeSqrtInField
<1>4. root # None
  BY <1>2, <1>3, FieldIs DEF None
<1>5. p[2] = s \/ p[2] = modQ(-s)
  <2> HIDE DEF s
  <2> QED
    BY <1>1, <1>2, Roots
<1>6. ValidPublicKey(p)
  BY <1>3, <1>4, <1>5, Zenon DEF ValidPublicKey
<1>7. modQ(p[1]) = p[1] /\ modQ(p[2]) = p[2]
  BY <1>1, FieldReduced
<1>8. LongUnmarshal(p[1], p[2]) = p
  BY <1>1, <1>6, <1>7, Zenon DEF LongUnmarshal
<1> QED
  BY <1>6, <1>8

LEMMA InfinityIsInvalid == ~ValidPublicKey(Infinity)
<1> SUFFICES ASSUME ValidPublicKey(Infinity)
             PROVE  FALSE
  OBVIOUS
<1> DEFINE v == rightHandSide(0)
           y == maybeSqrtInField(v)
<1>1. Infinity[1] = 0 /\ Infinity[2] = 0
  BY DEF Infinity
<1>2. y # None /\ 0 \in {y, modQ(-y)}
  BY <1>1, Zenon DEF ValidPublicKey
<1>3. v \in Field /\ v = 7
  <2>1. Exp(0, 3) = 0
    BY PowersOfZero
  <2>2. 0 + 7 = 7 /\ 7 \in Field
    BY FieldIs DEF Field
  <2> QED
    BY <2>1, <2>2, FieldReduced DEF rightHandSide
<1> HIDE DEF v
<1>4. y = Exp(v, SqrtPower) /\ modQ(y * y) = v
  BY <1>2, Zenon DEF maybeSqrtInField
<1>5. y \in Field
  BY <1>3, <1>4, ExpStep, FieldIs, SqrtPowerIs
<1> HIDE DEF y
<1>6. y = 0
  <2>1. CASE modQ(-y) = 0
    <3>1. modQ(-modQ(-y)) = y
      BY <1>5, Opposite
    <3>2. \A x \in Int : -x = 0 - x
      OBVIOUS
    <3>5. 0 - 0 = 0
      OBVIOUS
    <3>3. modQ(0) = 0
      BY FieldIs, FieldReduced
    <3>4. modQ(-y) \in Int
      BY <2>1
    <3> QED
      BY <2>1, <3>1, <3>2, <3>3, <3>4, <3>5, Zenon
  <2> QED
    BY <1>2, <2>1
<1>7. 0 * 0 = 0 /\ modQ(0) = 0
  BY FieldIs, FieldReduced
<1> QED
  BY <1>3, <1>4, <1>6, <1>7

\* What is the same over the field.
Same(a, b) == modQ(a) = modQ(b)

LEMMA SameOps ==
    ASSUME NEW a \in Int, NEW b \in Int, NEW u \in Int, NEW v \in Int, Same(a, b), Same(u, v)
    PROVE  Same(a * u, b * v) /\ Same(a + u, b + v) /\ Same(a - u, b - v)
<1>0. modQ(a) = modQ(b) /\ modQ(u) = modQ(v) /\ modQ(a) \in Int /\ modQ(u) \in Int
  BY FieldRemainders DEF Same
<1>1. modQ(modQ(a) * u) = modQ(a * u) /\ modQ(modQ(b) * v) = modQ(b * v)
  BY FieldRemainders
<1>2. modQ(modQ(a) * modQ(u)) = modQ(modQ(a) * u) /\ modQ(modQ(b) * modQ(v)) = modQ(modQ(b) * v)
  BY <1>0, FieldRemainders
<1>3. Same(a * u, b * v)
  BY <1>0, <1>1, <1>2 DEF Same
<1>4. modQ(modQ(a) - u) = modQ(a - u) /\ modQ(modQ(b) - v) = modQ(b - v)
  BY FieldRemainders
<1>5. modQ(modQ(a) - modQ(u)) = modQ(modQ(a) - u) /\ modQ(modQ(b) - modQ(v)) = modQ(modQ(b) - v)
  BY <1>0, FieldRemainders
<1>6. Same(a - u, b - v)
  BY <1>0, <1>4, <1>5 DEF Same
<1>7. modQ(modQ(a) + u) = modQ(a + u) /\ modQ(modQ(b) + v) = modQ(b + v)
  BY FieldRemainders
<1>8. modQ(modQ(u) + modQ(a)) = modQ(u + modQ(a)) /\ modQ(modQ(v) + modQ(b)) = modQ(v + modQ(b))
  BY <1>0, FieldRemainders
<1>9. modQ(u) + modQ(a) = modQ(a) + modQ(u) /\ u + modQ(a) = modQ(a) + u /\ v + modQ(b) = modQ(b) + v
  BY <1>0
<1>10. Same(a + u, b + v)
  BY <1>0, <1>7, <1>8, <1>9 DEF Same
<1> QED
  BY <1>3, <1>6, <1>10

LEMMA SameAsReduced ==
    ASSUME NEW a \in Int
    PROVE  Same(modQ(a), a) /\ Same(a, a) /\ modQ(a) \in Int
BY FieldRemainders DEF Same

\* Fermat's theorem makes ModInverse the inverse.
LEMMA InverseIs ==
    ASSUME NEW a \in Int, modQ(a) # 0
    PROVE  ModInverse(a) \in Field /\ ModInverse(a) \in Int /\ modQ(a * ModInverse(a)) = 1
<1> DEFINE b == modQ(a)
           z == ModInverse(a)
<1>1. b \in Field /\ b \in Int
  BY FieldRemainders
<1>2. b \in 1 .. FieldSize - 1
  <2>1. \A x \in Field : x # 0 => x \in 1 .. FieldSize - 1
    BY FieldIs DEF Field
  <2> QED
    BY <1>1, <2>1, Zenon
<1>3. Exp(b, FieldSize - 1) = 1
  BY <1>2, CurveAssumption, Zenon DEF FieldAssumption
<1>4. FieldSize - 2 \in Nat /\ (FieldSize - 2) + 1 = FieldSize - 1
  BY FieldIs
<1>5. z = Exp(b, FieldSize - 2)
  BY Zenon DEF ModInverse
<1>6. Exp(b, (FieldSize - 2) + 1) = modQ(Exp(b, FieldSize - 2) * b) /\ Exp(b, FieldSize - 2) \in Field
  <2> HIDE DEF b
  <2> QED
    BY <1>1, <1>4, ExpStep
<1>7. z \in Field /\ z \in Int
  BY <1>5, <1>6, FieldIs
<1>8. modQ(z * b) = 1
  BY <1>3, <1>4, <1>5, <1>6, Zenon
<1> HIDE DEF z
<1>9. modQ(z * b) = modQ(z * a) /\ z * a = a * z
  BY <1>7, FieldRemainders
<1> QED
  BY <1>7, <1>8, <1>9 DEF z

\* What a common denominator is divided out of.
LEMMA Divides ==
    ASSUME NEW a \in Field, NEW b \in Int, NEW d \in Int, NEW z \in Int,
           Same(a * d, b), modQ(d * z) = 1
    PROVE  modQ(b * z) = a
<1>1. a \in Int /\ a * d \in Int /\ d * z \in Int /\ 1 \in Int
  BY FieldIs
<1>2. modQ(1) = 1 /\ modQ(a) = a
  BY FieldIs, FieldReduced
<1>3. Same(z, z) /\ Same(a, a)
  BY DEF Same
<1>4. Same((a * d) * z, b * z)
  BY <1>1, <1>3, SameOps
<1>5. Same(d * z, 1)
  BY <1>2 DEF Same
<1>6. Same(a * (d * z), a * 1)
  BY <1>1, <1>3, <1>5, SameOps
<1>7. (a * d) * z = a * (d * z) /\ a * 1 = a
  BY <1>1
<1> QED
  BY <1>2, <1>4, <1>6, <1>7 DEF Same

\* The chord of two points: s is its slope, n and d what it is the quotient of.
LEMMA Chord ==
    ASSUME NEW n \in Int, NEW d \in Int, NEW s \in Int, NEW x1 \in Int, NEW x2 \in Int, NEW y1 \in Int,
           NEW x \in Int, NEW y \in Int,
           Same(s * d, n), Same(x, s * s - x1 - x2), Same(y, s * (x1 - x) - y1)
    PROVE  LET X == n * n - x1 * (d * d) - x2 * (d * d) IN
           /\ Same(x * (d * d), X)
           /\ Same(y * ((d * d) * d), (((d * d) * x1 - X) * n) - y1 * ((d * d) * d))
<1> DEFINE D == d * d
           E == D * d
           X == n * n - x1 * D - x2 * D
           w == s * d
<1>0. D \in Int /\ E \in Int /\ X \in Int /\ w \in Int /\ w * w \in Int /\ n * n \in Int /\ x1 * D \in Int /\ x2 * D \in Int
      /\ x * D \in Int
  OBVIOUS
<1>1. Same(w * w, n * n)
  <2> HIDE DEF w
  <2> QED
    BY <1>0, SameOps DEF w
<1>2. Same(x * D, X)
  <2>1. Same(x * D, (s * s - x1 - x2) * D)
    <3>1. s * s - x1 - x2 \in Int /\ Same(D, D)
      BY DEF Same
    <3> HIDE DEF D
    <3> QED
      BY <1>0, <3>1, SameOps
  <2>2. (s * s - x1 - x2) * D = w * w - x1 * D - x2 * D
    OBVIOUS
  <2>3. Same(w * w - x1 * D - x2 * D, X)
    <3>1. Same(x1 * D, x1 * D) /\ Same(x2 * D, x2 * D)
      BY DEF Same
    <3>2. Same(w * w - x1 * D, n * n - x1 * D)
      <4> HIDE DEF w, D
      <4> QED
        BY <1>0, <1>1, <3>1, SameOps
    <3>3. w * w - x1 * D \in Int /\ n * n - x1 * D \in Int
      BY <1>0
    <3> HIDE DEF w, D
    <3> QED
      BY <1>0, <3>1, <3>2, <3>3, SameOps
  <2> QED
    BY <2>1, <2>2, <2>3, Zenon DEF Same
<1>3. Same(y * E, ((D * x1 - X) * n) - y1 * E)
  <2>1. Same(y * E, (s * (x1 - x) - y1) * E)
    <3>1. s * (x1 - x) - y1 \in Int /\ Same(E, E)
      BY DEF Same
    <3> HIDE DEF E
    <3> QED
      BY <1>0, <3>1, SameOps
  <2>2. (s * (x1 - x) - y1) * E = (D * x1 - x * D) * w - y1 * E
    OBVIOUS
  <2>3. Same(D * x1 - x * D, D * x1 - X)
    <3>1. Same(D * x1, D * x1) /\ D * x1 \in Int
      BY <1>0 DEF Same
    <3> HIDE DEF D, X
    <3> QED
      BY <1>0, <1>2, <3>1, SameOps
  <2>4. Same((D * x1 - x * D) * w, (D * x1 - X) * n)
    <3>1. D * x1 - x * D \in Int /\ D * x1 - X \in Int
      BY <1>0
    <3> HIDE DEF D, X, w
    <3> QED
      BY <1>0, <2>3, <3>1, SameOps DEF w
  <2>5. Same((D * x1 - x * D) * w - y1 * E, (D * x1 - X) * n - y1 * E)
    <3>1. (D * x1 - x * D) * w \in Int /\ (D * x1 - X) * n \in Int /\ y1 * E \in Int /\ Same(y1 * E, y1 * E)
      BY <1>0 DEF Same
    <3> HIDE DEF D, X, w, E
    <3> QED
      BY <2>4, <3>1, SameOps
  <2> QED
    BY <2>1, <2>2, <2>5, Zenon DEF Same
<1> QED
  BY <1>2, <1>3

\* The fraction of a difference, and that of a product.
LEMMA Fractions ==
    ASSUME NEW a1 \in Int, NEW a2 \in Int, NEW b1 \in Int, NEW b2 \in Int
    PROVE  /\ projectiveSub(<<a1, a2>>, <<b1, b2>>) = <<modQ(b2 * a1 - a2 * b1), modQ(a2 * b2)>>
           /\ projectiveMul(<<a1, a2>>, <<b1, b2>>) = <<modQ(a1 * b1), modQ(a2 * b2)>>
           /\ modQ(b2 * a1 - a2 * b1) \in Int /\ modQ(a2 * b2) \in Int /\ modQ(a1 * b1) \in Int
<1>1. <<a1, a2>>[1] = a1 /\ <<a1, a2>>[2] = a2 /\ <<b1, b2>>[1] = b1 /\ <<b1, b2>>[2] = b2
  OBVIOUS
<1>2. projectiveSub(<<a1, a2>>, <<b1, b2>>) = <<modQ(b2 * a1 - a2 * b1), modQ(a2 * b2)>>
  BY <1>1, Zenon DEF projectiveSub
<1>3. projectiveMul(<<a1, a2>>, <<b1, b2>>) = <<modQ(a1 * b1), modQ(a2 * b2)>>
  BY <1>1, Zenon DEF projectiveMul
<1>4. b2 * a1 - a2 * b1 \in Int /\ a2 * b2 \in Int /\ a1 * b1 \in Int
  OBVIOUS
<1> QED
  BY <1>2, <1>3, <1>4, FieldRemainders

\* What ProjectiveECAdd computes.
LEMMA ProjectiveSum ==
    ASSUME NEW x1 \in Int, NEW y1 \in Int, NEW x2 \in Int, NEW y2 \in Int
    PROVE  LET n == y2 - y1
               d == x2 - x1
               X == n * n - x1 * (d * d) - x2 * (d * d)
               Y == (((d * d) * x1 - X) * n) - y1 * ((d * d) * d)
           IN \E u, v, w \in Int :
                 /\ ProjectiveECAdd(<<x1, y1>>, <<x2, y2>>) = <<u, v, w>>
                 /\ Same(u, X * ((d * d) * d)) /\ Same(v, Y * (d * d))
                 /\ Same(w, (d * d) * ((d * d) * d))
<1> DEFINE n == y2 - y1
           d == x2 - x1
           D == d * d
           E == D * d
           X == n * n - x1 * D - x2 * D
           Y == ((D * x1 - X) * n) - y1 * E
<1>1. n \in Int /\ d \in Int /\ D \in Int /\ E \in Int /\ X \in Int /\ Y \in Int /\ 1 \in Int
  OBVIOUS
<1>2. n * n \in Int /\ x1 * D \in Int /\ x2 * D \in Int /\ n * n - x1 * D \in Int /\ D * x1 \in Int /\ D * x1 - X \in Int
      /\ (D * x1 - X) * n \in Int /\ y1 * E \in Int
  OBVIOUS
<1> DEFINE A == modQ(n * n)
           B == modQ(D)
           A1 == modQ(1 * A - B * x1)
           B1 == modQ(B * 1)
           A2 == modQ(1 * A1 - B1 * x2)
           B2 == modQ(B1 * 1)
           A3 == modQ(B2 * x1 - 1 * A2)
           B3 == modQ(1 * B2)
           A4 == modQ(A3 * n)
           B4 == modQ(B3 * d)
           A5 == modQ(1 * A4 - B4 * y1)
           B5 == modQ(B4 * 1)
<1>3. A \in Int /\ Same(A, n * n) /\ B \in Int /\ Same(B, D)
  <2> HIDE DEF n, D
  <2> QED
    BY <1>1, <1>2, SameAsReduced
<1>4. A1 \in Int /\ Same(A1, n * n - x1 * D) /\ B1 \in Int /\ Same(B1, D)
  <2> HIDE DEF n, D, A, B
  <2>1. 1 * A = A /\ B * 1 = B /\ B * x1 \in Int /\ 1 * A - B * x1 \in Int /\ B * 1 \in Int /\ x1 * D = D * x1
    BY <1>1, <1>3
  <2>2. Same(B * x1, D * x1)
    BY <1>1, <1>2, <1>3, SameAsReduced, SameOps
  <2>3. Same(A - B * x1, n * n - D * x1)
    BY <1>2, <1>3, <2>1, <2>2, SameOps
  <2>4. Same(A1, 1 * A - B * x1) /\ A1 \in Int /\ Same(B1, B * 1) /\ B1 \in Int
    BY <2>1, SameAsReduced
  <2> QED
    BY <1>3, <2>1, <2>3, <2>4 DEF Same
<1>5. A2 \in Int /\ Same(A2, X) /\ B2 \in Int /\ Same(B2, D)
  <2> HIDE DEF n, D, A, B, A1, B1
  <2>1. 1 * A1 = A1 /\ B1 * 1 = B1 /\ B1 * x2 \in Int /\ 1 * A1 - B1 * x2 \in Int /\ B1 * 1 \in Int /\ x2 * D = D * x2
    BY <1>1, <1>4
  <2>2. Same(B1 * x2, D * x2)
    BY <1>1, <1>2, <1>4, SameAsReduced, SameOps
  <2>3. Same(A1 - B1 * x2, (n * n - x1 * D) - D * x2)
    BY <1>2, <1>4, <2>1, <2>2, SameOps
  <2>4. Same(A2, 1 * A1 - B1 * x2) /\ A2 \in Int /\ Same(B2, B1 * 1) /\ B2 \in Int
    BY <2>1, SameAsReduced
  <2> QED
    BY <1>4, <2>1, <2>3, <2>4 DEF Same
<1>6. A3 \in Int /\ Same(A3, D * x1 - X) /\ B3 \in Int /\ Same(B3, D)
  <2> HIDE DEF n, D, A, B, A1, B1, A2, B2, X
  <2>1. 1 * A2 = A2 /\ 1 * B2 = B2 /\ B2 * x1 \in Int /\ B2 * x1 - 1 * A2 \in Int /\ 1 * B2 \in Int
    BY <1>1, <1>5
  <2>2. Same(B2 * x1, D * x1)
    BY <1>1, <1>2, <1>5, SameAsReduced, SameOps
  <2>3. Same(B2 * x1 - A2, D * x1 - X)
    BY <1>1, <1>2, <1>5, <2>1, <2>2, SameOps
  <2>4. Same(A3, B2 * x1 - 1 * A2) /\ A3 \in Int /\ Same(B3, 1 * B2) /\ B3 \in Int
    BY <2>1, SameAsReduced
  <2> QED
    BY <1>5, <2>1, <2>3, <2>4 DEF Same
<1>7. A4 \in Int /\ Same(A4, (D * x1 - X) * n) /\ B4 \in Int /\ Same(B4, E)
  <2> HIDE DEF n, D, d, A, B, A1, B1, A2, B2, A3, B3, X
  <2>1. A3 * n \in Int /\ B3 * d \in Int
    BY <1>1, <1>6
  <2>2. Same(A3 * n, (D * x1 - X) * n) /\ Same(B3 * d, D * d)
    BY <1>1, <1>2, <1>6, SameAsReduced, SameOps
  <2>3. Same(A4, A3 * n) /\ A4 \in Int /\ Same(B4, B3 * d) /\ B4 \in Int
    BY <2>1, SameAsReduced
  <2> QED
    BY <2>2, <2>3 DEF Same
<1>8. A5 \in Int /\ Same(A5, Y) /\ B5 \in Int /\ Same(B5, E)
  <2> HIDE DEF n, D, d, A, B, A1, B1, A2, B2, A3, B3, A4, B4, X, E
  <2>1. 1 * A4 = A4 /\ B4 * 1 = B4 /\ B4 * y1 \in Int /\ 1 * A4 - B4 * y1 \in Int /\ B4 * 1 \in Int /\ y1 * E = E * y1
    BY <1>1, <1>7
  <2>2. Same(B4 * y1, E * y1)
    BY <1>1, <1>7, SameAsReduced, SameOps
  <2>3. Same(A4 - B4 * y1, ((D * x1 - X) * n) - E * y1)
    BY <1>2, <1>7, <2>1, <2>2, SameOps
  <2>4. Same(A5, 1 * A4 - B4 * y1) /\ A5 \in Int /\ Same(B5, B4 * 1) /\ B5 \in Int
    BY <2>1, SameAsReduced
  <2> QED
    BY <1>7, <2>1, <2>3, <2>4 DEF Same
<1>9. ProjectiveECAdd(<<x1, y1>>, <<x2, y2>>) = <<modQ(A2 * B5), modQ(A5 * B2), modQ(B2 * B5)>>
  <2> DEFINE l == <<n, d>>
             xs == projectiveSub(projectiveSub(projectiveMul(l, l), <<x1, 1>>), <<x2, 1>>)
             ys == projectiveSub(projectiveMul(projectiveSub(<<x1, 1>>, xs), l), <<y1, 1>>)
  <2>0. <<x1, y1>>[1] = x1 /\ <<x1, y1>>[2] = y1 /\ <<x2, y2>>[1] = x2 /\ <<x2, y2>>[2] = y2
    OBVIOUS
  <2>1. ProjectiveECAdd(<<x1, y1>>, <<x2, y2>>)
          = <<modQ(xs[1] * ys[2]), modQ(ys[1] * xs[2]), modQ(xs[2] * ys[2])>>
    BY <2>0, Zenon DEF ProjectiveECAdd
  <2>2. projectiveMul(l, l) = <<A, B>>
    <3> HIDE DEF n, d
    <3> QED
      BY <1>1, Fractions
  <2>3. projectiveSub(<<A, B>>, <<x1, 1>>) = <<A1, B1>>
    <3> HIDE DEF A, B
    <3> QED
      BY <1>1, <1>3, Fractions
  <2>4. projectiveSub(<<A1, B1>>, <<x2, 1>>) = <<A2, B2>>
    <3> HIDE DEF A1, B1
    <3> QED
      BY <1>1, <1>4, Fractions
  <2>5. xs = <<A2, B2>>
    BY <2>2, <2>3, <2>4, Zenon
  <2>6. projectiveSub(<<x1, 1>>, <<A2, B2>>) = <<A3, B3>>
    <3> HIDE DEF A2, B2
    <3> QED
      BY <1>1, <1>5, Fractions
  <2>7. projectiveMul(<<A3, B3>>, l) = <<A4, B4>>
    <3> HIDE DEF A3, B3, n, d
    <3> QED
      BY <1>1, <1>6, Fractions
  <2>8. projectiveSub(<<A4, B4>>, <<y1, 1>>) = <<A5, B5>>
    <3> HIDE DEF A4, B4
    <3> QED
      BY <1>1, <1>7, Fractions
  <2>9. ys = <<A5, B5>>
    BY <2>5, <2>6, <2>7, <2>8, Zenon
  <2> HIDE DEF xs, ys, A2, B2, A5, B5
  <2>10. xs[1] = A2 /\ xs[2] = B2 /\ ys[1] = A5 /\ ys[2] = B5
    BY <2>5, <2>9
  <2> QED
    BY <2>1, <2>10, Zenon
<1> HIDE DEF A2, B2, A5, B5
<1>10. A2 * B5 \in Int /\ A5 * B2 \in Int /\ B2 * B5 \in Int
  BY <1>5, <1>8
<1>11. Same(A2 * B5, X * E) /\ Same(A5 * B2, Y * D) /\ Same(B2 * B5, D * E)
  <2> HIDE DEF X, Y, D, E
  <2> QED
    BY <1>1, <1>5, <1>8, SameOps
<1>12. Same(modQ(A2 * B5), A2 * B5) /\ Same(modQ(A5 * B2), A5 * B2) /\ Same(modQ(B2 * B5), B2 * B5)
       /\ modQ(A2 * B5) \in Int /\ modQ(A5 * B2) \in Int /\ modQ(B2 * B5) \in Int
  BY <1>10, SameAsReduced
<1>13. Same(modQ(A2 * B5), X * E) /\ Same(modQ(A5 * B2), Y * D) /\ Same(modQ(B2 * B5), D * E)
  BY <1>11, <1>12, Zenon DEF Same
<1> QED
  BY <1>9, <1>12, <1>13, Zenon

\* Two points that are neither the same nor opposite have different x ordinates.
LEMMA Apart ==
    ASSUME NEW p \in Points, NEW q \in Points, p # Infinity, q # Infinity, p # q, AddPoints(p, q) # Infinity
    PROVE  modQ(q[1] - p[1]) # 0
<1> SUFFICES ASSUME modQ(q[1] - p[1]) = 0
             PROVE  FALSE
  OBVIOUS
<1>1. p[1] \in Field /\ p[2] \in Field /\ p = <<p[1], p[2]>> /\ modQ(p[2] * p[2]) = rightHandSide(p[1])
  BY PointIs
<1>2. q[1] \in Field /\ q[2] \in Field /\ q = <<q[1], q[2]>> /\ modQ(q[2] * q[2]) = rightHandSide(q[1])
  BY PointIs
<1>3. q[1] = p[1]
  BY <1>1, <1>2, NoDifference
<1>4. q[2] = p[2] \/ q[2] = modQ(-p[2])
  BY <1>1, <1>2, <1>3, Roots
<1>5. q = Neg(p)
  BY <1>1, <1>2, <1>3, <1>4, Zenon DEF Neg
<1> QED
  BY <1>5, Zenon DEF AddPoints

\* The fractions of ProjectiveECAdd, with the inverse of their denominator, are the sum.
LEMMA FractionsAreTheSum ==
    ASSUME NEW p \in Points, NEW q \in Points, p # Infinity, q # Infinity, p # q, AddPoints(p, q) # Infinity
    PROVE  LET sum == ProjectiveECAdd(p, q)
               z == ModInverse(sum[3])
           IN modQ(sum[3] * z) = 1 /\ <<modQ(sum[1] * z), modQ(sum[2] * z)>> = AddPoints(p, q)
<1>1. PICK x1 \in Field, y1 \in Field : p = <<x1, y1>>
  BY PointIs
<1>2. PICK x2 \in Field, y2 \in Field : q = <<x2, y2>>
  BY PointIs
<1>3. x1 \in Int /\ y1 \in Int /\ x2 \in Int /\ y2 \in Int
  BY FieldIs
<1>4. p[1] = x1 /\ p[2] = y1 /\ q[1] = x2 /\ q[2] = y2
  BY <1>1, <1>2
<1> DEFINE n == y2 - y1
           d == x2 - x1
           D == d * d
           E == D * d
           X == n * n - x1 * D - x2 * D
           Y == ((D * x1 - X) * n) - y1 * E
<1>5. n \in Int /\ d \in Int /\ D \in Int /\ E \in Int /\ X \in Int /\ Y \in Int /\ D * E \in Int
      /\ X * E \in Int /\ Y * D \in Int
  BY <1>3
<1>6. PICK u \in Int, v \in Int, w \in Int :
          /\ ProjectiveECAdd(p, q) = <<u, v, w>>
          /\ Same(u, X * E) /\ Same(v, Y * D) /\ Same(w, D * E)
  <2>1. \E u, v, w \in Int :
          /\ ProjectiveECAdd(<<x1, y1>>, <<x2, y2>>) = <<u, v, w>>
          /\ Same(u, X * E) /\ Same(v, Y * D) /\ Same(w, D * E)
    BY <1>3, ProjectiveSum
  <2> HIDE DEF X, Y, D, E
  <2> QED
    BY <1>1, <1>2, <2>1, Zenon
<1>7. modQ(d) # 0
  BY <1>4, Apart
<1>8. modQ(w) # 0
  <2> SUFFICES ASSUME modQ(w) = 0
               PROVE  FALSE
    OBVIOUS
  <2>1. modQ(D * E) = 0
    BY <1>6, Zenon DEF Same
  <2>2. modQ(D) = 0 \/ modQ(E) = 0
    <3> HIDE DEF D, E
    <3> QED
      BY <1>5, <2>1, Zeroes
  <2>3. modQ(D) = 0 \/ modQ(d) = 0
    <3> HIDE DEF D, d
    <3> QED
      BY <1>5, <2>2, Zeroes DEF E
  <2>4. modQ(D) # 0
    <3> HIDE DEF d
    <3> QED
      BY <1>5, <1>7, Zeroes
  <2> QED
    BY <1>7, <2>3, <2>4
<1> DEFINE z == ModInverse(w)
           i == ModInverse(d)
           s == modQ(n * i)
           x == modQ(s * s - x1 - x2)
           y == modQ(s * (x1 - x) - y1)
<1>9. z \in Int /\ modQ(w * z) = 1
  BY <1>8, InverseIs
<1>10. i \in Int /\ modQ(d * i) = 1
  <2> HIDE DEF d
  <2> QED
    BY <1>5, <1>7, InverseIs
<1>11. n * i \in Int /\ s \in Int /\ Same(s, n * i)
  <2> HIDE DEF i, n
  <2>1. n * i \in Int
    BY <1>5, <1>10
  <2> QED
    BY <2>1, SameAsReduced
<1>12. Same(s * d, n)
  <2> HIDE DEF i, n, d, s
  <2>1. Same(s * d, (n * i) * d)
    BY <1>5, <1>11, SameAsReduced, SameOps
  <2>2. (n * i) * d = n * (d * i) /\ n * 1 = n /\ d * i \in Int /\ 1 \in Int
    BY <1>5, <1>10
  <2>3. Same(d * i, 1)
    BY <1>10, FieldIs, FieldReduced DEF Same
  <2>4. Same(n * (d * i), n * 1)
    BY <1>5, <2>2, <2>3, SameAsReduced, SameOps
  <2> QED
    BY <2>1, <2>2, <2>4 DEF Same
<1>13. AddPoints(p, q) = <<x, y>>
  <2>1. q # Neg(p)
    BY Zenon DEF AddPoints
  <2>2. AddPoints(p, q) = LET slope == modQ((q[2] - p[2]) * ModInverse(q[1] - p[1]))
                              a == modQ(slope * slope - p[1] - q[1])
                          IN <<a, modQ(slope * (p[1] - a) - p[2])>>
    BY <2>1, Zenon DEF AddPoints
  <2> QED
    BY <1>4, <2>2, Zenon
<1>14. x \in Field /\ x \in Int /\ Same(x, s * s - x1 - x2)
  <2> HIDE DEF s
  <2>1. s * s - x1 - x2 \in Int
    BY <1>3, <1>11
  <2> QED
    BY <2>1, FieldRemainders, SameAsReduced
<1>15. y \in Field /\ y \in Int /\ Same(y, s * (x1 - x) - y1)
  <2> HIDE DEF s, x
  <2>1. s * (x1 - x) - y1 \in Int
    BY <1>3, <1>11, <1>14
  <2> QED
    BY <2>1, FieldRemainders, SameAsReduced
<1> HIDE DEF z, i, s, x, y
<1>16. Same(x * D, X) /\ Same(y * E, Y)
  <2> HIDE DEF n, d
  <2> QED
    BY <1>3, <1>5, <1>11, <1>12, <1>14, <1>15, Chord
<1>17. Same(x * w, u)
  <2> HIDE DEF D, E, X
  <2>1. Same(x * w, x * (D * E))
    BY <1>5, <1>6, <1>14, SameAsReduced, SameOps
  <2>2. x * (D * E) = (x * D) * E /\ x * D \in Int
    BY <1>5, <1>14
  <2>3. Same((x * D) * E, X * E)
    BY <1>5, <1>16, <2>2, SameAsReduced, SameOps
  <2> QED
    BY <1>6, <2>1, <2>2, <2>3 DEF Same
<1>18. Same(y * w, v)
  <2> HIDE DEF D, E, Y
  <2>1. Same(y * w, y * (D * E))
    BY <1>5, <1>6, <1>15, SameAsReduced, SameOps
  <2>2. y * (D * E) = (y * E) * D /\ y * E \in Int
    BY <1>5, <1>15
  <2>3. Same((y * E) * D, Y * D)
    BY <1>5, <1>16, <2>2, SameAsReduced, SameOps
  <2> QED
    BY <1>6, <2>1, <2>2, <2>3 DEF Same
<1>19. modQ(u * z) = x
  BY <1>9, <1>14, <1>17, Divides
<1>20. modQ(v * z) = y
  BY <1>9, <1>15, <1>18, Divides
<1>21. <<u, v, w>>[1] = u /\ <<u, v, w>>[2] = v /\ <<u, v, w>>[3] = w
  OBVIOUS
<1> QED
  BY <1>6, <1>9, <1>13, <1>19, <1>20, <1>21, Zenon DEF z

\* The recursive function of Keccak.
LEMMA KeccakIsAWord ==
    ASSUME NEW t \in Nat, NEW ns \in Seq(Int)
    PROVE  Keccak(t, ns) \in 0 .. WordSize - 1 /\ Keccak(t, ns) \in Nat
<1> DEFINE m == Len(ns)
           Function(f) == f = [n \in 0 .. Len(ns) |->
                                  IF n = 0 THEN t ELSE Mixed(f[n - 1], ns[n], t)]
           d == [n \in 1 .. m |-> n - 1]
           step == [a \in (1 .. m) \X Int |-> Mixed(a[2], ns[a[1]], t)]
<1>0. m \in Nat /\ \A n \in 1 .. m : ns[n] \in Int
  OBVIOUS
<1>1. \A n \in 1 .. m : d[n] = n - 1 /\ n - 1 \in 0 .. n - 1
  <2> HIDE DEF m
  <2> QED
    BY <1>0
<1>2. ASSUME NEW n \in 1 .. m, NEW u \in Int
      PROVE  step[<<n, u>>] = Mixed(u, ns[n], t) /\ Mixed(u, ns[n], t) \in Int
  <2>1. <<n, u>> \in (1 .. m) \X Int /\ <<n, u>>[1] = n /\ <<n, u>>[2] = u
    OBVIOUS
  <2>2. step[<<n, u>>] = Mixed(<<n, u>>[2], ns[<<n, u>>[1]], t)
    BY <2>1, Zenon
  <2>3. u * 11 + ns[n] + t \in Int
    <3> HIDE DEF m
    <3> QED
      BY <1>0
  <2>4. Mixed(u, ns[n], t) \in Int
    BY <2>3 DEF Mixed
  <2> HIDE DEF step
  <2> QED
    BY <2>1, <2>2, <2>4
<1>3. step \in [(1 .. m) \X Int -> Int]
  <2>1. \A a \in (1 .. m) \X Int : step[a] \in Int
    <3> SUFFICES ASSUME NEW a \in (1 .. m) \X Int
                 PROVE  step[a] \in Int
      OBVIOUS
    <3> HIDE DEF step, m
    <3>1. PICK n \in 1 .. m, u \in Int : a = <<n, u>>
      OBVIOUS
    <3> QED
      BY <1>2, <3>1, Zenon
  <2>2. step = [a \in (1 .. m) \X Int |-> step[a]]
    BY Zenon
  <2> HIDE DEF step
  <2> QED
    BY <2>1, <2>2
<1>4. PICK some \in [0 .. m -> Int] : Recurs(some, m, t, d, step)
  <2> HIDE DEF d, step, m
  <2>1. \A n \in 1 .. m : d[n] \in 0 .. n - 1
    BY <1>1
  <2>2. t \in Int
    OBVIOUS
  <2> QED
    BY <1>0, <1>3, <2>1, <2>2, RecursionEnds
<1> DEFINE g == [n \in 0 .. m |-> some[n]]
<1>5. Function(g)
  <2>1. \A n \in 0 .. m : n # 0 => n - 1 \in 0 .. m /\ n \in 1 .. m
    <3> HIDE DEF m
    <3> QED
      BY <1>0
  <2>2. ASSUME NEW n \in 0 .. m
        PROVE  g[n] = IF n = 0 THEN t ELSE Mixed(g[n - 1], ns[n], t)
    <3>1. CASE n = 0
      BY <1>4, <3>1, Zenon DEF Recurs
    <3>2. CASE n # 0
      <4>1. g[n] = some[n] /\ g[n - 1] = some[n - 1] /\ n \in 1 .. m
        BY <2>1, <3>2, Zenon
      <4> HIDE DEF step, g, d, m
      <4>2. some[n] = step[<<n, some[n - 1]>>]
        BY <1>1, <1>4, <4>1, Zenon DEF Recurs
      <4>3. some[n - 1] \in Int
        BY <2>1, <3>2
      <4>4. some[n] = Mixed(g[n - 1], ns[n], t)
        BY <1>2, <4>1, <4>2, <4>3, Zenon
      <4> QED
        BY <3>2, <4>1, <4>4, Zenon
    <3> QED
      BY <3>1, <3>2
  <2> HIDE DEF d, step
  <2> QED
    BY <2>2, Zenon
<1> DEFINE f == CHOOSE h : Function(h)
<1>6. Function(f)
  <2> HIDE DEF Function, g
  <2> QED
    BY <1>5, Zenon
<1>7. Keccak(t, ns) = f[Len(ns)] % WordSize
  BY Zenon DEF Keccak
<1> HIDE DEF g, f
<1>8. f[0] = t
  <2>1. 0 \in 0 .. m
    BY <1>0
  <2> QED
    BY <1>6, <2>1, Zenon
<1>9. \A n \in 1 .. m : f[n] = Mixed(f[n - 1], ns[n], t)
  <2>1. \A n \in 1 .. m : n \in 0 .. m /\ n # 0
    BY <1>0
  <2> QED
    BY <1>6, <2>1, Zenon
<1> HIDE DEF Function
<1> DEFINE S == {n \in 0 .. m : f[n] \in Int}
<1>10. 0 \in S
  BY <1>0, <1>8
<1>11. ASSUME NEW n \in 0 .. m - 1, n \in S
       PROVE  n + 1 \in S
  <2>1. n + 1 \in 1 .. m /\ (n + 1) - 1 = n /\ n + 1 \in 0 .. m
    <3> HIDE DEF m
    <3> QED
      BY <1>0
  <2>2. f[n] \in Int
    BY <1>11
  <2>3. f[n + 1] = Mixed(f[n], ns[n + 1], t)
    BY <1>9, <2>1, Zenon
  <2>4. Mixed(f[n], ns[n + 1], t) \in Int
    <3> HIDE DEF step, m
    <3> QED
      BY <1>2, <2>1, <2>2
  <2> QED
    BY <2>1, <2>3, <2>4, Zenon
<1>12. f[m] \in Int
  <2>1. 0 .. m \subseteq S
    <3> HIDE DEF S, m
    <3> QED
      BY <1>0, <1>10, <1>11, NumbersInductive
  <2>2. m \in 0 .. m
    BY <1>0
  <2> QED
    BY <2>1, <2>2, Zenon
<1>13. WordSize \in Nat \ {0}
  BY CurveAssumption DEF FieldAssumption
<1>14. Keccak(t, ns) \in 0 .. WordSize - 1
  <2> DEFINE w == f[m]
  <2>1. w \in Int
    BY <1>12
  <2> HIDE DEF w
  <2>2. w % WordSize \in 0 .. WordSize - 1
    BY <1>13, <2>1, Remainder
  <2> QED
    BY <1>7, <2>2 DEF w
<1> QED
  BY <1>13, <1>14

\* Euler's criterion finds an ordinate with a point.
LEMMA EvenPointIs ==
    ASSUME NEW x \in Field, IsCurveXOrdinate(x)
    PROVE  EvenPoint[x] \in Points /\ EvenPoint[x] # Infinity
<1> DEFINE v == rightHandSide(x)
           k == SqrtPower
           j == (FieldSize - 1) \div 2
           y == Exp(v, k)
<1>1. x \in Int /\ v \in Field /\ v \in Int /\ k \in Nat /\ k + k = j + 1 /\ j \in Nat /\ j # 0
  <2>1. x \in Int
    BY FieldIs
  <2> QED
    BY <2>1, FieldIs, RightHandSide, SqrtPowerIs
<1>2. Exp(v, j) = 1
  BY Zenon DEF IsCurveXOrdinate, IsSquare
<1>3. y \in Field /\ y \in Int /\ modQ(y * y) = v
  <2> HIDE DEF v, k, j
  <2>1. y \in Field
    BY <1>1, ExpStep
  <2>2. modQ(y * y) = Exp(v, k + k)
    BY <1>1, ExpOfSum
  <2>3. Exp(v, j + 1) = modQ(Exp(v, j) * v)
    BY <1>1, ExpStep
  <2>4. 1 * v = v /\ modQ(v) = v
    BY <1>1, FieldReduced
  <2>5. modQ(y * y) = v
    BY <1>1, <1>2, <2>2, <2>3, <2>4, Zenon
  <2> QED
    BY <2>1, <2>5, FieldIs
<1>4. v # 0
  <2> HIDE DEF v, j
  <2> QED
    BY <1>1, <1>2, PowersOfZero
<1>5. EvenPoint[x] = IF isEven(y) THEN <<x, y>> ELSE Neg(<<x, y>>)
  BY Zenon DEF EvenPoint, Field
<1>6. Neg(<<x, y>>) = <<x, modQ(-y)>>
  <2>1. <<x, y>>[1] = x /\ <<x, y>>[2] = y
    OBVIOUS
  <2> QED
    BY <2>1, Zenon DEF Neg
<1>7. modQ(-y) \in Field /\ modQ(modQ(-y) * modQ(-y)) = v
  <2> HIDE DEF v, y
  <2> QED
    BY <1>3, Opposite
<1>8. ASSUME NEW w \in Field, modQ(w * w) = v
      PROVE  <<x, w>> \in Points /\ <<x, w>> # Infinity
  <2>1. <<x, w>> \in Field \X Field /\ <<x, w>>[1] = x /\ <<x, w>>[2] = w
    OBVIOUS
  <2>2. <<x, w>> \in Points
    BY <1>8, <2>1, Zenon DEF Points, Field
  <2>3. w # 0
    <3>1. 0 * 0 = 0 /\ modQ(0) = 0
      BY FieldIs, FieldReduced
    <3> QED
      BY <1>4, <1>8, <3>1, Zenon
  <2>4. <<x, w>>[2] # Infinity[2]
    BY <2>1, <2>3 DEF Infinity
  <2> QED
    BY <2>2, <2>4, Zenon
<1> HIDE DEF v, y
<1> QED
  BY <1>3, <1>5, <1>6, <1>7, <1>8, Zenon

\* HashToCurve ends, at a point that is not at infinity.
LEMMA HashIsAPoint ==
    ASSUME salt \in Salts, NEW p \in Points, NEW input \in Int
    PROVE  HashToCurve(p, input) \in Points \ {Infinity}
<1>0. salt \in Nat
  BY HashingAssumption
<1> DEFINE w == Keccak(salt, <<1>> \o p \o <<input>>)
           f == fieldHash(salt, <<1>> \o p \o <<input>>)
           x == ordinates(salt)[f]
<1>1. <<1>> \o p \o <<input>> \in Seq(Int)
  <2>1. p \in Seq(Int)
    BY PointIs
  <2> QED
    BY <2>1
<1>2. w \in 0 .. WordSize - 1
  BY <1>0, <1>1, KeccakIsAWord
<1>3. f \in 0 .. FieldSize - 1
  <2>1. f = hashesBelow(salt)[w]
    BY Zenon DEF fieldHash
  <2> QED
    BY <1>2, <2>1, HashingAssumption, Zenon
<1>4. x \in Field /\ IsCurveXOrdinate(x)
  BY <1>3, HashingAssumption, Zenon DEF Field
<1>5. HashToCurve(p, input) = EvenPoint[x]
  BY Zenon DEF HashToCurve
<1> HIDE DEF x
<1> QED
  BY <1>4, <1>5, EvenPointIs

\* c times the key and s make the nonce, from whatever point.
LEMMA ResponseMakesTheNonce ==
    ASSUME NEW k \in Nat, NEW nonce \in Nat, NEW c \in Nat, NEW p \in Points
    PROVE  linearCombination(modG(c), Mul(k, p), modG(nonce - c * k), p) = Mul(nonce, p)
<1> DEFINE a == modG(c)
           s == modG(nonce - c * k)
<1>0. c * k \in Int /\ nonce - c * k \in Int /\ nonce \in Int /\ c \in Int
  OBVIOUS
<1>1. a \in Nat /\ s \in Nat /\ a \in Int
  <2>1. a \in Nat
    BY <1>0, ScalarRemainders
  <2>2. s \in Nat
    BY <1>0, ScalarRemainders
  <2> QED
    BY <2>1, <2>2
<1>2. a * k \in Nat /\ a * k \in Int
  <2> HIDE DEF a
  <2> QED
    BY <1>1
<1>3. Mul(a, Mul(k, p)) = Mul(a * k, p)
  <2> HIDE DEF a
  <2> QED
    BY <1>1, MulOfMul
<1>4. AddPoints(Mul(a * k, p), Mul(s, p)) = Mul(a * k + s, p)
  <2> HIDE DEF a, s
  <2> QED
    BY <1>1, <1>2, MulOfSum
<1>5. modG(a * k + s) = modG(nonce)
  <2>0. GroupOrder \in Nat \ {0}
    BY GroupIs
  <2> DEFINE y == nonce - c * k
  <2>1. ((y % GroupOrder) + a * k) % GroupOrder = (y + a * k) % GroupOrder
    <3> HIDE DEF a, y
    <3>1. y \in Int
      BY <1>0 DEF y
    <3> QED
      BY <1>2, <2>0, <3>1, Remainders
  <2>2. ((c % GroupOrder) * k) % GroupOrder = (c * k) % GroupOrder
    <3>1. \A u \in Int : ((c % GroupOrder) * u) % GroupOrder = (c * u) % GroupOrder
      BY <1>0, <2>0, Remainders
    <3>2. k \in Int
      OBVIOUS
    <3> QED
      BY <3>1, <3>2, Zenon
  <2>3. (((a * k) % GroupOrder) + y) % GroupOrder = (a * k + y) % GroupOrder
    <3> HIDE DEF a, y
    <3>1. y \in Int
      BY <1>0 DEF y
    <3> QED
      BY <1>2, <2>0, <3>1, Remainders
  <2>4. (((c * k) % GroupOrder) + y) % GroupOrder = (c * k + y) % GroupOrder
    <3> HIDE DEF y
    <3>1. y \in Int
      BY <1>0 DEF y
    <3> QED
      BY <1>0, <2>0, <3>1, Remainders
  <2>5. c * k + y = nonce
    BY <1>0
  <2>6. (a * k + y) % GroupOrder = nonce % GroupOrder
    BY <2>2, <2>3, <2>4, <2>5, Zenon DEF modG
  <2>7. a * k + s = s + a * k /\ a * k + y = y + a * k
    <3> HIDE DEF a, s, y
    <3>1. y \in Int
      BY <1>0 DEF y
    <3> QED
      BY <1>1, <1>2, <3>1
  <2> QED
    BY <2>1, <2>6, <2>7, Zenon DEF modG
<1>6. a * k + s \in Int
  <2> HIDE DEF a, s
  <2> QED
    BY <1>1, <1>2
<1>7. Mul(a * k + s, p) = Mul(nonce, p)
  <2> HIDE DEF a, s
  <2> QED
    BY <1>0, <1>5, <1>6, MulReduces
<1> QED
  BY <1>3, <1>4, <1>7, Zenon DEF linearCombination

\* The points that keys and proofs are made of.
Finite == Points \ {Infinity}

LEMMA MultipleIsFinite ==
    ASSUME NEW p \in Finite, NEW n \in 1 .. GroupOrder - 1
    PROVE  Mul(n, p) \in Finite
<1>1. p \in Points /\ p # Infinity /\ n \in Nat
  BY DEF Finite
<1>2. Mul(n, p) \in Points
  BY <1>1, MulStep
<1>3. Mul(n, p) # Infinity
  BY GroupIs, Zenon DEF Finite
<1> QED
  BY <1>2, <1>3 DEF Finite

LEMMA ChallengeIsAWord ==
    ASSUME salt \in Salts, NEW k \in Nat, NEW nonce \in Nat, NEW h \in Points
    PROVE  Challenge(k, h, nonce) \in Nat
<1>0. salt \in Nat
  BY HashingAssumption
<1> DEFINE u == EthereumAddress(salt, Mul(nonce, Generator))
           pk == Mul(k, Generator)
           gamma == Gamma(k, h)
           v == Mul(nonce, h)
<1>1. Generator \in Points /\ pk \in Points /\ gamma \in Points /\ v \in Points /\ Mul(nonce, Generator) \in Points
  BY GroupIs, MulStep DEF Gamma
<1>2. u \in Int
  <2>1. Mul(nonce, Generator) \in Seq(Int)
    BY <1>1, PointIs
  <2> QED
    BY <1>0, <2>1, KeccakIsAWord DEF EthereumAddress
<1> HIDE DEF u, pk, gamma, v
<1>3. h \in Seq(Int) /\ pk \in Seq(Int) /\ gamma \in Seq(Int) /\ v \in Seq(Int)
  BY <1>1, PointIs
<1>4. <<2>> \o h \o pk \o gamma \o v \o <<u>> \in Seq(Int)
  BY <1>2, <1>3
<1>5. Keccak(salt, <<2>> \o h \o pk \o gamma \o v \o <<u>>) \in Nat
  BY <1>0, <1>4, KeccakIsAWord
<1> QED
  BY <1>5, Zenon DEF Challenge, ScalarFromCurvePoints, u, pk, gamma, v

\* What the node's proofs are.
HashOf(p) == HashToCurve(p.publicKey, p.seed)

\* What is known of a proof that generateProofWithNonce has returned.
Proven(p) ==
    /\ p.publicKey \in Finite /\ p.gamma \in Finite /\ HashOf(p) \in Finite
    /\ p.c \in Nat /\ p.s \in Nat
    /\ p = [publicKey |-> p.publicKey, gamma |-> p.gamma, c |-> p.c, s |-> p.s, seed |-> p.seed,
            output |-> Output(p.gamma)]
    /\ linearCombination(p.c, p.gamma, p.s, HashOf(p)) # Infinity
    /\ VerifyVRFProof(p)

\* What MarshalForSolidityVerifier makes of it.
SentAs(m, p) ==
    /\ m.p = p
    /\ m.cGammaWitness = Mul(p.c, p.gamma) /\ m.sHashWitness = Mul(p.s, HashOf(p))
    /\ m.zInv = ModInverse(ProjectiveECAdd(m.cGammaWitness, m.sHashWitness)[3])

\* Every proof on its way is right, and so are the witnesses sent with it.
VrfInv ==
    /\ salt \in Salts
    /\ proving.at \in {"idle", "other key", "asked", "proved", "panicked", "sent"}
    /\ proving.at = "asked" => proving.key \in SecretKeys /\ proving.seed \in Seeds
    /\ proving.at = "proved" => \E p : proving.proof = p /\ Proven(p)
    /\ proving.at = "panicked" => proving.nonce = 0 \/ proving.c >= GroupOrder
    /\ proving.at = "sent" => \E p : Proven(p) /\ SentAs(proving.sent, p)

LEMMA Verifies ==
    ASSUME NEW p
    PROVE  VerifyVRFProof(p) <=>
              /\ WellFormed(p) /\ ~CGammaEqualsSHash(p, HashOf(p))
              /\ p.c = ScalarFromCurvePoints(HashOf(p), p.publicKey, p.gamma,
                         EthereumAddress(salt, linearCombination(p.c, p.publicKey, p.s, Generator)),
                         linearCombination(p.c, p.gamma, p.s, HashOf(p)))
              /\ p.output = Output(p.gamma)
BY Zenon DEF VerifyVRFProof, HashOf

\* The proof of the code is right if the nonce is not 0 and the hash is a scalar.
LEMMA ProofIsRight ==
    ASSUME salt \in Salts, NEW k \in SecretKeys, NEW seed \in Seeds, NEW nonce \in 0 .. GroupOrder - 1,
           NEW h, h = HashToCurve(Mul(k, Generator), seed),
           NEW c, c = Challenge(k, h, nonce),
           NEW p, p = NewProof(k, seed, h, nonce, c)
    PROVE  /\ h \in Finite /\ HashOf(p) = h /\ c \in Nat
           /\ p.publicKey \in Finite /\ p.gamma \in Finite /\ p.c \in Nat /\ p.s \in Nat
           /\ p = [publicKey |-> p.publicKey, gamma |-> p.gamma, c |-> p.c, s |-> p.s, seed |-> p.seed,
                   output |-> Output(p.gamma)]
           /\ linearCombination(p.c, p.gamma, p.s, h) = Mul(nonce, h)
           /\ c < GroupOrder /\ ~CGammaEqualsSHash(p, h) => VerifyVRFProof(p)
<1>1. k \in 1 .. GroupOrder - 1 /\ k \in Nat /\ nonce \in Nat /\ seed \in Int /\ GroupOrder \in Nat
  BY HashingAssumption, GroupIs
<1>2. Generator \in Finite /\ Generator \in Points
  BY GroupIs DEF Finite
<1>3. Mul(k, Generator) \in Finite /\ Mul(k, Generator) \in Points
  BY <1>1, <1>2, MultipleIsFinite DEF Finite
<1>4. h \in Finite /\ h \in Points
  BY <1>1, <1>3, HashIsAPoint DEF Finite
<1>5. c \in Nat
  BY <1>1, <1>4, ChallengeIsAWord
<1>6. /\ p.publicKey = Mul(k, Generator) /\ p.gamma = Gamma(k, h) /\ p.c = modG(c)
      /\ p.s = modG(nonce - c * k) /\ p.seed = seed /\ p.output = Output(Gamma(k, h))
  BY Zenon DEF NewProof
<1>7. p.gamma = Mul(k, h) /\ p.gamma \in Finite /\ p.gamma \in Points
  <2>1. Mul(k, h) \in Finite
    BY <1>1, <1>4, MultipleIsFinite
  <2> QED
    BY <1>6, <2>1, Zenon DEF Gamma, Finite
<1>8. p.c \in 0 .. GroupOrder - 1 /\ p.s \in 0 .. GroupOrder - 1
  <2>1. c \in Int /\ nonce - c * k \in Int
    BY <1>1, <1>5
  <2>2. modG(c) \in 0 .. GroupOrder - 1
    BY <2>1, ScalarRemainders
  <2>3. modG(nonce - c * k) \in 0 .. GroupOrder - 1
    BY <2>1, ScalarRemainders
  <2> QED
    BY <1>6, <2>2, <2>3
<1>9. p = [publicKey |-> p.publicKey, gamma |-> p.gamma, c |-> p.c, s |-> p.s, seed |-> p.seed,
           output |-> Output(p.gamma)]
  BY <1>6, Zenon DEF NewProof
<1>10. HashOf(p) = h
  BY <1>6, Zenon DEF HashOf
<1>11. linearCombination(p.c, p.gamma, p.s, h) = Mul(nonce, h)
  <2>1. linearCombination(modG(c), Mul(k, h), modG(nonce - c * k), h) = Mul(nonce, h)
    BY <1>1, <1>4, <1>5, ResponseMakesTheNonce
  <2> QED
    BY <1>6, <1>7, <2>1, Zenon
<1>12. linearCombination(p.c, p.publicKey, p.s, Generator) = Mul(nonce, Generator)
  <2>1. linearCombination(modG(c), Mul(k, Generator), modG(nonce - c * k), Generator) = Mul(nonce, Generator)
    BY <1>1, <1>2, <1>5, ResponseMakesTheNonce
  <2> QED
    BY <1>6, <2>1, Zenon
<1>13. ASSUME c < GroupOrder, ~CGammaEqualsSHash(p, h)
       PROVE  VerifyVRFProof(p)
  <2>1. ValidPublicKey(p.publicKey) /\ ValidPublicKey(p.gamma)
    BY <1>3, <1>6, <1>7, PointsAreValid DEF Finite
  <2>2. RepresentsScalar(p.c) /\ RepresentsScalar(p.s)
    BY <1>1, <1>8 DEF RepresentsScalar
  <2>3. WellFormed(p)
    BY <2>1, <2>2, Zenon DEF WellFormed
  <2>4. p.c = c
    <3>1. c \in 0 .. GroupOrder - 1 /\ GroupOrder \in Nat \ {0}
      BY <1>1, <1>5, <1>13, GroupIs
    <3>2. modG(c) = c
      BY <3>1, Reduced DEF modG
    <3> QED
      BY <1>6, <3>2
  <2>5. c = ScalarFromCurvePoints(h, p.publicKey, p.gamma,
                                  EthereumAddress(salt, Mul(nonce, Generator)), Mul(nonce, h))
    BY <1>6, Zenon DEF Challenge
  <2>6. HashToCurve(p.publicKey, p.seed) = h
    BY <1>6, Zenon
  <2>7. p.output = Output(p.gamma)
    BY <1>6, Zenon
  <2>8. p.c = ScalarFromCurvePoints(HashOf(p), p.publicKey, p.gamma,
                 EthereumAddress(salt, linearCombination(p.c, p.publicKey, p.s, Generator)),
                 linearCombination(p.c, p.gamma, p.s, HashOf(p)))
    BY <1>10, <1>11, <1>12, <2>4, <2>5, Zenon
  <2>9. ~CGammaEqualsSHash(p, HashOf(p))
    BY <1>10, <1>13, Zenon
  <2> QED
    BY <2>3, <2>7, <2>8, <2>9, Verifies, Zenon
<1> QED
  <2>1. p.c \in Nat /\ p.s \in Nat /\ p.publicKey \in Finite
    BY <1>3, <1>6, <1>8
  <2> QED
    BY <1>4, <1>5, <1>7, <1>9, <1>10, <1>11, <1>13, <2>1, Zenon

LEMMA VrfInvInit == VrfInit => VrfInv
BY DEF VrfInit, VrfInv, Nothing

\* With the same hash, the same proofs are right.
LEMMA HashStays ==
    ASSUME salt' = salt
    PROVE  \A p : /\ Proven(p) => Proven(p)'
                  /\ \A m : SentAs(m, p) => SentAs(m, p)'
BY Zenon DEF Proven, SentAs, HashOf, HashToCurve, VerifyVRFProof, ScalarFromCurvePoints, Output

LEMMA VrfInvGenerate ==
    ASSUME VrfInv, NEW nonce \in 0 .. GroupOrder - 1, GenerateProof(nonce), proving.at = "asked"
    PROVE  VrfInv'
<1>1. salt' = salt /\ salt \in Salts /\ proving.key \in SecretKeys /\ proving.seed \in Seeds
  BY DEF GenerateProof, VrfInv
<1> DEFINE k == proving.key
           seed == proving.seed
           h == HashToCurve(Mul(k, Generator), seed)
           c == Challenge(k, h, nonce)
           p == NewProof(k, seed, h, nonce, c)
<1>2. \/ /\ ValidPublicKey(Mul(nonce, h)) /\ VerifyVRFProof(p)
         /\ proving' = [at |-> "proved", key |-> k, proof |-> p]
      \/ /\ IF ValidPublicKey(Mul(nonce, h))
            THEN ~VerifyVRFProof(p) /\ ~CGammaEqualsSHash(p, h)
            ELSE TRUE
         /\ proving' = [at |-> "panicked", nonce |-> nonce, c |-> c]
  BY Zenon DEF GenerateProof
<1>3. /\ h \in Finite /\ HashOf(p) = h /\ c \in Nat
      /\ p.publicKey \in Finite /\ p.gamma \in Finite /\ p.c \in Nat /\ p.s \in Nat
      /\ p = [publicKey |-> p.publicKey, gamma |-> p.gamma, c |-> p.c, s |-> p.s, seed |-> p.seed,
              output |-> Output(p.gamma)]
      /\ linearCombination(p.c, p.gamma, p.s, h) = Mul(nonce, h)
      /\ c < GroupOrder /\ ~CGammaEqualsSHash(p, h) => VerifyVRFProof(p)
  BY <1>1, ProofIsRight
<1> HIDE DEF h, c, p
<1>4. ASSUME ValidPublicKey(Mul(nonce, h)), VerifyVRFProof(p),
             proving' = [at |-> "proved", key |-> k, proof |-> p]
      PROVE  VrfInv'
  <2>1. Mul(nonce, h) # Infinity
    BY <1>4, InfinityIsInvalid
  <2>2. Proven(p)
    BY <1>3, <1>4, <2>1, Zenon DEF Proven
  <2>3. PICK q : q = p
    OBVIOUS
  <2>4. Proven(q)
    BY <2>2, <2>3
  <2>5. Proven(q)'
    BY <1>1, <2>4, HashStays
  <2>6. proving'.at = "proved" /\ proving'.proof = q
    BY <1>4, <2>3
  <2> QED
    BY <1>1, <2>5, <2>6 DEF VrfInv
<1>5. ASSUME IF ValidPublicKey(Mul(nonce, h))
             THEN ~VerifyVRFProof(p) /\ ~CGammaEqualsSHash(p, h)
             ELSE TRUE,
             proving' = [at |-> "panicked", nonce |-> nonce, c |-> c]
      PROVE  VrfInv'
  <2>1. nonce = 0 \/ c >= GroupOrder
    <3> SUFFICES ASSUME nonce # 0, c < GroupOrder
                 PROVE  FALSE
      BY <1>3, GroupIs
    <3>1. nonce \in 1 .. GroupOrder - 1
      BY GroupIs
    <3>2. Mul(nonce, h) \in Finite
      BY <1>3, <3>1, MultipleIsFinite
    <3>3. ValidPublicKey(Mul(nonce, h))
      BY <3>2, PointsAreValid DEF Finite
    <3> QED
      BY <1>3, <1>5, <3>3
  <2>2. proving'.at = "panicked" /\ proving'.nonce = nonce /\ proving'.c = c
    BY <1>5
  <2> QED
    BY <1>1, <2>1, <2>2 DEF VrfInv
<1> QED
  BY <1>2, <1>4, <1>5

LEMMA VrfInvMarshal ==
    ASSUME VrfInv, Marshal
    PROVE  VrfInv'
<1>1. salt' = salt /\ salt \in Salts /\ proving.at = "proved"
  BY DEF Marshal, VrfInv
<1>2. PICK p : proving.proof = p /\ Proven(p)
  BY <1>1, Zenon DEF VrfInv
<1> DEFINE cGamma == Mul(p.c, p.gamma)
           sHash == Mul(p.s, HashToCurve(p.publicKey, p.seed))
<1>3. proving' = [at |-> "sent", key |-> proving.key, sent |-> SolidityPrecalculations(p, cGamma, sHash)]
  BY <1>2, Zenon DEF Marshal
<1>4. PICK m : m = SolidityPrecalculations(p, cGamma, sHash)
  OBVIOUS
<1>5. /\ m.p = p /\ m.cGammaWitness = cGamma /\ m.sHashWitness = sHash
      /\ m.zInv = ModInverse(ProjectiveECAdd(cGamma, sHash)[3])
  BY <1>4, Zenon DEF SolidityPrecalculations
<1>6. SentAs(m, p)
  BY <1>5, Zenon DEF SentAs, HashOf
<1>7. Proven(p)' /\ SentAs(m, p)'
  BY <1>1, <1>2, <1>6, HashStays
<1>8. proving'.at = "sent" /\ proving'.sent = m
  BY <1>3, <1>4
<1> QED
  BY <1>1, <1>7, <1>8 DEF VrfInv

\* What is sent is read back as it was, and is right.
LEMMA ReadBack ==
    ASSUME NEW p, NEW m, Proven(p), SentAs(m, p)
    PROVE  UnmarshalSolidityProof(m) = p
<1>1. p.publicKey \in Points /\ p.publicKey # Infinity /\ p.gamma \in Points /\ p.gamma # Infinity /\ m.p = p
  BY DEF Proven, SentAs, Finite
<1>2. LongUnmarshal(p.gamma[1], p.gamma[2]) = p.gamma
  BY <1>1, PointsAreValid
<1>3. LongUnmarshal(p.publicKey[1], p.publicKey[2]) = p.publicKey
  BY <1>1, PointsAreValid
<1>4. UnmarshalSolidityProof(m)
        = [publicKey |-> p.publicKey, gamma |-> p.gamma, c |-> p.c, s |-> p.s, seed |-> p.seed,
           output |-> Output(p.gamma)]
  BY <1>1, <1>2, <1>3, Zenon DEF UnmarshalSolidityProof
<1>5. p = [publicKey |-> p.publicKey, gamma |-> p.gamma, c |-> p.c, s |-> p.s, seed |-> p.seed,
           output |-> Output(p.gamma)]
  BY Zenon DEF Proven
<1> QED
  BY <1>4, <1>5, Zenon

LEMMA VrfInvVerify ==
    ASSUME VrfInv, Verify
    PROVE  VrfInv'
<1>1. salt' = salt /\ salt \in Salts /\ proving.at = "sent"
  BY DEF Verify, VrfInv
<1>2. PICK p : Proven(p) /\ SentAs(proving.sent, p)
  BY <1>1, Zenon DEF VrfInv
<1>3. PICK m : m = proving.sent
  OBVIOUS
<1>4. UnmarshalSolidityProof(m) = p /\ VerifyVRFProof(p)
  BY <1>2, <1>3, ReadBack DEF Proven
<1>5. VerifyVRFProof(UnmarshalSolidityProof(proving.sent))
  BY <1>3, <1>4, Zenon
<1>6. proving' = Nothing
  BY <1>5, Zenon DEF Verify
<1> QED
  BY <1>1, <1>6 DEF VrfInv, Nothing

LEMMA VrfInvNext == VrfInv /\ [VrfNext]_vrfVars => VrfInv'
<1> SUFFICES ASSUME VrfInv, [VrfNext]_vrfVars
             PROVE  VrfInv'
  OBVIOUS
<1>1. ASSUME NEW k \in SecretKeys, NEW seed \in Seeds, NEW keyHash, Ask(k, keyHash, seed)
      PROVE  VrfInv'
  <2>1. salt' = salt /\ salt \in Salts
    BY <1>1 DEF Ask, VrfInv
  <2>2. \/ proving' = [at |-> "asked", key |-> k, seed |-> seed]
        \/ proving' = [at |-> "other key", key |-> k, keyHash |-> keyHash]
    BY <1>1, Zenon DEF Ask
  <2>3. \/ proving'.at = "asked" /\ proving'.key = k /\ proving'.seed = seed
        \/ proving'.at = "other key"
    <3>1. CASE proving' = [at |-> "asked", key |-> k, seed |-> seed]
      BY <3>1
    <3>2. CASE proving' = [at |-> "other key", key |-> k, keyHash |-> keyHash]
      BY <3>2
    <3> QED
      BY <2>2, <3>1, <3>2, Zenon
  <2> QED
    BY <2>1, <2>3 DEF VrfInv
<1>2. ASSUME NEW nonce \in 0 .. GroupOrder - 1, GenerateProof(nonce)
      PROVE  VrfInv'
  <2>1. proving.at = "asked"
    BY <1>2 DEF GenerateProof
  <2> QED
    BY <1>2, <2>1, VrfInvGenerate
<1>3. CASE UNCHANGED vrfVars
  <2>1. salt' = salt /\ proving' = proving
    BY <1>3 DEF vrfVars
  <2>2. salt' \in Salts
    BY <2>1 DEF VrfInv
  <2>3. proving.at = "proved" => \E p : proving.proof = p /\ Proven(p)'
    BY <2>1, HashStays DEF VrfInv
  <2>4. proving.at = "sent" => \E p : Proven(p)' /\ SentAs(proving.sent, p)'
    BY <2>1, HashStays DEF VrfInv
  <2> QED
    BY <2>1, <2>2, <2>3, <2>4 DEF VrfInv
<1> QED
  BY <1>1, <1>2, <1>3, VrfInvMarshal, VrfInvVerify DEF VrfNext

\* The witnesses of a proof that is right.
LEMMA WitnessesOfProven ==
    ASSUME VrfInv
    PROVE  WitnessesFit
<1> SUFFICES ASSUME proving.at = "sent", Infinity \notin {proving.sent.cGammaWitness, proving.sent.sHashWitness}
             PROVE  LET w == proving.sent
                        sum == ProjectiveECAdd(w.cGammaWitness, w.sHashWitness)
                    IN /\ modQ(sum[3] * w.zInv) = 1
                       /\ <<modQ(sum[1] * w.zInv), modQ(sum[2] * w.zInv)>>
                            = linearCombination(w.p.c, w.p.gamma, w.p.s, HashToCurve(w.p.publicKey, w.p.seed))
  BY Zenon DEF WitnessesFit
<1>1. PICK p : Proven(p) /\ SentAs(proving.sent, p)
  BY Zenon DEF VrfInv
<1> DEFINE u == Mul(p.c, p.gamma)
           v == Mul(p.s, HashOf(p))
<1>2. u \in Points /\ v \in Points
  BY <1>1, MulStep DEF Proven, Finite
<1>3. proving.sent.cGammaWitness = u /\ proving.sent.sHashWitness = v /\ proving.sent.p = p
      /\ proving.sent.zInv = ModInverse(ProjectiveECAdd(u, v)[3])
  BY <1>1, Zenon DEF SentAs
<1>4. u # Infinity /\ v # Infinity
  BY <1>3, Zenon
<1>5. u # v
  BY <1>1, Verifies, Zenon DEF Proven, CGammaEqualsSHash
<1>6. AddPoints(u, v) # Infinity /\ AddPoints(u, v) = linearCombination(p.c, p.gamma, p.s, HashOf(p))
  BY <1>1, Zenon DEF Proven, linearCombination
<1> HIDE DEF u, v
<1>7. LET sum == ProjectiveECAdd(u, v)
          z == ModInverse(sum[3])
      IN modQ(sum[3] * z) = 1 /\ <<modQ(sum[1] * z), modQ(sum[2] * z)>> = AddPoints(u, v)
  BY <1>2, <1>4, <1>5, <1>6, FractionsAreTheSum
<1> QED
  BY <1>3, <1>6, <1>7, Zenon DEF HashOf

\* The contract accepts every proof that the node makes, with the witnesses sent along;
\* and making one fails only for the nonce 0, or for a hash at or above the order of the
\* group (generateProofWithNonce, SolidityPrecalculations, VerifyVRFProof), for any keys,
\* seeds and hashes, any field and any group of points as CurveAssumption has them.
THEOREM ProofsAreRight == VrfSpec => []ProofsAreAccepted
<1>1. VrfInv => ProofsAreAccepted
  BY WitnessesOfProven DEF VrfInv, ProofsAreAccepted
<1> QED
  BY <1>1, VrfInvInit, VrfInvNext, PTL DEF VrfSpec
=============================================================================
