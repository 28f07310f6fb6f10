------------------------- MODULE LogBroadcasterProofs -------------------------
(****************************************************************************)
(* Proofs about LogBroadcaster, for any number of contracts, listeners,     *)
(* blocks and logs, and any lost connections, restarts and crashes.         *)
(****************************************************************************)
EXTENDS LogBroadcaster, SequenceTheorems, TLAPS

----------------------------------------------------------------------------
(* The inductive invariant.                                                 *)

Cursors == [initialized : BOOLEAN, block : Int, log : Int]

Typed ==
    /\ TypeOK
    /\ blocks \in Seq(Seq(Addresses))
    /\ saved \in Cursors /\ cursor \in Cursors
    /\ stream \in Int \X Int
    /\ since \in [Listeners -> {None} \cup (Int \X Int)]
    /\ pc \in [Listeners -> {"new", "register", "running", "unregister", "gone"}]
    /\ queue \in [Listeners -> Seq(Int \X Int)]
    /\ got \in [Listeners -> Seq(Int \X Int)]

\* No cursor is ahead of the chain, and one that has not been initialised is before
\* every block.
CursorIsSound(c) ==
    /\ c.block <= Len(blocks)
    /\ c.log >= 0
    /\ ~c.initialized => c.block = 0

\* Between two logs the subscription is at the cursor or, having just been made,
\* before it; the log at hand is one that has not been seen.
StreamIsSound ==
    /\ stream[1] <= Len(blocks)
    /\ at = "process" => ~Before(Position, stream)
    /\ at = "deliver" => stream \in Logs /\ ~Seen(stream)

\* Nobody registers before the broadcaster's goroutine runs, and who is not
\* registered has nothing.
OutsidersHaveNone ==
    /\ at \in {"off", "height", "dead"} => registered = {}
    /\ \A l \in Listeners \ registered : since[l] = None /\ got[l] = <<>>

CoveredIsSubscribed == \A l \in registered : since[l] # None => AddressOf[l] \in subscribed

\* Is the broadcaster past log p, as far as listener l is concerned?
Past(l, p) ==
    \/ Seen(p)
    \/ at = "deliver" /\ (Before(p, stream) \/ (p = stream /\ l \notin left))

\* What a listener has been given the broadcaster has seen, but for the log at hand.
GivenIsPast ==
    \A l \in Listeners : \A j \in DOMAIN got[l] :
        Seen(got[l][j]) \/ (at = "deliver" /\ l \notin left /\ got[l][j] = stream)

\* What the broadcaster is past has been given to the listener.
PastIsGiven ==
    \A l \in registered \ stopped :
        since[l] # None => \A p \in Logs :
            Address(p) = AddressOf[l] /\ Before(since[l], p) /\ Past(l, p) => p \in ToSet(got[l])

IInv ==
    /\ Typed
    /\ CursorIsSound(saved) /\ CursorIsSound(cursor)
    /\ StreamIsSound /\ OutsidersHaveNone /\ CoveredIsSubscribed
    /\ GivenIsPast /\ InOrderOnce /\ PastIsGiven

----------------------------------------------------------------------------
(* The order of the logs.                                                   *)

LEMMA BeforeIsOrder ==
    ASSUME NEW p \in Int \X Int, NEW q \in Int \X Int
    PROVE  /\ ~Before(p, p)
           /\ Before(p, q) => ~Before(q, p)
           /\ Before(p, q) \/ Before(q, p) \/ p = q
           /\ \A r \in Int \X Int : /\ Before(p, q) /\ Before(q, r) => Before(p, r)
                                    /\ ~Before(q, p) /\ Before(q, r) => Before(p, r)
                                    /\ Before(p, q) /\ ~Before(r, q) => Before(p, r)
                                    /\ ~Before(q, p) /\ ~Before(r, q) => ~Before(r, p)
BY DEF Before

\* The logs, before a step and after it.
LEMMA LogsAre ==
    ASSUME NEW p
    PROVE  /\ p \in Logs <=> \E b \in DOMAIN blocks : \E i \in 0 .. Len(blocks[b]) - 1 : p = <<b, i>>
           /\ p \in Logs' <=> \E b \in DOMAIN blocks' : \E i \in 0 .. Len(blocks'[b]) - 1 : p = <<b, i>>
           /\ blocks' = blocks => (p \in Logs' <=> p \in Logs)
<1>1. p \in Logs <=> \E b \in DOMAIN blocks : \E i \in 0 .. Len(blocks[b]) - 1 : p = <<b, i>>
  BY DEF Logs
<1>2. p \in Logs' <=> \E b \in DOMAIN blocks' : \E i \in 0 .. Len(blocks'[b]) - 1 : p = <<b, i>>
  BY DEF Logs
<1>3. ASSUME blocks' = blocks
      PROVE  (\E b \in DOMAIN blocks' : \E i \in 0 .. Len(blocks'[b]) - 1 : p = <<b, i>>)
                <=> (\E b \in DOMAIN blocks : \E i \in 0 .. Len(blocks[b]) - 1 : p = <<b, i>>)
  BY <1>3
<1> QED
  BY <1>1, <1>2, <1>3, Zenon

LEMMA LogsAreTyped ==
    ASSUME NEW p, blocks \in Seq(Seq(Addresses))
    PROVE  p \in Logs <=> /\ p \in Int \X Int
                          /\ p[1] \in 1 .. Len(blocks)
                          /\ p[2] \in 0 .. Len(blocks[p[1]]) - 1
<1>1. DOMAIN blocks = 1 .. Len(blocks) /\ Len(blocks) \in Nat
  BY LenProperties
<1>2. \A b \in 1 .. Len(blocks) : Len(blocks[b]) \in Nat
  BY ElementOfSeq, LenProperties
<1>3. p \in Logs <=> \E b \in DOMAIN blocks : \E i \in 0 .. Len(blocks[b]) - 1 : p = <<b, i>>
  BY LogsAre
<1> QED
  BY <1>1, <1>2, <1>3

\* The cursor and what is seen, over pairs.
CursorPosition == <<cursor.block, cursor.log>>

LEMMA CursorIsTyped ==
    ASSUME Typed
    PROVE  /\ CursorPosition \in Int \X Int /\ Position \in Int \X Int
           /\ cursor.initialized \in BOOLEAN
           /\ cursor.initialized => Position = CursorPosition
           /\ ~cursor.initialized => Position = <<cursor.block, -1>>
           /\ \A p : Seen(p) <=> cursor.initialized /\ ~Before(CursorPosition, p)
BY DEF Typed, Cursors, CursorPosition, Position, Seen

\* A log that is not after where the cursor is has been seen.
LEMMA NotAheadIsSeen ==
    ASSUME Typed, CursorIsSound(cursor), NEW p \in Logs, ~Before(Position, p)
    PROVE  Seen(p)
<1>1. p \in Int \X Int /\ p[1] >= 1 /\ p[2] >= 0
  BY LogsAreTyped, LenProperties DEF Typed
<1>2. CASE cursor.initialized
  BY <1>2, CursorIsTyped
<1>3. CASE ~cursor.initialized
  BY <1>1, <1>3, CursorIsTyped DEF CursorIsSound, Before
<1> QED
  BY <1>2, <1>3, CursorIsTyped

\* What is before a position that is not ahead of the cursor has been seen.
LEMMA BehindIsSeen ==
    ASSUME Typed, CursorIsSound(cursor), NEW p \in Logs, NEW s \in Int \X Int,
           ~Before(s, p), ~Before(Position, s)
    PROVE  Seen(p)
<1>1. p \in Int \X Int
  BY LogsAreTyped DEF Typed
<1>2. ~Before(Position, p)
  BY <1>1, BeforeIsOrder, CursorIsTyped
<1> QED
  BY <1>2, NotAheadIsSeen

LEMMA GivenIsTyped ==
    ASSUME Typed, NEW l \in Listeners
    PROVE  /\ Len(got[l]) \in Nat /\ DOMAIN got[l] = 1 .. Len(got[l])
           /\ \A j \in DOMAIN got[l] : got[l][j] \in Int \X Int
           /\ \A p : p \in ToSet(got[l]) <=> \E j \in DOMAIN got[l] : p = got[l][j]
<1>1. got[l] \in Seq(Int \X Int)
  BY DEF Typed
<1> QED
  BY <1>1, LenProperties, ElementOfSeq DEF ToSet

----------------------------------------------------------------------------
(* Types.                                                                   *)

At == {"off", "height", "subscribe", "retry", "process", "deliver", "done", "dead"}
Pc == {"new", "register", "running", "unregister", "gone"}

\* The steps that move no log and change no registration.
Quiet ==
    \/ Start \/ HeightFails \/ Stop \/ SubscribeFails \/ Retry \/ Resubscribe
    \/ SubscriptionBreaks \/ Stopped
    \/ \E l \in Listeners : Listen(l) \/ StopListener(l)
    \/ UNCHANGED vars

Kept == <<blocks, saved, cursor, registered, subscribed, stream, left, got, since>>

LEMMA QuietMovesNothing ==
    ASSUME Typed, Quiet
    PROVE  /\ UNCHANGED Kept
           /\ stopped \subseteq stopped'
           /\ \/ at' = at
              \/ at # "deliver" /\ at' \in At \ {"process", "deliver"}
           /\ at' \in {"off", "height", "dead"} => at \in {"off", "height", "dead"}
<1>1. ASSUME NEW l \in Listeners, Listen(l) \/ StopListener(l)
      PROVE  UNCHANGED <<Kept, at>> /\ stopped \subseteq stopped'
  BY <1>1, SMT DEF Listen, Register, Consume, Unregister, StopListener, Kept, broadcaster, listeners
<1>2. CASE Start \/ HeightFails \/ Stop \/ SubscribeFails
  BY <1>2 DEF Start, HeightFails, Stop, SubscribeFails, Kept, At, broadcaster, listeners
<1>3. CASE Retry \/ Resubscribe \/ SubscriptionBreaks \/ Stopped
  BY <1>3 DEF Retry, Resubscribe, SubscriptionBreaks, Stopped, Kept, At, listeners
<1>4. CASE UNCHANGED vars
  BY <1>4 DEF vars, Kept, broadcaster, listeners
<1> QED
  BY <1>1, <1>2, <1>3, <1>4 DEF Quiet

\* How far listeners have come, in the terms of the type invariant.
ListenersTyped ==
    /\ registered \subseteq Listeners /\ stopped \subseteq Listeners
    /\ pc \in [Listeners -> Pc]
    /\ queue \in [Listeners -> Seq(Int \X Int)]
    /\ \A l \in Listeners :
        /\ Len(queue[l]) <= Capacity
        /\ l \in registered => pc[l] \notin {"new", "register"} \cup (IF chStop THEN {} ELSE {"gone"})

BroadcasterTyped ==
    /\ at \in At
    /\ left \subseteq registered
    /\ left # {} => at = "deliver"
    /\ subscribed \subseteq Addresses
    /\ stream \in Int \X Int

HistoryTyped ==
    /\ since \in [Listeners -> {None} \cup (Int \X Int)]
    /\ got \in [Listeners -> Seq(Int \X Int)]

LEMMA TypedParts ==
    /\ Typed <=> /\ ListenersTyped /\ BroadcasterTyped /\ HistoryTyped
                 /\ blocks \in Seq(Seq(Addresses))
                 /\ saved \in Cursors /\ cursor \in Cursors
    /\ Typed' <=> /\ ListenersTyped' /\ BroadcasterTyped' /\ HistoryTyped'
                  /\ blocks' \in Seq(Seq(Addresses))
                  /\ saved' \in Cursors /\ cursor' \in Cursors
BY Zenon DEF Typed, TypeOK, ListenersTyped, BroadcasterTyped, HistoryTyped, At, Pc

LEMMA QuietKeepsTyped ==
    ASSUME Typed, Quiet
    PROVE  Typed'
<1>1. ListenersTyped /\ BroadcasterTyped /\ HistoryTyped
  BY TypedParts
<1>2. ListenersTyped'
  <2>1. ASSUME NEW l \in Listeners, Register(l) \/ Unregister(l)
        PROVE  ListenersTyped'
    <3>1. /\ pc' \in [Listeners -> Pc]
          /\ \A k \in Listeners : pc'[k] # pc[k] =>
                \/ pc[k] \in {"new", "register"}
                \/ pc'[k] = "unregister"
                \/ pc'[k] = "gone" /\ chStop
      BY <1>1, <2>1 DEF ListenersTyped, Register, Unregister, To, Pc
    <3>2. UNCHANGED <<registered, stopped, queue, chStop>>
      BY <2>1 DEF Register, Unregister, broadcaster
    <3> QED
      BY <1>1, <3>1, <3>2 DEF ListenersTyped
  <2>2. ASSUME NEW l \in Listeners, Consume(l)
        PROVE  ListenersTyped'
    <3>1. queue[l] \in Seq(Int \X Int) /\ queue[l] # <<>>
      BY <1>1, <2>2 DEF ListenersTyped, Consume
    <3>2. /\ Tail(queue[l]) \in Seq(Int \X Int) /\ Len(Tail(queue[l])) = Len(queue[l]) - 1
          /\ Len(queue[l]) \in Nat
      BY <3>1, HeadTailProperties, LenProperties
    <3>3. Len(queue[l]) <= Capacity /\ Capacity \in Nat
      BY <1>1, ConstantsAssumption DEF ListenersTyped
    <3>4. UNCHANGED <<registered, stopped, pc, chStop>> /\ queue' = [queue EXCEPT ![l] = Tail(queue[l])]
      BY <2>2 DEF Consume, broadcaster
    <3>5. Len(Tail(queue[l])) <= Capacity
      BY <3>2, <3>3
    <3> QED
      BY <1>1, <3>2, <3>4, <3>5 DEF ListenersTyped
  <2>3. ASSUME NEW l \in Listeners, StopListener(l)
        PROVE  ListenersTyped'
    BY <1>1, <2>3 DEF ListenersTyped, StopListener, broadcaster, listeners
  <2>4. CASE Stop
    BY <1>1, <2>4 DEF ListenersTyped, Stop, broadcaster, listeners
  <2>5. CASE Start \/ HeightFails \/ SubscribeFails \/ Retry \/ Resubscribe
             \/ SubscriptionBreaks \/ Stopped \/ UNCHANGED vars
    <3>1. UNCHANGED <<registered, stopped, pc, queue, chStop>>
      BY <2>5, SMT DEF Start, HeightFails, SubscribeFails, Retry, Resubscribe, SubscriptionBreaks,
         Stopped, vars, broadcaster, listeners
    <3> QED
      BY <1>1, <3>1, Zenon DEF ListenersTyped
  <2> QED
    BY <2>1, <2>2, <2>3, <2>4, <2>5 DEF Quiet, Listen
<1>3. BroadcasterTyped'
  BY <1>1, QuietMovesNothing DEF Kept, BroadcasterTyped
<1> QED
  BY <1>1, <1>2, <1>3, TypedParts, QuietMovesNothing DEF Kept, HistoryTyped, Typed

LEMMA UpdateIsTyped ==
    ASSUME NEW b \in Int, NEW g \in Int, UpdateLogCursor(b, g)
    PROVE  /\ cursor' \in Cursors /\ cursor'.initialized
           /\ cursor'.block = b /\ cursor'.log = g
           /\ saved' = cursor' \/ saved' = saved
<1>1. cursor' = [initialized |-> TRUE, block |-> b, log |-> g]
  BY DEF UpdateLogCursor
<1>2. cursor' \in Cursors
  BY <1>1 DEF Cursors
<1> QED
  BY <1>1, <1>2 DEF UpdateLogCursor

LEMMA MovesKeepTyped ==
    ASSUME Typed, Mine \/ BeginAt \/ Crash \/ CreateSubscription \/ LogHandled \/ ReceiveLog
    PROVE  Typed'
<1>1. ListenersTyped /\ BroadcasterTyped /\ HistoryTyped
  BY TypedParts
<1>2. Len(blocks) \in Nat /\ <<0, 0>> \in Int \X Int /\ NoCursor \in Cursors
  BY LenProperties DEF Typed, NoCursor, Cursors
<1>3. CASE Mine
  <2>1. PICK n \in Nat : \E logs \in [1 .. n -> Addresses] : blocks' = Append(blocks, logs)
    <3>1. PICK n \in 0 .. MaxLogs - Cardinality(Logs) :
            \E logs \in [1 .. n -> Addresses] : blocks' = Append(blocks, logs)
      BY <1>3 DEF Mine
    <3>2. n \in Nat
      OBVIOUS
    <3> QED
      BY <3>1, <3>2
  <2>2. PICK logs \in Seq(Addresses) : blocks' = Append(blocks, logs)
    BY <2>1 DEF Seq
  <2>3. blocks' \in Seq(Seq(Addresses))
    BY <2>2, AppendProperties DEF Typed
  <2>4. UNCHANGED <<chStop, saved, broadcaster, stopped, listeners, since>>
    BY <1>3 DEF Mine
  <2> QED
    BY <1>1, <2>3, <2>4, TypedParts, SMT
       DEF broadcaster, listeners, ListenersTyped, BroadcasterTyped, HistoryTyped
<1>4. CASE BeginAt
  <2>1. saved' \in Cursors /\ cursor' \in Cursors
    <3>1. PICK found \in {saved, NoCursor} :
            IF Len(blocks) > found.block THEN UpdateLogCursor(Len(blocks), 0)
            ELSE cursor' = found /\ UNCHANGED <<saved, faults>>
      BY <1>4 DEF BeginAt, FindLogCursor
    <3>2. found \in Cursors /\ saved \in Cursors
      BY <1>2, TypedParts
    <3>3. CASE UpdateLogCursor(Len(blocks), 0)
      BY <1>2, <3>2, <3>3, UpdateIsTyped
    <3>4. CASE cursor' = found /\ UNCHANGED saved
      BY <3>2, <3>4
    <3> QED
      BY <3>1, <3>3, <3>4
  <2>2. /\ at' \in At /\ left = {}
        /\ UNCHANGED <<blocks, chStop, registered, subscribed, stream, left, stopped, listeners, since>>
    BY <1>1, <1>4 DEF BeginAt, BroadcasterTyped, At
  <2> QED
    BY <1>1, <2>1, <2>2, TypedParts, SMT DEF listeners, ListenersTyped, BroadcasterTyped, HistoryTyped
<1>5. CASE Crash
  <2>1. <<>> \in Seq(Int \X Int) /\ Len(<<>>) <= Capacity
    BY EmptySeq, ConstantsAssumption
  <2>2. ListenersTyped'
    BY <1>5, <2>1 DEF Crash, ListenersTyped, Pc
  <2>3. BroadcasterTyped' /\ HistoryTyped'
    BY <1>2, <1>5, <2>1 DEF Crash, BroadcasterTyped, HistoryTyped, At
  <2> QED
    BY <1>2, <1>5, <2>2, <2>3, TypedParts DEF Crash
<1>6. CASE CreateSubscription
  <2>1. Position \in Int \X Int /\ <<cursor.block, -1>> \in Int \X Int
    BY CursorIsTyped, TypedParts DEF Cursors
  <2>2. subscribed' \subseteq Addresses
    BY <1>1, <1>6, ConstantsAssumption DEF CreateSubscription, ListenersTyped
  <2>3. /\ at' \in At /\ left = {} /\ stream' = <<cursor.block, -1>>
        /\ UNCHANGED <<blocks, chStop, saved, cursor, registered, left, stopped, listeners>>
    BY <1>1, <1>6 DEF CreateSubscription, BroadcasterTyped, At
  <2>4. ListenersTyped' /\ BroadcasterTyped'
    BY <1>1, <2>1, <2>2, <2>3, SMT DEF listeners, ListenersTyped, BroadcasterTyped
  <2>5. HistoryTyped'
    BY <1>1, <1>6, <2>1, <2>3, SMT DEF CreateSubscription, listeners, HistoryTyped
  <2> QED
    BY <2>3, <2>4, <2>5, TypedParts
<1>7. CASE LogHandled
  <2>1. cursor' \in Cursors /\ saved' \in Cursors
    <3>1. stream[1] \in Int /\ stream[2] \in Int /\ UpdateLogCursor(stream[1], stream[2])
      BY <1>1, <1>7 DEF LogHandled, BroadcasterTyped
    <3> QED
      BY <3>1, UpdateIsTyped, TypedParts
  <2>2. /\ at' \in At /\ left = {}
        /\ UNCHANGED <<blocks, chStop, registered, subscribed, stream, left, stopped, listeners, since>>
    BY <1>7 DEF LogHandled, At
  <2> QED
    BY <1>1, <2>1, <2>2, TypedParts, SMT DEF listeners, ListenersTyped, BroadcasterTyped, HistoryTyped
<1>8. CASE ReceiveLog
  <2>1. PICK p \in Logs : stream' = p
    BY <1>8 DEF ReceiveLog
  <2>2. p \in Int \X Int
    BY <2>1, LogsAreTyped, TypedParts
  <2>3. /\ UNCHANGED <<blocks, chStop, saved, cursor, registered, subscribed, stopped, listeners, since>>
        /\ at' \in At /\ left' \subseteq registered /\ (left' # {} => at' = "deliver")
    BY <1>1, <1>8 DEF ReceiveLog, BroadcasterTyped, At
  <2> QED
    BY <1>1, <2>1, <2>2, <2>3, TypedParts, SMT DEF listeners, ListenersTyped, BroadcasterTyped, HistoryTyped
<1> QED
  BY <1>3, <1>4, <1>5, <1>6, <1>7, <1>8

LEMMA ProcessKeepsTyped ==
    ASSUME Typed, NEW l \in Listeners,
           HandleLog(l) \/ AddListener(l) \/ RemoveListener(l)
    PROVE  Typed'
<1>1. ListenersTyped /\ BroadcasterTyped /\ HistoryTyped
  BY TypedParts
<1>2. CASE HandleLog(l)
  <2>1. queue[l] \in Seq(Int \X Int) /\ got[l] \in Seq(Int \X Int) /\ stream \in Int \X Int
    BY <1>1 DEF ListenersTyped, BroadcasterTyped, HistoryTyped
  <2>2. /\ Append(queue[l], stream) \in Seq(Int \X Int)
        /\ Len(Append(queue[l], stream)) = Len(queue[l]) + 1
        /\ Append(got[l], stream) \in Seq(Int \X Int)
        /\ Len(queue[l]) \in Nat /\ Capacity \in Nat
    BY <2>1, AppendProperties, LenProperties, ConstantsAssumption
  <2>3. /\ UNCHANGED <<blocks, chStop, saved, at, cursor, registered, subscribed, stream, stopped, pc, since>>
        /\ left' = left \ {l} /\ l \in left
    BY <1>2 DEF HandleLog
  <2>4. ListenersTyped'
    <3>1. CASE UNCHANGED queue
      BY <1>1, <2>3, <3>1, SMT DEF ListenersTyped
    <3>2. CASE Len(queue[l]) < Capacity /\ queue' = [queue EXCEPT ![l] = Append(queue[l], stream)]
      BY <1>1, <2>2, <2>3, <3>2, SMT DEF ListenersTyped
    <3> QED
      BY <1>2, <3>1, <3>2 DEF HandleLog
  <2>5. HistoryTyped'
    BY <1>1, <1>2, <2>2, <2>3 DEF HandleLog, HistoryTyped
  <2>6. BroadcasterTyped'
    BY <1>1, <2>3 DEF BroadcasterTyped
  <2> QED
    BY <2>3, <2>4, <2>5, <2>6, TypedParts
<1>3. CASE AddListener(l)
  <2>1. Position \in Int \X Int
    BY CursorIsTyped
  <2>2. ListenersTyped'
    BY <1>1, <1>3, SMT DEF AddListener, ListenersTyped, Pc
  <2>3. BroadcasterTyped' /\ HistoryTyped'
    BY <1>1, <1>3, <2>1, SMT DEF AddListener, BroadcasterTyped, HistoryTyped
  <2> QED
    BY <1>3, <2>2, <2>3, TypedParts DEF AddListener
<1>4. CASE RemoveListener(l)
  <2>1. <<>> \in Seq(Int \X Int) /\ Len(<<>>) <= Capacity
    BY EmptySeq, ConstantsAssumption
  <2>2. ListenersTyped'
    BY <1>1, <1>4, <2>1, SMT DEF RemoveListener, ListenersTyped, Pc
  <2>3. BroadcasterTyped' /\ HistoryTyped'
    BY <1>1, <1>4, <2>1, SMT DEF RemoveListener, BroadcasterTyped, HistoryTyped
  <2> QED
    BY <1>4, <2>2, <2>3, TypedParts DEF RemoveListener
<1> QED
  BY <1>2, <1>3, <1>4

----------------------------------------------------------------------------
(* The invariant.                                                           *)

LEMMA QuietKeepsInv ==
    ASSUME IInv, Quiet
    PROVE  IInv'
<1>1. /\ UNCHANGED Kept
      /\ stopped \subseteq stopped'
      /\ \/ at' = at
         \/ at # "deliver" /\ at' \in At \ {"process", "deliver"}
      /\ at' \in {"off", "height", "dead"} => at \in {"off", "height", "dead"}
  BY QuietMovesNothing DEF IInv
<1>2. /\ Typed'
      /\ CursorIsSound(saved)' /\ CursorIsSound(cursor)'
      /\ OutsidersHaveNone' /\ CoveredIsSubscribed' /\ InOrderOnce'
  BY <1>1, QuietKeepsTyped DEF IInv, CursorIsSound, OutsidersHaveNone, CoveredIsSubscribed,
     InOrderOnce, Kept
<1>3. \A p : (Seen(p) <=> Seen(p)') /\ (Address(p)' = Address(p)) /\ (p \in Logs <=> p \in Logs')
  BY <1>1, LogsAre, Zenon DEF Seen, Address, Kept
<1>4. StreamIsSound'
  <2>1. UNCHANGED <<blocks, cursor, stream>>
    BY <1>1 DEF Kept
  <2>2. (at' = "process" => at = "process") /\ (at' = "deliver" => at = "deliver")
    BY <1>1 DEF At
  <2>3. Position' = Position
    BY <2>1 DEF Position
  <2>4. Seen(stream)' <=> Seen(stream)
    BY <2>1, Zenon DEF Seen
  <2>5. stream \in Logs' <=> stream \in Logs
    BY <2>1, LogsAre
  <2> QED
    BY <2>1, <2>2, <2>3, <2>4, <2>5 DEF IInv, StreamIsSound
<1>5. GivenIsPast'
  <2> SUFFICES ASSUME NEW l \in Listeners, NEW j \in DOMAIN got[l], got' = got
               PROVE  Seen(got[l][j])' \/ (at' = "deliver" /\ l \notin left' /\ got[l][j] = stream')
    BY <1>1, Zenon DEF GivenIsPast, Kept
  <2>1. Seen(got[l][j]) \/ (at = "deliver" /\ l \notin left /\ got[l][j] = stream)
    BY DEF IInv, GivenIsPast
  <2>2. Seen(got[l][j])' <=> Seen(got[l][j])
    BY <1>1, Zenon DEF Seen, Kept
  <2>3. UNCHANGED <<left, stream>>
    BY <1>1 DEF Kept
  <2> QED
    BY <1>1, <2>1, <2>2, <2>3
<1>6. PastIsGiven'
  <2> SUFFICES ASSUME NEW l \in registered' \ stopped', since'[l] # None, NEW p \in Logs',
                      Address(p)' = AddressOf[l], Before(since'[l], p), Past(l, p)'
               PROVE  p \in ToSet(got'[l])
    BY DEF PastIsGiven
  <2>1. l \in registered \ stopped /\ since'[l] = since[l] /\ got'[l] = got[l]
    BY <1>1 DEF Kept
  <2>2. p \in Logs /\ Address(p) = AddressOf[l]
    BY <1>3
  <2>3. Past(l, p)
    BY <1>1, <1>3 DEF Past, Kept
  <2> QED
    BY <2>1, <2>2, <2>3 DEF IInv, PastIsGiven
<1> QED
  BY <1>2, <1>4, <1>5, <1>6 DEF IInv

\* A log that the chain already has stays where it is, and nothing that is known is
\* ahead of it.
LEMMA MineKeepsInv ==
    ASSUME IInv, Mine
    PROVE  IInv'
<1>1. Typed /\ Typed'
  BY MovesKeepTyped DEF IInv
<1>2. PICK logs : blocks' = Append(blocks, logs)
  BY DEF Mine
<1>3. UNCHANGED <<at, saved, cursor, registered, subscribed, stream, left, got, since, stopped>>
  BY DEF Mine, broadcaster, listeners
<1>4. /\ Len(blocks) \in Nat /\ Len(blocks') = Len(blocks) + 1
      /\ \A b \in 1 .. Len(blocks) : blocks'[b] = blocks[b]
  <2>1. blocks \in Seq(Seq(Addresses)) /\ blocks' \in Seq(Seq(Addresses))
    BY <1>1 DEF Typed
  <2>2. DOMAIN blocks' = 1 .. Len(blocks) + 1
    BY <1>2, <2>1, LenProperties
  <2> QED
    BY <1>2, <2>1, <2>2, LenProperties
<1>5. \A p : p \in Logs' /\ p[1] <= Len(blocks) => p \in Logs /\ Address(p)' = Address(p)
  <2> SUFFICES ASSUME NEW p, p \in Logs', p[1] <= Len(blocks)
               PROVE  p \in Logs /\ Address(p)' = Address(p)
    OBVIOUS
  <2>1. \E b \in DOMAIN blocks' : \E i \in 0 .. Len(blocks'[b]) - 1 : p = <<b, i>>
    BY LogsAre
  <2>2. blocks' \in Seq(Seq(Addresses)) /\ blocks \in Seq(Seq(Addresses))
    BY <1>1 DEF Typed
  <2>3. DOMAIN blocks' = 1 .. Len(blocks) + 1 /\ DOMAIN blocks = 1 .. Len(blocks)
    BY <1>4, <2>2, LenProperties
  <2>4. p[1] \in DOMAIN blocks /\ blocks'[p[1]] = blocks[p[1]]
    BY <1>4, <2>1, <2>3
  <2> QED
    BY <2>1, <2>4, LogsAre DEF Address
<1>6. \A p \in Logs : p \in Logs'
  <2>1. blocks' \in Seq(Seq(Addresses)) /\ blocks \in Seq(Seq(Addresses))
    BY <1>1 DEF Typed
  <2>2. DOMAIN blocks' = 1 .. Len(blocks) + 1 /\ DOMAIN blocks = 1 .. Len(blocks)
    BY <1>4, <2>1, LenProperties
  <2>3. DOMAIN blocks \subseteq DOMAIN blocks' /\ \A b \in DOMAIN blocks : blocks'[b] = blocks[b]
    BY <1>4, <2>2
  <2> QED
    BY <2>3, LogsAre
<1>7. \A p : Seen(p)' <=> Seen(p)
  BY <1>3, Zenon DEF Seen
<1>8. /\ CursorIsSound(saved)' /\ CursorIsSound(cursor)'
      /\ OutsidersHaveNone' /\ CoveredIsSubscribed' /\ InOrderOnce'
  <2>1. saved.block \in Int /\ cursor.block \in Int
    BY <1>1 DEF Typed, Cursors
  <2> QED
    BY <1>3, <1>4, <2>1 DEF IInv, CursorIsSound, OutsidersHaveNone, CoveredIsSubscribed, InOrderOnce
<1>9. StreamIsSound'
  <2>1. stream[1] \in Int
    BY <1>1 DEF Typed
  <2>2. Position' = Position
    BY <1>3 DEF Position
  <2>3. Seen(stream)' <=> Seen(stream)
    BY <1>3, Zenon DEF Seen
  <2> QED
    BY <1>3, <1>4, <1>6, <2>1, <2>2, <2>3 DEF IInv, StreamIsSound
<1>10. GivenIsPast'
  <2> SUFFICES ASSUME NEW l \in Listeners, NEW j \in DOMAIN got[l]
               PROVE  Seen(got[l][j])' \/ (at = "deliver" /\ l \notin left /\ got[l][j] = stream)
    BY <1>3, Zenon DEF GivenIsPast
  <2>1. Seen(got[l][j])' <=> Seen(got[l][j])
    BY <1>3, Zenon DEF Seen
  <2> QED
    BY <2>1 DEF IInv, GivenIsPast
<1>11. PastIsGiven'
  <2> SUFFICES ASSUME NEW l \in registered \ stopped, since[l] # None, NEW p \in Logs',
                      Address(p)' = AddressOf[l], Before(since[l], p), Past(l, p)'
               PROVE  p \in ToSet(got[l])
    BY <1>3, Zenon DEF PastIsGiven
  <2>1. Past(l, p)
    BY <1>3, <1>7 DEF Past
  <2>2. p \in Int \X Int /\ stream \in Int \X Int
    <3>1. PICK b \in DOMAIN blocks' : \E i \in 0 .. Len(blocks'[b]) - 1 : p = <<b, i>>
      BY LogsAre
    <3>2. blocks' \in Seq(Seq(Addresses)) /\ stream \in Int \X Int
      BY <1>1 DEF Typed
    <3>3. b \in Int
      BY <3>2, LenProperties
    <3> QED
      BY <3>1, <3>2, <3>3
  <2>3. p[1] <= Len(blocks)
    <3>1. CASE Seen(p)
      <4>1. CursorPosition \in Int \X Int /\ ~Before(CursorPosition, p) /\ cursor.block <= Len(blocks)
        BY <1>1, <3>1, CursorIsTyped DEF IInv, CursorIsSound
      <4> QED
        BY <1>4, <2>2, <4>1 DEF Before, CursorPosition
    <3>2. CASE Before(p, stream) \/ p = stream
      BY <1>4, <2>2, <3>2 DEF IInv, StreamIsSound, Before
    <3> QED
      BY <2>1, <3>1, <3>2 DEF Past
  <2> QED
    BY <1>5, <2>1, <2>3 DEF IInv, PastIsGiven
<1> QED
  BY <1>1, <1>8, <1>9, <1>10, <1>11 DEF IInv

LEMMA EmptyIsGivenNothing ==
    ASSUME NEW got_, NEW l, got_[l] = <<>>
    PROVE  DOMAIN got_[l] = {}
BY LenProperties, EmptySeq

\* Before it begins, the broadcaster has no listeners that could lose a log.
LEMMA BeginAtKeepsInv ==
    ASSUME IInv, BeginAt
    PROVE  IInv'
<1>1. Typed /\ Typed'
  BY MovesKeepTyped DEF IInv
<1>2. at = "height" /\ at' = "subscribe" /\ registered = {} /\ Len(blocks) \in Nat
  BY <1>1, LenProperties DEF BeginAt, IInv, OutsidersHaveNone, Typed
<1>3. UNCHANGED <<blocks, registered, subscribed, stream, left, stopped, got, since>>
  BY DEF BeginAt, listeners
<1>4. CursorIsSound(saved)' /\ CursorIsSound(cursor)'
  <2>1. PICK found \in {saved, NoCursor} :
          IF Len(blocks) > found.block THEN UpdateLogCursor(Len(blocks), 0)
          ELSE cursor' = found /\ UNCHANGED <<saved, faults>>
    BY DEF BeginAt, FindLogCursor
  <2>2. CASE UpdateLogCursor(Len(blocks), 0)
    BY <1>2, <1>3, <2>2, UpdateIsTyped DEF IInv, CursorIsSound
  <2>3. CASE cursor' = found /\ UNCHANGED saved
    BY <1>2, <1>3, <2>3 DEF IInv, CursorIsSound, NoCursor
  <2> QED
    BY <2>1, <2>2, <2>3
<1>5. \A l \in Listeners : got[l] = <<>> /\ DOMAIN got[l] = {}
  BY <1>2, EmptyIsGivenNothing DEF IInv, OutsidersHaveNone
<1> QED
  BY <1>1, <1>2, <1>3, <1>4, <1>5 DEF IInv, StreamIsSound, OutsidersHaveNone, CoveredIsSubscribed,
     GivenIsPast, InOrderOnce, PastIsGiven

LEMMA CrashKeepsInv ==
    ASSUME IInv, Crash
    PROVE  IInv'
<1>1. Typed /\ Typed'
  BY MovesKeepTyped DEF IInv
<1>2. /\ at' = "off" /\ cursor' = NoCursor /\ registered' = {}
      /\ stream' = <<0, 0>> /\ UNCHANGED <<blocks, saved>>
      /\ since' = [l \in Listeners |-> None] /\ got' = [l \in Listeners |-> <<>>]
  BY DEF Crash
<1>3. Len(blocks) \in Nat
  BY <1>1, LenProperties DEF Typed
<1>4. CursorIsSound(saved)' /\ CursorIsSound(cursor)' /\ StreamIsSound'
  BY <1>2, <1>3 DEF IInv, CursorIsSound, NoCursor, StreamIsSound
<1>5. \A l \in Listeners : got'[l] = <<>> /\ DOMAIN got'[l] = {}
  BY <1>2, EmptyIsGivenNothing
<1> QED
  BY <1>1, <1>2, <1>4, <1>5 DEF IInv, OutsidersHaveNone, CoveredIsSubscribed,
     GivenIsPast, InOrderOnce, PastIsGiven

\* The new subscription begins before the cursor and covers all listeners; those that
\* are covered for the first time begin where the cursor is.
LEMMA CreateSubscriptionKeepsInv ==
    ASSUME IInv, CreateSubscription
    PROVE  IInv'
<1>1. Typed /\ Typed'
  BY MovesKeepTyped DEF IInv
<1>2. /\ at = "subscribe" /\ at' = "process" /\ stream' = <<cursor.block, -1>>
      /\ subscribed' = {AddressOf[l] : l \in registered}
      /\ since' = [l \in Listeners |->
            IF l \in registered /\ since[l] = None THEN Position ELSE since[l]]
      /\ UNCHANGED <<blocks, saved, cursor, registered, left, stopped, got>>
  BY DEF CreateSubscription, listeners
<1>3. /\ registered \subseteq Listeners
      /\ cursor.block \in Int /\ cursor.log \in Int /\ cursor.block <= Len(blocks)
  BY <1>1 DEF IInv, Typed, TypeOK, Cursors, CursorIsSound
<1>4. /\ CursorIsSound(saved)' /\ CursorIsSound(cursor)' /\ CoveredIsSubscribed' /\ InOrderOnce'
      /\ OutsidersHaveNone'
  BY <1>2, <1>3 DEF IInv, CursorIsSound, CoveredIsSubscribed, InOrderOnce, OutsidersHaveNone
<1>5. \A p : (Seen(p)' <=> Seen(p)) /\ (p \in Logs' <=> p \in Logs) /\ Address(p)' = Address(p)
  BY <1>2, LogsAre, Zenon DEF Seen, Address
<1>6. StreamIsSound'
  <2>1. ~Before(Position, <<cursor.block, -1>>)
    <3>1. CASE cursor.initialized
      <4>1. cursor.log >= 0
        BY DEF IInv, CursorIsSound
      <4> QED
        BY <1>1, <1>3, <3>1, <4>1, CursorIsTyped DEF Before, CursorPosition
    <3>2. CASE ~cursor.initialized
      BY <1>1, <1>3, <3>2, CursorIsTyped DEF Before
    <3> QED
      BY <3>1, <3>2
  <2>2. Position' = Position
    BY <1>2 DEF Position
  <2> QED
    BY <1>2, <1>3, <2>1, <2>2 DEF StreamIsSound
<1>7. GivenIsPast'
  <2> SUFFICES ASSUME NEW l \in Listeners, NEW j \in DOMAIN got[l]
               PROVE  Seen(got[l][j])'
    BY <1>2, Zenon DEF GivenIsPast
  <2>1. Seen(got[l][j])' <=> Seen(got[l][j])
    BY <1>2, Zenon DEF Seen
  <2> QED
    BY <1>2, <2>1 DEF IInv, GivenIsPast
<1>8. PastIsGiven'
  <2> SUFFICES ASSUME NEW l \in registered \ stopped, NEW p \in Logs',
                      Address(p)' = AddressOf[l], Before(since'[l], p), Past(l, p)'
               PROVE  p \in ToSet(got[l])
    BY <1>2, Zenon DEF PastIsGiven
  <2>1. p \in Logs /\ Seen(p)
    BY <1>2, <1>5 DEF Past
  <2>2. p \in Int \X Int
    BY <1>1, <2>1, LogsAreTyped DEF Typed
  <2>3. CASE since[l] = None
    <3>1. since'[l] = Position
      BY <1>2, <1>3, <2>3
    <3> QED
      BY <1>1, <2>1, <3>1, CursorIsTyped
  <2>4. CASE since[l] # None
    BY <1>2, <1>3, <1>5, <2>1, <2>4 DEF IInv, PastIsGiven, Past
  <2> QED
    BY <2>3, <2>4
<1> QED
  BY <1>1, <1>4, <1>6, <1>7, <1>8 DEF IInv

\* The next log is after all that the broadcaster is past, and all that is before it is
\* among that, for a listener that the subscription covers.
LEMMA ReceiveLogKeepsInv ==
    ASSUME IInv, Typed', ReceiveLog
    PROVE  IInv'
<1>1. PICK p \in Logs :
        /\ IsNext(p)
        /\ stream' = p
        /\ IF Seen(p) THEN UNCHANGED <<at, left>>
           ELSE at' = "deliver" /\ left' = {l \in registered : AddressOf[l] = Address(p)}
  BY DEF ReceiveLog
<1>2. /\ at = "process" /\ left = {}
      /\ UNCHANGED <<blocks, saved, cursor, registered, subscribed, stopped, got, since>>
  BY DEF ReceiveLog, IInv, Typed, TypeOK, listeners
<1>3. /\ Typed /\ registered \subseteq Listeners
      /\ CursorPosition \in Int \X Int /\ Position \in Int \X Int
      /\ p \in Int \X Int /\ p[1] <= Len(blocks) /\ stream \in Int \X Int
  <2>1. /\ Typed /\ blocks \in Seq(Seq(Addresses)) /\ stream \in Int \X Int
        /\ registered \subseteq Listeners
    BY DEF IInv, Typed, TypeOK
  <2>2. p \in Int \X Int /\ p[1] \in 1 .. Len(blocks) /\ Len(blocks) \in Nat
    BY <2>1, LogsAreTyped, LenProperties
  <2> QED
    BY <2>1, <2>2, CursorIsTyped
<1>4. \A q : (Seen(q)' <=> Seen(q)) /\ (q \in Logs' <=> q \in Logs) /\ Address(q)' = Address(q)
  BY <1>2, LogsAre, Zenon DEF Seen, Address
<1>5. /\ CursorIsSound(saved)' /\ CursorIsSound(cursor)' /\ CoveredIsSubscribed' /\ InOrderOnce'
      /\ OutsidersHaveNone'
  BY <1>1, <1>2 DEF IInv, CursorIsSound, CoveredIsSubscribed, InOrderOnce, OutsidersHaveNone
<1>6. StreamIsSound'
  <2>1. Seen(stream)' <=> Seen(p)
    BY <1>1, <1>2, Zenon DEF Seen
  <2>2. Position' = Position
    BY <1>2 DEF Position
  <2>3. Seen(p) => ~Before(Position, p)
    BY <1>3, CursorIsTyped
  <2>4. stream' \in Logs'
    BY <1>1, <1>4
  <2> QED
    BY <1>1, <1>2, <1>3, <2>1, <2>2, <2>3, <2>4 DEF StreamIsSound
<1>7. GivenIsPast'
  <2> SUFFICES ASSUME NEW l \in Listeners, NEW j \in DOMAIN got[l]
               PROVE  Seen(got[l][j])'
    BY <1>2, Zenon DEF GivenIsPast
  <2>1. Seen(got[l][j])' <=> Seen(got[l][j])
    BY <1>2, Zenon DEF Seen
  <2> QED
    BY <1>2, <2>1 DEF IInv, GivenIsPast
<1>8. PastIsGiven'
  <2> SUFFICES ASSUME NEW l \in registered \ stopped, since[l] # None, NEW q \in Logs,
                      Address(q) = AddressOf[l], Before(since[l], q), Past(l, q)'
               PROVE  q \in ToSet(got[l])
    BY <1>2, <1>4, Zenon DEF PastIsGiven
  <2>1. q \in Int \X Int
    BY <1>3, LogsAreTyped DEF Typed
  <2>2. Seen(q)
    <3>1. SUFFICES ASSUME ~Seen(q)
                   PROVE  FALSE
      OBVIOUS
    <3>2. ~Seen(p) /\ (Before(q, p) \/ (q = p /\ l \notin left'))
      BY <1>1, <1>2, <1>4, <3>1, Zenon DEF Past
    <3>3. q # p
      <4>1. l \in {k \in registered : AddressOf[k] = Address(q)}
        OBVIOUS
      <4> QED
        BY <1>1, <1>3, <3>2, <4>1, BeforeIsOrder
    <3>4. AddressOf[l] \in subscribed
      BY DEF IInv, CoveredIsSubscribed
    <3>5. ~Before(stream, q)
      BY <1>1, <3>2, <3>3, <3>4 DEF IsNext
    <3>6. ~Before(Position, stream)
      BY <1>2 DEF IInv, StreamIsSound
    <3> QED
      BY <1>3, <3>1, <3>5, <3>6, BehindIsSeen DEF IInv
  <2> QED
    BY <2>2 DEF IInv, PastIsGiven, Past
<1> QED
  BY <1>5, <1>6, <1>7, <1>8 DEF IInv

\* A listener is given the log at hand, which is after all that it has been given.
LEMMA HandleLogKeepsInv ==
    ASSUME IInv, Typed', NEW l \in Listeners, HandleLog(l)
    PROVE  IInv'
<1>1. /\ l \in left /\ left' = left \ {l}
      /\ UNCHANGED <<blocks, saved, at, cursor, registered, subscribed, stream, stopped, since>>
      /\ \/ got' = [got EXCEPT ![l] = Append(got[l], stream)]
         \/ l \in stopped /\ UNCHANGED got
  BY DEF HandleLog
<1>2. /\ Typed /\ at = "deliver" /\ l \in registered /\ ~Seen(stream)
      /\ CursorPosition \in Int \X Int /\ stream \in Int \X Int
  BY <1>1, CursorIsTyped DEF IInv, Typed, TypeOK, StreamIsSound
<1>3. \A q : (Seen(q)' <=> Seen(q)) /\ (q \in Logs' <=> q \in Logs) /\ Address(q)' = Address(q)
  BY <1>1, LogsAre, Zenon DEF Seen, Address
<1>4. \A k \in Listeners :
        /\ Len(got[k]) \in Nat /\ DOMAIN got[k] = 1 .. Len(got[k])
        /\ \A j \in DOMAIN got[k] : got[k][j] \in Int \X Int /\ got'[k][j] = got[k][j]
        /\ \/ got'[k] = got[k] /\ (k = l => l \in stopped)
           \/ /\ k = l /\ DOMAIN got'[l] = 1 .. Len(got[l]) + 1
              /\ got'[l][Len(got[l]) + 1] = stream
  <2> SUFFICES ASSUME NEW k \in Listeners
               PROVE  /\ Len(got[k]) \in Nat /\ DOMAIN got[k] = 1 .. Len(got[k])
                      /\ \A j \in DOMAIN got[k] : got[k][j] \in Int \X Int /\ got'[k][j] = got[k][j]
                      /\ \/ got'[k] = got[k] /\ (k = l => l \in stopped)
                         \/ /\ k = l /\ DOMAIN got'[l] = 1 .. Len(got[l]) + 1
                            /\ got'[l][Len(got[l]) + 1] = stream
    OBVIOUS
  <2>1. /\ Len(got[k]) \in Nat /\ DOMAIN got[k] = 1 .. Len(got[k])
        /\ \A j \in DOMAIN got[k] : got[k][j] \in Int \X Int
    BY <1>2, GivenIsTyped
  <2>2. CASE got'[k] = got[k] /\ (k = l => l \in stopped)
    BY <2>1, <2>2
  <2>3. CASE k = l /\ got' = [got EXCEPT ![l] = Append(got[l], stream)]
    <3>1. got[l] \in Seq(Int \X Int) /\ got'[l] = Append(got[l], stream)
      BY <1>2, <2>3 DEF Typed
    <3>2. /\ Append(got[l], stream) \in Seq(Int \X Int)
          /\ Len(Append(got[l], stream)) = Len(got[l]) + 1
          /\ \A j \in 1 .. Len(got[l]) : Append(got[l], stream)[j] = got[l][j]
          /\ Append(got[l], stream)[Len(got[l]) + 1] = stream
      BY <1>2, <3>1, AppendProperties
    <3>3. DOMAIN Append(got[l], stream) = 1 .. Len(got[l]) + 1
      BY <3>2, LenProperties
    <3> QED
      BY <2>1, <2>3, <3>1, <3>2, <3>3
  <2> QED
    BY <1>1, <1>2, <2>2, <2>3 DEF Typed
<1>5. CursorIsSound(saved)' /\ CursorIsSound(cursor)' /\ CoveredIsSubscribed' /\ OutsidersHaveNone'
  BY <1>1, <1>2, <1>4 DEF IInv, CursorIsSound, CoveredIsSubscribed, OutsidersHaveNone
<1>6. StreamIsSound'
  <2>1. (Seen(stream)' <=> Seen(stream)) /\ Position' = Position
    BY <1>1, Zenon DEF Seen, Position
  <2>2. stream \in Logs' <=> stream \in Logs
    BY <1>3
  <2> QED
    BY <1>1, <2>1, <2>2 DEF IInv, StreamIsSound
<1>7. \A k \in Listeners : \A j \in DOMAIN got'[k] :
        \/ j \in DOMAIN got[k] /\ got'[k][j] = got[k][j]
        \/ k = l /\ j = Len(got[l]) + 1 /\ got'[k][j] = stream
  BY <1>4
<1>8. GivenIsPast'
  <2> SUFFICES ASSUME NEW k \in Listeners, NEW j \in DOMAIN got'[k]
               PROVE  \E x : /\ x = got'[k][j]
                             /\ Seen(x)' \/ (at' = "deliver" /\ k \notin left' /\ x = stream')
    BY Zenon DEF GivenIsPast, Seen
  <2>1. CASE j \in DOMAIN got[k] /\ got'[k][j] = got[k][j]
    BY <1>1, <1>3, <2>1 DEF IInv, GivenIsPast
  <2>2. CASE k = l /\ got'[k][j] = stream
    BY <1>1, <1>2, <2>2
  <2> QED
    BY <1>7, <2>1, <2>2
<1>9. InOrderOnce'
  <2> SUFFICES ASSUME NEW k \in Listeners, NEW i \in DOMAIN got'[k], NEW j \in DOMAIN got'[k], i < j
               PROVE  Before(got'[k][i], got'[k][j])
    BY DEF InOrderOnce
  <2>1. CASE i \in DOMAIN got[k] /\ j \in DOMAIN got[k]
    BY <1>4, <2>1 DEF IInv, InOrderOnce
  <2>2. CASE k = l /\ i \in DOMAIN got[l] /\ got'[l][j] = stream
    <3>1. got'[l][i] = got[l][i] /\ got[l][i] \in Int \X Int
      BY <1>4, <2>2
    <3>2. Seen(got[l][i])
      BY <1>1, <2>2 DEF IInv, GivenIsPast
    <3>3. Before(got[l][i], stream)
      BY <1>2, <3>1, <3>2, CursorIsTyped, BeforeIsOrder
    <3> QED
      BY <2>2, <3>1, <3>3
  <2> QED
    BY <1>4, <1>7, <2>1, <2>2
<1>10. PastIsGiven'
  <2> SUFFICES ASSUME NEW k \in registered \ stopped, since[k] # None, NEW q \in Logs,
                      Address(q) = AddressOf[k], Before(since[k], q), Past(k, q)'
               PROVE  q \in ToSet(got'[k])
    BY <1>1, <1>3, Zenon DEF PastIsGiven
  <2>1. k \in Listeners
    BY <1>2 DEF Typed, TypeOK
  <2>2. CASE Past(k, q)
    <3>1. PICK j \in DOMAIN got[k] : q = got[k][j]
      BY <1>2, <2>1, <2>2, GivenIsTyped DEF IInv, PastIsGiven
    <3>2. j \in DOMAIN got'[k] /\ q = got'[k][j]
      BY <1>4, <2>1, <3>1
    <3> QED
      BY <3>2 DEF ToSet
  <2>3. CASE ~Past(k, q)
    <3>1. k = l /\ q = stream
      BY <1>1, <1>3, <2>3, Zenon DEF Past
    <3>2. Len(got[l]) + 1 \in DOMAIN got'[l] /\ got'[l][Len(got[l]) + 1] = stream
      BY <1>4, <3>1
    <3> QED
      BY <3>1, <3>2 DEF ToSet
  <2> QED
    BY <2>2, <2>3
<1> QED
  BY <1>5, <1>6, <1>8, <1>9, <1>10 DEF IInv

\* When all listeners have been given the log at hand, the cursor is moved to it.
LEMMA LogHandledKeepsInv ==
    ASSUME IInv, Typed', LogHandled
    PROVE  IInv'
<1>1. /\ at = "deliver" /\ left = {} /\ at' = "process" /\ UpdateLogCursor(stream[1], stream[2])
      /\ UNCHANGED <<blocks, registered, subscribed, stream, left, stopped, got, since>>
  BY DEF LogHandled, listeners
<1>2. /\ Typed /\ stream \in Logs /\ ~Seen(stream) /\ CursorPosition \in Int \X Int
      /\ stream \in Int \X Int /\ stream[1] <= Len(blocks) /\ stream[2] >= 0 /\ stream[2] \in Int
  <2>1. Typed /\ blocks \in Seq(Seq(Addresses)) /\ stream \in Logs /\ ~Seen(stream)
    BY <1>1 DEF IInv, Typed, StreamIsSound
  <2>2. stream \in Int \X Int /\ stream[1] \in 1 .. Len(blocks)
        /\ stream[2] \in 0 .. Len(blocks[stream[1]]) - 1
    BY <2>1, LogsAreTyped
  <2> QED
    BY <2>1, <2>2, CursorIsTyped
<1>3. /\ cursor'.initialized /\ cursor'.block = stream[1] /\ cursor'.log = stream[2]
      /\ saved' = cursor' \/ saved' = saved
  BY <1>1, <1>2, UpdateIsTyped
<1>4. CursorIsSound(saved)' /\ CursorIsSound(cursor)' /\ CoveredIsSubscribed' /\ OutsidersHaveNone'
      /\ InOrderOnce'
  BY <1>1, <1>2, <1>3 DEF IInv, CursorIsSound, CoveredIsSubscribed, OutsidersHaveNone, InOrderOnce
<1>5. <<cursor'.block, cursor'.log>> = stream
  BY <1>2, <1>3
<1>6. \A q : Seen(q)' <=> ~Before(stream, q)
  BY <1>3, <1>5 DEF Seen
<1>7. StreamIsSound'
  <2>1. Position' = stream
    BY <1>3, <1>5 DEF Position
  <2> QED
    BY <1>1, <1>2, <2>1, BeforeIsOrder DEF IInv, StreamIsSound
<1>8. GivenIsPast'
  <2> SUFFICES ASSUME NEW l \in Listeners, NEW j \in DOMAIN got[l]
               PROVE  \E x : x = got[l][j] /\ Seen(x)'
    BY <1>1, Zenon DEF GivenIsPast, Seen
  <2>1. got[l][j] \in Int \X Int
    BY <1>2, GivenIsTyped
  <2>2. CASE got[l][j] = stream
    BY <1>2, <1>6, <2>2, BeforeIsOrder
  <2>3. CASE Seen(got[l][j])
    BY <1>2, <1>6, <2>1, <2>3, CursorIsTyped, BeforeIsOrder
  <2> QED
    BY <2>2, <2>3 DEF IInv, GivenIsPast
<1>9. PastIsGiven'
  <2> SUFFICES ASSUME NEW l \in registered \ stopped, since[l] # None, NEW q \in Logs',
                      Address(q)' = AddressOf[l], Before(since[l], q), Past(l, q)'
               PROVE  q \in ToSet(got[l])
    BY <1>1, Zenon DEF PastIsGiven
  <2>1. q \in Logs /\ Address(q) = AddressOf[l]
    BY <1>1, LogsAre DEF Address
  <2>2. q \in Int \X Int
    BY <1>2, <2>1, LogsAreTyped DEF Typed
  <2>3. Before(q, stream) \/ q = stream
    BY <1>1, <1>2, <1>6, <2>2, BeforeIsOrder DEF Past
  <2>4. Past(l, q)
    BY <1>1, <2>3 DEF Past
  <2> QED
    BY <2>1, <2>4 DEF IInv, PastIsGiven
<1> QED
  BY <1>4, <1>7, <1>8, <1>9 DEF IInv

\* A new listener, when the subscription covers its address, begins at the cursor: the
\* broadcaster is past no log that is after it.
LEMMA AddListenerKeepsInv ==
    ASSUME IInv, Typed', NEW l \in Listeners, AddListener(l)
    PROVE  IInv'
<1>1. /\ at = "process" /\ at' = "process" /\ pc[l] = "register"
      /\ registered' = registered \cup {l}
      /\ since' = IF AddressOf[l] \in subscribed THEN [since EXCEPT ![l] = Position] ELSE since
      /\ UNCHANGED <<blocks, saved, cursor, subscribed, stream, left, stopped, got>>
  BY DEF AddListener
<1>2. /\ Typed /\ l \notin registered /\ registered \subseteq Listeners /\ since[l] = None
      /\ since \in [Listeners -> {None} \cup (Int \X Int)]
  BY <1>1 DEF IInv, Typed, TypeOK, OutsidersHaveNone
<1>3. \A k \in Listeners \ {l} : since'[k] = since[k]
  BY <1>1, <1>2
<1>4. /\ AddressOf[l] \in subscribed => since'[l] = Position
      /\ AddressOf[l] \notin subscribed => since'[l] = None
  BY <1>1, <1>2
<1>5. \A q : (Seen(q)' <=> Seen(q)) /\ (q \in Logs' <=> q \in Logs) /\ Address(q)' = Address(q)
  BY <1>1, LogsAre, Zenon DEF Seen, Address
<1>6. CursorIsSound(saved)' /\ CursorIsSound(cursor)' /\ InOrderOnce'
  BY <1>1 DEF IInv, CursorIsSound, InOrderOnce
<1>7. CoveredIsSubscribed' /\ OutsidersHaveNone'
  BY <1>1, <1>2, <1>3, <1>4 DEF IInv, CoveredIsSubscribed, OutsidersHaveNone
<1>8. StreamIsSound'
  <2>1. Position' = Position
    BY <1>1 DEF Position
  <2> QED
    BY <1>1, <2>1 DEF IInv, StreamIsSound
<1>9. GivenIsPast'
  <2> SUFFICES ASSUME NEW k \in Listeners, NEW j \in DOMAIN got[k]
               PROVE  Seen(got[k][j])'
    BY <1>1, Zenon DEF GivenIsPast
  <2>1. Seen(got[k][j])' <=> Seen(got[k][j])
    BY <1>1, Zenon DEF Seen
  <2> QED
    BY <1>1, <2>1 DEF IInv, GivenIsPast
<1>10. PastIsGiven'
  <2> SUFFICES ASSUME NEW k \in registered' \ stopped, since'[k] # None, NEW q \in Logs,
                      Address(q) = AddressOf[k], Before(since'[k], q), Past(k, q)'
               PROVE  q \in ToSet(got[k])
    BY <1>1, <1>5, Zenon DEF PastIsGiven
  <2>1. Seen(q)
    BY <1>1, <1>5 DEF Past
  <2>2. CASE k = l
    <3>1. Before(Position, q)
      BY <1>4, <2>2
    <3>2. q \in Int \X Int
      BY <1>2, LogsAreTyped DEF Typed
    <3> QED
      BY <1>2, <2>1, <3>1, <3>2, CursorIsTyped
  <2>3. CASE k # l
    <3>1. k \in registered \ stopped /\ since[k] # None /\ Before(since[k], q)
      BY <1>1, <1>2, <1>3, <2>3
    <3> QED
      BY <2>1, <3>1 DEF IInv, PastIsGiven, Past
  <2> QED
    BY <2>2, <2>3
<1> QED
  BY <1>6, <1>7, <1>8, <1>9, <1>10 DEF IInv

LEMMA RemoveListenerKeepsInv ==
    ASSUME IInv, Typed', NEW l \in Listeners, RemoveListener(l)
    PROVE  IInv'
<1>1. /\ at = "process" /\ at' = "process"
      /\ registered' = registered \ {l}
      /\ got' = [got EXCEPT ![l] = <<>>] /\ since' = [since EXCEPT ![l] = None]
      /\ UNCHANGED <<blocks, saved, cursor, subscribed, stream, left, stopped>>
  BY DEF RemoveListener
<1>2. /\ Typed /\ registered \subseteq Listeners
      /\ since \in [Listeners -> {None} \cup (Int \X Int)] /\ got \in [Listeners -> Seq(Int \X Int)]
  BY DEF IInv, Typed, TypeOK
<1>3. /\ \A k \in Listeners \ {l} : since'[k] = since[k] /\ got'[k] = got[k]
      /\ since'[l] = None /\ got'[l] = <<>> /\ DOMAIN got'[l] = {}
  <2>1. since'[l] = None /\ got'[l] = <<>>
    BY <1>1, <1>2
  <2>2. DOMAIN got'[l] = {}
    BY <2>1, EmptyIsGivenNothing
  <2> QED
    BY <1>1, <1>2, <2>1, <2>2
<1>4. \A q : (Seen(q)' <=> Seen(q)) /\ (q \in Logs' <=> q \in Logs) /\ Address(q)' = Address(q)
  BY <1>1, LogsAre, Zenon DEF Seen, Address
<1>5. CursorIsSound(saved)' /\ CursorIsSound(cursor)' /\ CoveredIsSubscribed' /\ OutsidersHaveNone'
  BY <1>1, <1>2, <1>3 DEF IInv, CursorIsSound, CoveredIsSubscribed, OutsidersHaveNone
<1>6. InOrderOnce'
  <2> SUFFICES ASSUME NEW k \in Listeners, NEW i \in DOMAIN got'[k], NEW j \in DOMAIN got'[k], i < j
               PROVE  Before(got'[k][i], got'[k][j])
    BY DEF InOrderOnce
  <2> QED
    BY <1>3 DEF IInv, InOrderOnce
<1>7. StreamIsSound'
  <2>1. Position' = Position
    BY <1>1 DEF Position
  <2> QED
    BY <1>1, <2>1 DEF IInv, StreamIsSound
<1>8. GivenIsPast'
  <2> SUFFICES ASSUME NEW k \in Listeners, NEW j \in DOMAIN got'[k]
               PROVE  \E x : x = got'[k][j] /\ Seen(x)'
    BY <1>1, Zenon DEF GivenIsPast, Seen
  <2>1. k # l /\ got'[k] = got[k]
    BY <1>3
  <2>2. Seen(got[k][j])
    BY <1>1, <2>1 DEF IInv, GivenIsPast
  <2> QED
    BY <1>4, <2>1, <2>2
<1>9. PastIsGiven'
  <2> SUFFICES ASSUME NEW k \in registered' \ stopped, since'[k] # None, NEW q \in Logs,
                      Address(q) = AddressOf[k], Before(since'[k], q), Past(k, q)'
               PROVE  q \in ToSet(got'[k])
    BY <1>1, <1>4, Zenon DEF PastIsGiven
  <2>1. Seen(q)
    BY <1>1, <1>4 DEF Past
  <2>2. k \in registered /\ since'[k] = since[k] /\ got'[k] = got[k]
    BY <1>1, <1>2, <1>3
  <2> QED
    BY <2>1, <2>2 DEF IInv, PastIsGiven, Past
<1> QED
  BY <1>5, <1>6, <1>7, <1>8, <1>9 DEF IInv

----------------------------------------------------------------------------
(* The theorems.                                                            *)

LEMMA InitIInv == Init => IInv
<1> SUFFICES ASSUME Init
             PROVE  IInv
  OBVIOUS
<1>1. <<>> \in Seq(Int \X Int) /\ <<>> \in Seq(Seq(Addresses)) /\ Len(<<>>) = 0 /\ 0 <= Capacity
  BY EmptySeq, ConstantsAssumption
<1>2. NoCursor \in Cursors /\ <<0, 0>> \in Int \X Int
  BY DEF NoCursor, Cursors
<1>3. TypeOK
  BY <1>1 DEF Init, TypeOK
<1>4. Typed
  BY <1>1, <1>2, <1>3 DEF Init, Typed
<1>5. CursorIsSound(saved) /\ CursorIsSound(cursor) /\ StreamIsSound /\ OutsidersHaveNone
  BY <1>1 DEF Init, CursorIsSound, NoCursor, StreamIsSound, OutsidersHaveNone
<1>6. \A l \in Listeners : DOMAIN got[l] = {}
  BY EmptyIsGivenNothing DEF Init
<1>7. CoveredIsSubscribed /\ GivenIsPast /\ InOrderOnce /\ PastIsGiven
  BY <1>6 DEF Init, CoveredIsSubscribed, GivenIsPast, InOrderOnce, PastIsGiven
<1> QED
  BY <1>4, <1>5, <1>7 DEF IInv

LEMMA NextKeepsIInv == IInv /\ [Next]_vars => IInv'
<1> SUFFICES ASSUME IInv, [Next]_vars
             PROVE  IInv'
  OBVIOUS
<1>1. CASE Quiet
  BY <1>1, QuietKeepsInv
<1>2. CASE Mine \/ BeginAt \/ Crash \/ CreateSubscription
  BY <1>2, MineKeepsInv, BeginAtKeepsInv, CrashKeepsInv, CreateSubscriptionKeepsInv
<1>3. CASE LogHandled
  BY <1>3, MovesKeepTyped, LogHandledKeepsInv DEF IInv
<1>4. CASE ReceiveLog
  BY <1>4, MovesKeepTyped, ReceiveLogKeepsInv DEF IInv
<1>5. ASSUME NEW l \in Listeners, HandleLog(l) \/ AddListener(l) \/ RemoveListener(l)
      PROVE  IInv'
  BY <1>5, ProcessKeepsTyped, HandleLogKeepsInv, AddListenerKeepsInv, RemoveListenerKeepsInv DEF IInv
<1> QED
  BY <1>1, <1>2, <1>3, <1>4, <1>5 DEF Next, Process, Quiet

LEMMA IInvHolds == Spec => []IInv
BY InitIInv, NextKeepsIInv, PTL DEF Spec

\* Every listener is given the logs of its contract once and in the order of the chain,
\* however often the subscription is made again from the cursor's block.
THEOREM LogsReachListenersOnceInOrder == Spec => []ListenersAgree
<1>1. IInv => ListenersAgree
  BY DEF IInv, Typed, ListenersAgree
<1> QED
  BY <1>1, IInvHolds, PTL

\* A log that the broadcaster is past, since it covers a listener, has reached it.
LEMMA NoneIsPassedFollows ==
    ASSUME IInv
    PROVE  NoneIsPassed
<1> SUFFICES ASSUME NEW l \in registered \ stopped, since[l] # None, NEW p \in Logs,
                    Address(p) = AddressOf[l], Before(since[l], p),
                    Seen(p) \/ (at = "process" /\ ~Before(stream, p))
             PROVE  p \in ToSet(got[l])
  BY DEF NoneIsPassed
<1>1. Seen(p)
  <2>1. SUFFICES ASSUME at = "process", ~Before(stream, p)
                 PROVE  Seen(p)
    OBVIOUS
  <2>2. stream \in Int \X Int /\ ~Before(Position, stream)
    BY <2>1 DEF IInv, Typed, StreamIsSound
  <2> QED
    BY <2>1, <2>2, BehindIsSeen DEF IInv
<1> QED
  BY <1>1 DEF IInv, PastIsGiven, Past

\* No log of a listener's contract is passed over, whatever subscriptions and
\* connections end, and whichever contracts are added and removed meanwhile.
THEOREM NoLogIsPassedOver == Spec => []NoneIsPassed
BY IInvHolds, NoneIsPassedFollows, PTL
=============================================================================
