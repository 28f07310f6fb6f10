----------------------------- MODULE LogBroadcaster -----------------------------
(****************************************************************************)
(* The log broadcaster (core/services/eth/log_broadcaster.go), which sends  *)
(* the logs of one subscription to the listeners of their contracts, keeps  *)
(* in the database how far it has come, and makes the subscription again    *)
(* when the contracts change or the connection is lost.                     *)
(*                                                                          *)
(* A listener is a goroutine of another service, such as a deviation        *)
(* checker, with a bounded channel: it registers, handles logs and, when it *)
(* is stopped, unregisters.  The Ethereum node is external; as FromBlock    *)
(* of the filter asks, a subscription starts with the logs of that block.   *)
(* OnConnect and OnDisconnect are left out here; what a deviation checker   *)
(* makes of them is in FluxMonitor.                                         *)
(****************************************************************************)
EXTENDS Integers, Sequences, FiniteSets, SequencesExt, FiniteSetsExt

CONSTANTS
    Addresses,   \* the contracts
    Listeners,
    AddressOf,   \* the contract that a listener registers for
    Capacity,    \* places in the channel of a listener (100 in a checker)
    MaxBlock,    \* bound on the blocks
    MaxLogs,     \* bound on the logs
    MaxFaults    \* bound on the failed calls, lost connections and crashes

ASSUME ConstantsAssumption ==
    /\ AddressOf \in [Listeners -> Addresses]
    /\ {MaxBlock, MaxLogs, MaxFaults} \subseteq Nat
    /\ Capacity \in Nat \ {0}

VARIABLES
    blocks,      \* the blocks, each with the addresses of its logs, by their index
    faults,      \* the failures so far
    at,          \* where the broadcaster's goroutine is
    chStop,      \* chStop is closed
    saved,       \* the cursor in the database
    cursor,      \* b.cursor
    registered,  \* b.listeners
    subscribed,  \* the addresses of the subscription
    stream,      \* the position of the last log that the node has sent
    resubscribe, \* needsResubscribe
    left,        \* the listeners that the log at hand is yet to be given to
    pc,          \* where each listener is
    stopped,     \* the listeners whose own chStop is closed
    queue,       \* the logs in the channel of a listener
    got,         \* history: the logs given to a listener
    since        \* history: the cursor when the subscription first covered a listener

broadcaster == <<at, cursor, registered, subscribed, stream, resubscribe, left>>
listeners == <<pc, queue, got>>
vars == <<blocks, faults, chStop, saved, broadcaster, stopped, listeners, since>>

None == <<>>
NoCursor == [initialized |-> FALSE, block |-> 0, log |-> 0]

\* Positions of logs, in their order.
Logs == UNION {{<<b, i>> : i \in 0 .. Len(blocks[b]) - 1} : b \in DOMAIN blocks}
Before(p, q) == p[1] < q[1] \/ (p[1] = q[1] /\ p[2] < q[2])
Address(p) == blocks[p[1]][p[2] + 1]

TypeOK ==
    /\ at \in {"off", "height", "subscribe", "retry", "process", "deliver", "done", "dead"}
    /\ registered \subseteq Listeners /\ stopped \subseteq Listeners
    /\ left \subseteq registered
    /\ left # {} => at = "deliver"
    /\ subscribed \subseteq Addresses
    /\ \A l \in Listeners :
        /\ pc[l] \in {"new", "register", "running", "unregister", "gone"}
        /\ Len(queue[l]) <= Capacity
        /\ l \in registered => pc[l] \notin {"new", "register"} \cup (IF chStop THEN {} ELSE {"gone"})

Init ==
    /\ blocks = <<>> /\ faults = 0
    /\ at = "off" /\ chStop = FALSE
    /\ saved = NoCursor /\ cursor = NoCursor
    /\ registered = {} /\ subscribed = {}
    /\ stream = <<0, 0>> /\ resubscribe = FALSE /\ left = {}
    /\ stopped = {}
    /\ since = [l \in Listeners |-> None]
    /\ pc = [l \in Listeners |-> "new"]
    /\ queue = [l \in Listeners |-> <<>>]
    /\ got = [l \in Listeners |-> <<>>]

Fault == faults < MaxFaults /\ faults' = faults + 1

Mine ==
    /\ Len(blocks) < MaxBlock
    /\ \E n \in 0 .. MaxLogs - Cardinality(Logs) : \E logs \in [1 .. n -> Addresses] :
          blocks' = Append(blocks, logs)
    /\ UNCHANGED <<faults, chStop, saved, broadcaster, stopped, listeners, since>>

----------------------------------------------------------------------------
(* Start and Stop.                                                          *)

\* A failed save is only logged.
UpdateLogCursor(block, log) ==
    /\ cursor' = [initialized |-> TRUE, block |-> block, log |-> log]
    /\ \/ saved' = cursor' /\ UNCHANGED faults
       \/ Fault /\ UNCHANGED saved

Start ==
    /\ at = "off"
    /\ at' = "height"
    /\ UNCHANGED <<blocks, faults, chStop, saved, cursor, registered, subscribed,
                   stream, resubscribe, left, stopped, listeners, since>>

\* GetBlockHeight is tried until it succeeds or chStop is closed, which ends Start
\* and leaves chDone open.
HeightFails ==
    /\ at = "height"
    /\ \/ chStop /\ at' = "dead" /\ UNCHANGED faults
       \/ Fault /\ UNCHANGED at
    /\ UNCHANGED <<blocks, chStop, saved, cursor, registered, subscribed, stream,
                   resubscribe, left, stopped, listeners, since>>

\* The cursor in the database; a failed read leaves an empty one.
FindLogCursor == {saved, NoCursor}

\* The cursor is the one found, or the current block if that is later.
BeginAt ==
    /\ at = "height"
    /\ at' = "subscribe"
    /\ \E found \in FindLogCursor :
          IF Len(blocks) > found.block THEN UpdateLogCursor(Len(blocks), 0)
          ELSE cursor' = found /\ UNCHANGED <<saved, faults>>
    /\ UNCHANGED <<blocks, chStop, registered, subscribed, stream, resubscribe, left,
                   stopped, listeners, since>>

Stop ==
    /\ ~chStop
    /\ at # "off"
    /\ chStop' = TRUE
    /\ UNCHANGED <<blocks, faults, saved, broadcaster, stopped, listeners, since>>

\* The process ends, and another one begins.
Crash ==
    /\ at # "off"
    /\ Fault
    /\ at' = "off" /\ chStop' = FALSE
    /\ cursor' = NoCursor /\ registered' = {} /\ subscribed' = {}
    /\ stream' = <<0, 0>> /\ resubscribe' = FALSE /\ left' = {} /\ stopped' = {}
    /\ since' = [l \in Listeners |-> None]
    /\ pc' = [l \in Listeners |-> "new"]
    /\ queue' = [l \in Listeners |-> <<>>]
    /\ got' = [l \in Listeners |-> <<>>]
    /\ UNCHANGED <<blocks, saved>>

----------------------------------------------------------------------------
(* startResubscribeLoop and process.                                        *)

Position == <<cursor.block, IF cursor.initialized THEN cursor.log ELSE -1>>

\* Mutant: the subscription starts after the block of the cursor.
CreateSubscription_NextBlock ==
    /\ at = "subscribe"
    /\ subscribed' = {AddressOf[l] : l \in registered}
    /\ stream' = <<cursor.block + 1, -1>>
    /\ resubscribe' = FALSE
    /\ at' = "process"
    /\ since' = [l \in Listeners |->
          IF l \in registered /\ since[l] = None THEN Position ELSE since[l]]
    /\ UNCHANGED <<blocks, faults, chStop, saved, cursor, registered, left, stopped, listeners>>

\* Without listeners it is a noopSubscription.
CreateSubscription ==
    /\ at = "subscribe"
    /\ subscribed' = {AddressOf[l] : l \in registered}
    /\ stream' = <<cursor.block, -1>>
    /\ resubscribe' = FALSE
    /\ at' = "process"
    /\ since' = [l \in Listeners |->
          IF l \in registered /\ since[l] = None THEN Position ELSE since[l]]
    /\ UNCHANGED <<blocks, faults, chStop, saved, cursor, registered, left, stopped, listeners>>

SubscribeFails ==
    /\ at = "subscribe"
    /\ registered # {}
    /\ Fault
    /\ at' = "retry"
    /\ UNCHANGED <<blocks, chStop, saved, cursor, registered, subscribed, stream,
                   resubscribe, left, stopped, listeners, since>>

Retry ==
    /\ at = "retry"
    /\ at' \in {"subscribe"} \cup (IF chStop THEN {"done"} ELSE {})
    /\ UNCHANGED <<blocks, faults, chStop, saved, cursor, registered, subscribed,
                   stream, resubscribe, left, stopped, listeners, since>>

\* The next log that the node sends.
IsNext(p) ==
    /\ p \in Logs
    /\ Address(p) \in subscribed
    /\ Before(stream, p)
    /\ \A q \in Logs : Address(q) \in subscribed /\ Before(stream, q) => ~Before(q, p)

\* Mutant: the log at the cursor is taken for a new one.
Seen_OffByOne(p) == cursor.initialized /\ Before(p, <<cursor.block, cursor.log>>)

Seen(p) == cursor.initialized /\ ~Before(<<cursor.block, cursor.log>>, p)

ReceiveLog ==
    /\ at = "process"
    /\ \E p \in Logs :
        /\ IsNext(p)
        /\ stream' = p
        /\ IF Seen(p) THEN UNCHANGED <<at, left>>
           ELSE /\ at' = "deliver"
                /\ left' = {l \in registered : AddressOf[l] = Address(p)}
    /\ UNCHANGED <<blocks, faults, chStop, saved, cursor, registered, subscribed,
                   resubscribe, stopped, listeners, since>>

\* Mutant: a listener is waited for, stopped or not.
HandleLog_Waits(l) ==
    /\ l \in left
    /\ Len(queue[l]) < Capacity
    /\ queue' = [queue EXCEPT ![l] = Append(@, stream)]
    /\ got' = [got EXCEPT ![l] = Append(@, stream)]
    /\ left' = left \ {l}
    /\ UNCHANGED <<blocks, faults, chStop, saved, at, cursor, registered, subscribed,
                   stream, resubscribe, stopped, pc, since>>

\* HandleLog waits for a place in the channel, unless the listener is stopped.
HandleLog(l) ==
    /\ l \in left
    /\ \/ /\ Len(queue[l]) < Capacity
          /\ queue' = [queue EXCEPT ![l] = Append(@, stream)]
          /\ got' = [got EXCEPT ![l] = Append(@, stream)]
       \/ l \in stopped /\ UNCHANGED <<queue, got>>
    /\ left' = left \ {l}
    /\ UNCHANGED <<blocks, faults, chStop, saved, at, cursor, registered, subscribed,
                   stream, resubscribe, stopped, pc, since>>

LogHandled ==
    /\ at = "deliver"
    /\ left = {}
    /\ at' = "process"
    /\ UpdateLogCursor(stream[1], stream[2])
    /\ UNCHANGED <<blocks, chStop, registered, subscribed, stream, resubscribe, left,
                   stopped, listeners, since>>

\* A new address calls for another subscription.
AddListener(l) ==
    /\ at = "process"
    /\ pc[l] = "register"
    /\ pc' = [pc EXCEPT ![l] = "running"]
    /\ registered' = registered \cup {l}
    /\ resubscribe' = (resubscribe \/ \A k \in registered : AddressOf[k] # AddressOf[l])
    /\ since' = IF AddressOf[l] \in subscribed THEN [since EXCEPT ![l] = Position] ELSE since
    /\ UNCHANGED <<blocks, faults, chStop, saved, at, cursor, subscribed, stream, left,
                   stopped, queue, got>>

RemoveListener(l) ==
    /\ at = "process"
    /\ pc[l] = "unregister"
    /\ pc' = [pc EXCEPT ![l] = "gone"]
    /\ registered' = registered \ {l}
    /\ resubscribe' = (resubscribe \/ \A k \in registered' : AddressOf[k] # AddressOf[l])
    /\ queue' = [queue EXCEPT ![l] = <<>>]
    /\ got' = [got EXCEPT ![l] = <<>>]
    /\ since' = [since EXCEPT ![l] = None]
    /\ UNCHANGED <<blocks, faults, chStop, saved, at, cursor, subscribed, stream, left,
                   stopped>>

\* The debounce timer, when the contracts have changed.
Resubscribe ==
    /\ at = "process"
    /\ resubscribe
    /\ at' = "subscribe"
    /\ UNCHANGED <<blocks, faults, chStop, saved, cursor, registered, subscribed,
                   stream, resubscribe, left, stopped, listeners, since>>

SubscriptionBreaks ==
    /\ at = "process"
    /\ subscribed # {}
    /\ Fault
    /\ at' = "subscribe"
    /\ UNCHANGED <<blocks, chStop, saved, cursor, registered, subscribed, stream, resubscribe, left,
                   stopped, listeners, since>>

Stopped ==
    /\ at = "process"
    /\ chStop
    /\ at' = "done"
    /\ UNCHANGED <<blocks, faults, chStop, saved, cursor, registered, subscribed, stream,
                   resubscribe, left, stopped, listeners, since>>

----------------------------------------------------------------------------
(* The listeners.                                                           *)

To(l, step) == pc' = [pc EXCEPT ![l] = step]

\* Register and Unregister end when the broadcaster takes them or is stopped.
Register(l) ==
    /\ \/ pc[l] = "new" /\ at # "off" /\ To(l, "register")
       \/ pc[l] = "register" /\ chStop /\ To(l, "running")
    /\ UNCHANGED <<blocks, faults, chStop, saved, broadcaster, stopped, queue, got, since>>

Consume(l) ==
    /\ pc[l] = "running"
    /\ queue[l] # <<>>
    /\ queue' = [queue EXCEPT ![l] = Tail(@)]
    /\ UNCHANGED <<blocks, faults, chStop, saved, broadcaster, stopped, pc, got, since>>

StopListener(l) ==
    /\ pc[l] \notin {"new", "gone"}
    /\ l \notin stopped
    /\ stopped' = stopped \cup {l}
    /\ UNCHANGED <<blocks, faults, chStop, saved, broadcaster, listeners, since>>

Unregister(l) ==
    /\ \/ pc[l] = "running" /\ l \in stopped /\ To(l, "unregister")
       \/ pc[l] = "unregister" /\ chStop /\ To(l, "gone")
    /\ UNCHANGED <<blocks, faults, chStop, saved, broadcaster, stopped, queue, got, since>>

----------------------------------------------------------------------------

Process ==
    \/ ReceiveLog \/ LogHandled \/ Resubscribe \/ SubscriptionBreaks \/ Stopped
    \/ \E l \in Listeners : HandleLog(l) \/ AddListener(l) \/ RemoveListener(l)

Listen(l) ==
    \/ Register(l) \/ Consume(l) \/ Unregister(l)

Next ==
    \/ Mine \/ Start \/ HeightFails \/ BeginAt \/ Stop \/ Crash
    \/ CreateSubscription \/ SubscribeFails \/ Retry
    \/ Process
    \/ \E l \in Listeners : Listen(l) \/ StopListener(l)

\* The goroutines go on, and each ready case of a select is taken in the end.
Fairness ==
    /\ WF_vars(BeginAt \/ CreateSubscription \/ Retry \/ LogHandled \/ \E l \in Listeners : HandleLog(l))
    /\ WF_vars(Stopped)
    /\ \A l \in Listeners : WF_vars(Listen(l)) /\ SF_vars(AddListener(l) \/ RemoveListener(l))

Spec == Init /\ [][Next]_vars /\ Fairness

----------------------------------------------------------------------------
(* Properties.                                                              *)

\* A listener gets every log once and in the order of the chain, though each new
\* subscription sends the logs of the cursor's block again.
InOrderOnce ==
    \A l \in Listeners : \A j, k \in DOMAIN got[l] : j < k => Before(got[l][j], got[l][k])

\* What listeners have been given is theirs, once and in order.
ListenersAgree == TypeOK /\ InOrderOnce

\* Once a subscription covers the address of a listener, neither the cursor nor the
\* subscription goes past a log of that address that the listener has not been given,
\* whatever connections and subscriptions end in between; so none is lost when the
\* next subscription begins at the block of the cursor.
NoneIsPassed ==
    \A l \in registered \ stopped :
        since[l] # None => \A p \in Logs :
            /\ Address(p) = AddressOf[l] /\ Before(since[l], p)
            /\ Seen(p) \/ (at = "process" /\ ~Before(stream, p))
            => p \in ToSet(got[l])

\* A listener that is stopped ends: neither its own full channel nor the broadcaster's
\* waiting for it, nor a broadcaster that is stopped, keeps Unregister from
\* returning.  (Unless Start of the broadcaster does not get the block height.)
StoppedListenerEnds ==
    \A l \in Listeners : (l \in stopped) ~> (pc[l] \in {"new", "gone"} \/ at \in {"height", "dead"})

\* application.go: "Stop allows the application to exit", for which Stop of the
\* broadcaster must return.
StopReturns == chStop ~> at \in {"done", "off"}
=============================================================================
