----------------------------- MODULE HeadTracker -----------------------------
(****************************************************************************)
(* The head tracker (core/services/head_tracker.go): a goroutine keeps a    *)
(* subscription to the new heads of the Ethereum node, saves each head that *)
(* is later than the last one, and tells its callbacks (the transaction     *)
(* manager, the job subscriber, the resumer of connecting runs) of the      *)
(* connection and of the heads.  Stop runs in another goroutine, and the    *)
(* node may crash at any time and start again from its database.            *)
(*                                                                          *)
(* A step is a section under headMutex, or what the listener does between   *)
(* two of them.  A head is its number; 0 is no head.                        *)
(****************************************************************************)
EXTENDS Integers, FiniteSets

CONSTANTS
    MaxHead,    \* the highest block of the chain
    MaxSubs,    \* bound on the subscriptions kept at the Ethereum node
    MaxStarts   \* bound on the calls of Start

ASSUME BoundsAssumption ==
    MaxHead \in Nat /\ MaxSubs \in Nat /\ MaxStarts \in Nat

VARIABLES
    starts,     \* the calls of Start so far
    started,    \* ht.started
    done,       \* is ht.done closed
    connected,  \* ht.connected
    head,       \* ht.head
    stored,     \* the highest head in the database
    listener,   \* where listenForNewHeads is
    block,      \* the head the listener is saving or telling of
    subs,       \* the subscriptions made at the Ethereum node
    current,    \* ht.headSubscription, the number of the subscription
    stop,       \* where the call of Stop is
    tracking,   \* Connect minus Disconnect, as the callbacks have been told
    announced   \* the last head the callbacks have been told of, ever

vars == <<starts, started, done, connected, head, stored, listener, block,
          subs, current, stop, tracking, announced>>

Heads == 1 .. MaxHead
SubIds == 1 .. MaxSubs

\* A subscription: none, not made or given back; delivering heads; failed, with an
\* error in its Err channel; ended, its Err channel closed or holding nil, as
\* go-ethereum leaves it when its client is closed.
SubStates == {"none", "live", "failed", "ended"}
Unused == {s \in SubIds : subs[s] = "none"}

\* The values the variables take; receiveHeaders has a subscription to read from.
TypeOK ==
    /\ starts \in 0 .. MaxStarts
    /\ started \in BOOLEAN
    /\ done \in BOOLEAN
    /\ connected \in BOOLEAN
    /\ head \in 0 .. MaxHead
    /\ stored \in 0 .. MaxHead
    /\ listener \in {"none", "dial", "receive", "save", "announce", "redial", "leave"}
    /\ block \in 0 .. MaxHead
    /\ subs \in [SubIds -> SubStates]
    /\ current \in 0 .. MaxSubs
    /\ listener \in {"receive", "save", "announce"} => current \in SubIds
    /\ stop \in {"ready", "waiting", "returned"}
    /\ tracking \in Int
    /\ announced \in 0 .. MaxHead

Init ==
    /\ starts = 0
    /\ started = FALSE
    /\ done = FALSE
    /\ connected = FALSE
    /\ head = 0
    /\ stored = 0
    /\ listener = "none"
    /\ block = 0
    /\ subs = [s \in SubIds |-> "none"]
    /\ current = 0
    /\ stop = "ready"
    /\ tracking = 0
    /\ announced = 0

----------------------------------------------------------------------------
(* Start and Stop.                                                          *)

\* The tracker starts from the last head of the database, with a listener of
\* its own.  The application starts it once, before anyone can stop it.
Start ==
    /\ starts < MaxStarts
    /\ ~started
    /\ listener = "none"
    /\ stop \in {"ready", "returned"}
    /\ starts' = starts + 1
    /\ started' = TRUE
    /\ done' = FALSE
    /\ head' = stored
    /\ listener' = "dial"
    /\ stop' = "ready"
    /\ UNCHANGED <<connected, stored, block, subs, current, tracking, announced>>

\* Mutant: Stop leaves connected as it is.
Stop_StaysConnected ==
    /\ stop = "ready"
    /\ started
    /\ tracking' = IF connected THEN tracking - 1 ELSE tracking
    /\ done' = TRUE
    /\ started' = FALSE
    /\ stop' = "waiting"
    /\ UNCHANGED <<starts, connected, head, stored, listener, block, subs, current, announced>>

\* The first half of Stop, under the lock; the other half waits for the listener.
Stop ==
    /\ stop = "ready"
    /\ started
    /\ connected' = FALSE
    /\ tracking' = IF connected THEN tracking - 1 ELSE tracking
    /\ done' = TRUE
    /\ started' = FALSE
    /\ stop' = "waiting"
    /\ UNCHANGED <<starts, head, stored, listener, block, subs, current,
                   announced>>

StopReturns ==
    /\ stop = "waiting"
    /\ listener = "none"
    /\ stop' = "returned"
    /\ UNCHANGED <<starts, started, done, connected, head, stored, listener,
                   block, subs, current, tracking, announced>>

\* The process ends anywhere: what is in memory goes, and the Ethereum node
\* drops the subscriptions with the connection.
Crash ==
    /\ started \/ listener # "none"
    /\ started' = FALSE
    /\ done' = FALSE
    /\ connected' = FALSE
    /\ head' = 0
    /\ listener' = "none"
    /\ block' = 0
    /\ subs' = [s \in SubIds |-> "none"]
    /\ current' = 0
    /\ stop' = "ready"
    /\ tracking' = 0
    /\ UNCHANGED <<starts, stored, announced>>

----------------------------------------------------------------------------
(* listenForNewHeads: subscribe.                                            *)

\* unsubscribeFromHead, at the begin of a round of subscribe and deferred at the
\* end of the listener: the subscription is given back, unless Stop has said
\* that there is none.
Unsubscribe ==
    /\ connected' = FALSE
    /\ tracking' = IF connected THEN tracking - 1 ELSE tracking
    /\ subs' = IF connected THEN [subs EXCEPT ![current] = "none"] ELSE subs

\* A round of subscribe begins: whatever is left is unsubscribed.
Redial ==
    /\ listener = "redial"
    /\ Unsubscribe
    /\ listener' = "dial"
    /\ UNCHANGED <<starts, started, done, head, stored, block, current, stop,
                   announced>>

\* Mutant: the done branch of the select goes on with the loop.
DialIsCutShort_Continues ==
    /\ listener = "dial"
    /\ done
    /\ listener' = "redial"
    /\ UNCHANGED <<starts, started, done, connected, head, stored, block, subs,
                   current, stop, tracking, announced>>

\* The select finds done closed.
DialIsCutShort ==
    /\ listener = "dial"
    /\ done
    /\ listener' = "leave"
    /\ UNCHANGED <<starts, started, done, connected, head, stored, block, subs,
                   current, stop, tracking, announced>>

\* subscribeToHead, when the sleeper's time is over: the subscription succeeds and
\* the node is of the right chain.  Go's select may take this branch though done
\* is closed.
DialSucceeds ==
    /\ listener = "dial"
    /\ \E s \in Unused :
        /\ \A t \in Unused : s <= t
        /\ subs' = [subs EXCEPT ![s] = "live"]
        /\ current' = s
    /\ connected' = TRUE
    /\ tracking' = tracking + 1
    /\ listener' = "receive"
    /\ UNCHANGED <<starts, started, done, head, stored, block, stop, announced>>

\* The node cannot be reached.
DialFails ==
    /\ listener = "dial"
    /\ listener' = "redial"
    /\ UNCHANGED <<starts, started, done, connected, head, stored, block, subs,
                   current, stop, tracking, announced>>

\* The subscription succeeds, but the chain is the wrong one or cannot be told:
\* nobody keeps the subscription.  The bound leaves one for each Start to lose.
DialFindsOtherChain ==
    /\ listener = "dial"
    /\ Cardinality(Unused) > MaxStarts
    /\ \E s \in Unused :
        /\ \A t \in Unused : s <= t
        /\ subs' = [subs EXCEPT ![s] = "live"]
    /\ listener' = "redial"
    /\ UNCHANGED <<starts, started, done, connected, head, stored, block, current,
                   stop, tracking, announced>>

----------------------------------------------------------------------------
(* listenForNewHeads: receiveHeaders.                                       *)

\* The select finds done closed.
ReceiveIsCutShort ==
    /\ listener = "receive"
    /\ done
    /\ listener' = "leave"
    /\ UNCHANGED <<starts, started, done, connected, head, stored, block, subs,
                   current, stop, tracking, announced>>

\* Mutant: Save keeps any head.
ReceiveHeader_AnyOrder(n) ==
    /\ listener = "receive"
    /\ subs[current] = "live"
    /\ head' = n
    /\ block' = n
    /\ listener' = "save"
    /\ UNCHANGED <<starts, started, done, connected, stored, subs, current, stop,
                   tracking, announced>>

\* Save, up to the unlock: a head that is not later than the last one is
\* dropped, another one is kept in memory.  The heads of a chain that
\* reorganises come in any order.
ReceiveHeader(n) ==
    /\ listener = "receive"
    /\ subs[current] = "live"
    /\ n > head
    /\ head' = n
    /\ block' = n
    /\ listener' = "save"
    /\ UNCHANGED <<starts, started, done, connected, stored, subs, current, stop,
                   tracking, announced>>

\* The rest of Save: the head goes to the database.
SaveHead ==
    /\ listener = "save"
    /\ stored' = IF block > stored THEN block ELSE stored
    /\ listener' = "announce"
    /\ UNCHANGED <<starts, started, done, connected, head, block, subs, current,
                   stop, tracking, announced>>

\* Mutant: the error of CreateHead is only logged.
SaveFails_Announced ==
    /\ listener = "save"
    /\ listener' = "announce"
    /\ UNCHANGED <<starts, started, done, connected, head, stored, block, subs, current,
                   stop, tracking, announced>>

\* CreateHead fails: the callbacks do not hear of this head.
SaveFails ==
    /\ listener = "save"
    /\ listener' = "receive"
    /\ block' = 0
    /\ UNCHANGED <<starts, started, done, connected, head, stored, subs, current,
                   stop, tracking, announced>>

\* onNewHead, under the lock again.
Announce ==
    /\ listener = "announce"
    /\ announced' = block
    /\ block' = 0
    /\ listener' = "receive"
    /\ UNCHANGED <<starts, started, done, connected, head, stored, subs, current,
                   stop, tracking>>

\* Mutant: the error is not returned.
ReceiveError_Ignored ==
    /\ listener = "receive"
    /\ subs[current] = "failed"
    /\ UNCHANGED vars

\* The subscription's error makes a round of listenForNewHeads; the end of the
\* Err channel, or nil, does not.
ReceiveError ==
    /\ listener = "receive"
    /\ subs[current] = "failed"
    /\ listener' = "redial"
    /\ UNCHANGED <<starts, started, done, connected, head, stored, block, subs,
                   current, stop, tracking, announced>>

\* Mutant: unsubscribeFromHead is not deferred.
Leave_NoUnsubscribe ==
    /\ listener = "leave"
    /\ listener' = "none"
    /\ UNCHANGED <<starts, started, done, connected, head, stored, block, subs,
                   current, stop, tracking, announced>>

\* The deferred unsubscribeFromHead, and the end of the goroutine.
Leave ==
    /\ listener = "leave"
    /\ Unsubscribe
    /\ listener' = "none"
    /\ UNCHANGED <<starts, started, done, head, stored, block, current, stop,
                   announced>>

----------------------------------------------------------------------------
(* The Ethereum node.                                                       *)

SubscriptionFails(s) ==
    /\ subs[s] = "live"
    /\ \E state \in {"failed", "ended"} : subs' = [subs EXCEPT ![s] = state]
    /\ UNCHANGED <<starts, started, done, connected, head, stored, listener,
                   block, current, stop, tracking, announced>>

----------------------------------------------------------------------------

Subscribing == Redial \/ DialIsCutShort \/ DialSucceeds \/ DialFails \/ DialFindsOtherChain

Receiving ==
    \/ ReceiveIsCutShort
    \/ \E n \in Heads : ReceiveHeader(n)
    \/ SaveHead
    \/ SaveFails
    \/ Announce
    \/ ReceiveError
    \/ Leave

Next ==
    \/ Start
    \/ Stop
    \/ StopReturns
    \/ Crash
    \/ Subscribing
    \/ Receiving
    \/ \E s \in SubIds : SubscriptionFails(s)

Spec == Init /\ [][Next]_vars

\* Goroutines run.  A select with several ready branches takes each of them some
\* time, and the Ethereum node can be reached some time.
Fairness ==
    /\ WF_vars(Redial)
    /\ WF_vars(DialSucceeds \/ DialFails \/ DialFindsOtherChain)
    /\ SF_vars(DialSucceeds)
    /\ SF_vars(DialIsCutShort)
    /\ SF_vars(ReceiveIsCutShort)
    /\ WF_vars(SaveHead \/ SaveFails)
    /\ WF_vars(Announce)
    /\ WF_vars(ReceiveError)
    /\ WF_vars(Leave)
    /\ WF_vars(StopReturns)

FairSpec == Spec /\ Fairness

----------------------------------------------------------------------------
(* Properties.                                                              *)

\* The callbacks are told of Connect and Disconnect in turns, and connected says
\* which came last: Stop and the deferred unsubscribeFromHead, in two
\* goroutines, never both tell of the same disconnection, nor neither.
CallbacksAlternate == tracking = IF connected THEN 1 ELSE 0

\* When Stop has returned the callbacks are disconnected for good: the listener
\* is gone, though a select may have dialled once more after done was closed.
StoppedIsDisconnected ==
    stop = "returned" => listener = "none" /\ ~connected /\ tracking = 0

\* No head is announced that a restart would not know: the database has it, and
\* a tracker that runs starts its next Connect from no earlier head, so that the
\* subscriptions of the jobs do not ask for its logs again.
AnnouncedIsKnown == announced <= stored /\ (started => announced <= head)

\* The listener, Stop and the callbacks agree on the connection and on the head.
CallbacksAgree == TypeOK /\ CallbacksAlternate /\ StoppedIsDisconnected /\ AnnouncedIsKnown

\* The callbacks hear of later and later heads, over reorganisations of the
\* chain, reconnections, failures of the database and crashes.
AnnouncedInOrder == [][announced' # announced => announced' > announced]_vars

\* A failed subscription is replaced, unless Stop or a crash comes first.
LostConnectionIsReplaced ==
    \A s \in SubIds :
        (connected /\ current = s /\ subs[s] = "failed")
            ~> (~started \/ (connected /\ subs[current] = "live"))

\* Stop returns, whatever the listener is doing.
StopEnds == stop = "waiting" ~> stop # "waiting"

\* The listener comes to what it is asked for: another subscription, or its end.
ListenerGoesOn == LostConnectionIsReplaced /\ StopEnds

\* head_tracker.go:92: "Stop unsubscribes all connections and fires Disconnect."
StoppedIsUnsubscribed ==
    stop = "returned" => \A s \in SubIds : subs[s] # "live"
=============================================================================
