-------------------------- MODULE HeadTrackerProofs --------------------------
(****************************************************************************)
(* The safety properties of the head tracker, for chains of any length, any *)
(* number of subscriptions and any number of restarts.                      *)
(****************************************************************************)
EXTENDS HeadTracker, TLAPS

\* A round of the listener begins disconnected, and so does its successor.
DialsDisconnected ==
    /\ listener \in {"none", "dial"} => ~connected
    /\ stop = "returned" => listener = "none"
    /\ stop # "ready" => ~started

\* The tracker in memory is never behind the database, nor the database behind
\* what has been announced; a head on its way to the callbacks is later than the
\* last one they have heard of.
HeadsInOrder ==
    /\ announced <= stored
    /\ (started \/ listener # "none") => stored <= head
    /\ listener \in {"save", "announce"} => block = head /\ announced < block
    /\ listener = "announce" => block <= stored

IInv == TypeOK /\ CallbacksAlternate /\ DialsDisconnected /\ HeadsInOrder

----------------------------------------------------------------------------

LEMMA InitTypeOK == Init => TypeOK
<1> SUFFICES ASSUME Init
             PROVE  TypeOK
  OBVIOUS
<1>1. starts \in 0 .. MaxStarts /\ head \in 0 .. MaxHead /\ stored \in 0 .. MaxHead
  BY BoundsAssumption DEF Init
<1>2. block \in 0 .. MaxHead /\ announced \in 0 .. MaxHead /\ current \in 0 .. MaxSubs
  BY BoundsAssumption DEF Init
<1>3. started \in BOOLEAN /\ done \in BOOLEAN /\ connected \in BOOLEAN
  BY DEF Init
<1>4. subs \in [SubIds -> SubStates]
  BY DEF Init, SubStates
<1>5. /\ listener \in {"none", "dial", "receive", "save", "announce", "redial", "leave"}
      /\ listener \in {"receive", "save", "announce"} => current \in SubIds
  BY DEF Init
<1>6. stop \in {"ready", "waiting", "returned"} /\ tracking \in Int
  BY DEF Init
<1> QED
  BY <1>1, <1>2, <1>3, <1>4, <1>5, <1>6 DEF TypeOK

LEMMA NextTypeOK == TypeOK /\ [Next]_vars => TypeOK'
<1> SUFFICES ASSUME TypeOK, [Next]_vars
             PROVE  TypeOK'
  OBVIOUS
<1> USE BoundsAssumption DEF TypeOK, SubIds, SubStates, Unused, Heads
<1>1. CASE Start
  <2>1. started' \in BOOLEAN /\ done' \in BOOLEAN /\ connected' \in BOOLEAN
    BY <1>1 DEF Start
  <2>2. subs' \in [SubIds -> SubStates]
    BY <1>1 DEF Start
  <2>3. starts' \in 0 .. MaxStarts /\ current' \in 0 .. MaxSubs /\ tracking' \in Int
    BY <1>1 DEF Start
  <2>4. /\ head' \in 0 .. MaxHead /\ stored' \in 0 .. MaxHead
        /\ block' \in 0 .. MaxHead /\ announced' \in 0 .. MaxHead
    BY <1>1 DEF Start
  <2>5. /\ listener' \in {"none", "dial", "receive", "save", "announce", "redial", "leave"}
        /\ stop' \in {"ready", "waiting", "returned"}
    BY <1>1 DEF Start
  <2>6. listener' \in {"receive", "save", "announce"} => current' \in SubIds
    BY <1>1 DEF Start
  <2> QED
    BY <2>1, <2>2, <2>3, <2>4, <2>5, <2>6
<1>2. CASE Stop
  <2>1. started' \in BOOLEAN /\ done' \in BOOLEAN /\ connected' \in BOOLEAN
    BY <1>2 DEF Stop
  <2>2. subs' \in [SubIds -> SubStates]
    BY <1>2 DEF Stop
  <2>3. starts' \in 0 .. MaxStarts /\ current' \in 0 .. MaxSubs /\ tracking' \in Int
    BY <1>2 DEF Stop
  <2>4. /\ head' \in 0 .. MaxHead /\ stored' \in 0 .. MaxHead
        /\ block' \in 0 .. MaxHead /\ announced' \in 0 .. MaxHead
    BY <1>2 DEF Stop
  <2>5. /\ listener' \in {"none", "dial", "receive", "save", "announce", "redial", "leave"}
        /\ stop' \in {"ready", "waiting", "returned"}
    BY <1>2 DEF Stop
  <2>6. listener' \in {"receive", "save", "announce"} => current' \in SubIds
    BY <1>2 DEF Stop
  <2> QED
    BY <2>1, <2>2, <2>3, <2>4, <2>5, <2>6
<1>3. CASE StopReturns
  BY <1>3 DEF StopReturns
<1>4. CASE Crash
  <2>1. started' \in BOOLEAN /\ done' \in BOOLEAN /\ connected' \in BOOLEAN
    BY <1>4 DEF Crash
  <2>2. subs' \in [SubIds -> SubStates]
    BY <1>4 DEF Crash
  <2>3. starts' \in 0 .. MaxStarts /\ current' \in 0 .. MaxSubs /\ tracking' \in Int
    BY <1>4 DEF Crash
  <2>4. /\ head' \in 0 .. MaxHead /\ stored' \in 0 .. MaxHead
        /\ block' \in 0 .. MaxHead /\ announced' \in 0 .. MaxHead
    BY <1>4 DEF Crash
  <2>5. /\ listener' \in {"none", "dial", "receive", "save", "announce", "redial", "leave"}
        /\ stop' \in {"ready", "waiting", "returned"}
    BY <1>4 DEF Crash
  <2>6. listener' \in {"receive", "save", "announce"} => current' \in SubIds
    BY <1>4 DEF Crash
  <2> QED
    BY <2>1, <2>2, <2>3, <2>4, <2>5, <2>6
<1>5. CASE Redial
  <2>1. started' \in BOOLEAN /\ done' \in BOOLEAN /\ connected' \in BOOLEAN
    BY <1>5 DEF Redial, Unsubscribe
  <2>2. subs' \in [SubIds -> SubStates]
    BY <1>5 DEF Redial, Unsubscribe
  <2>3. starts' \in 0 .. MaxStarts /\ current' \in 0 .. MaxSubs /\ tracking' \in Int
    BY <1>5 DEF Redial, Unsubscribe
  <2>4. /\ head' \in 0 .. MaxHead /\ stored' \in 0 .. MaxHead
        /\ block' \in 0 .. MaxHead /\ announced' \in 0 .. MaxHead
    BY <1>5 DEF Redial, Unsubscribe
  <2>5. /\ listener' \in {"none", "dial", "receive", "save", "announce", "redial", "leave"}
        /\ stop' \in {"ready", "waiting", "returned"}
    BY <1>5 DEF Redial, Unsubscribe
  <2>6. listener' \in {"receive", "save", "announce"} => current' \in SubIds
    BY <1>5 DEF Redial, Unsubscribe
  <2> QED
    BY <2>1, <2>2, <2>3, <2>4, <2>5, <2>6
<1>6. CASE DialIsCutShort
  BY <1>6 DEF DialIsCutShort
<1>7. CASE DialSucceeds
  BY <1>7 DEF DialSucceeds
<1>8. CASE DialFails
  BY <1>8 DEF DialFails
<1>9. CASE DialFindsOtherChain
  BY <1>9 DEF DialFindsOtherChain
<1>10. CASE ReceiveIsCutShort
  BY <1>10 DEF ReceiveIsCutShort
<1>11. ASSUME NEW n \in Heads, ReceiveHeader(n)
       PROVE  TypeOK'
  BY <1>11 DEF ReceiveHeader
<1>12. CASE SaveHead
  BY <1>12 DEF SaveHead
<1>13. CASE SaveFails
  BY <1>13 DEF SaveFails
<1>14. CASE Announce
  BY <1>14 DEF Announce
<1>15. CASE ReceiveError
  BY <1>15 DEF ReceiveError
<1>16. CASE Leave
  <2>1. started' \in BOOLEAN /\ done' \in BOOLEAN /\ connected' \in BOOLEAN
    BY <1>16 DEF Leave, Unsubscribe
  <2>2. subs' \in [SubIds -> SubStates]
    BY <1>16 DEF Leave, Unsubscribe
  <2>3. starts' \in 0 .. MaxStarts /\ current' \in 0 .. MaxSubs /\ tracking' \in Int
    BY <1>16 DEF Leave, Unsubscribe
  <2>4. /\ head' \in 0 .. MaxHead /\ stored' \in 0 .. MaxHead
        /\ block' \in 0 .. MaxHead /\ announced' \in 0 .. MaxHead
    BY <1>16 DEF Leave, Unsubscribe
  <2>5. /\ listener' \in {"none", "dial", "receive", "save", "announce", "redial", "leave"}
        /\ stop' \in {"ready", "waiting", "returned"}
    BY <1>16 DEF Leave, Unsubscribe
  <2>6. listener' \in {"receive", "save", "announce"} => current' \in SubIds
    BY <1>16 DEF Leave, Unsubscribe
  <2> QED
    BY <2>1, <2>2, <2>3, <2>4, <2>5, <2>6
<1>17. ASSUME NEW s \in SubIds, SubscriptionFails(s)
       PROVE  TypeOK'
  BY <1>17 DEF SubscriptionFails
<1>18. CASE UNCHANGED vars
  BY <1>18 DEF vars
<1> QED
  BY <1>1, <1>2, <1>3, <1>4, <1>5, <1>6, <1>7, <1>8, <1>9, <1>10, <1>11, <1>12,
     <1>13, <1>14, <1>15, <1>16, <1>17, <1>18
     DEF Next, Subscribing, Receiving

LEMMA InitIInv == Init => IInv
<1> SUFFICES ASSUME Init
             PROVE  IInv
  OBVIOUS
<1>1. CallbacksAlternate
  BY DEF Init, CallbacksAlternate
<1>2. DialsDisconnected
  BY DEF Init, DialsDisconnected
<1>3. HeadsInOrder
  BY DEF Init, HeadsInOrder
<1> QED
  BY <1>1, <1>2, <1>3, InitTypeOK DEF IInv

\* Every step keeps the invariant.  Connecting and disconnecting happen under
\* the lock, and a head is compared under the lock with the one it replaces.
LEMMA NextIInv == IInv /\ [Next]_vars => IInv'
<1> SUFFICES ASSUME IInv, [Next]_vars
             PROVE  IInv'
  OBVIOUS
<1> DEFINE Rest == CallbacksAlternate /\ DialsDisconnected /\ HeadsInOrder
<1>t. TypeOK'
  BY NextTypeOK DEF IInv
<1>r. Rest'
  <2> USE DEF IInv, TypeOK, Heads, CallbacksAlternate, DialsDisconnected, HeadsInOrder
  <2>1. CASE Start
    BY <2>1 DEF Start
  <2>2. CASE Stop
    BY <2>2 DEF Stop
  <2>3. CASE StopReturns
    BY <2>3 DEF StopReturns
  <2>4. CASE Crash
    BY <2>4 DEF Crash
  <2>5. CASE Redial
    BY <2>5 DEF Redial, Unsubscribe
  <2>6. CASE DialIsCutShort
    BY <2>6 DEF DialIsCutShort
  <2>7. CASE DialSucceeds
    BY <2>7 DEF DialSucceeds
  <2>8. CASE DialFails
    BY <2>8 DEF DialFails
  <2>9. CASE DialFindsOtherChain
    BY <2>9 DEF DialFindsOtherChain
  <2>10. CASE ReceiveIsCutShort
    BY <2>10 DEF ReceiveIsCutShort
  <2>11. ASSUME NEW n \in Heads, ReceiveHeader(n)
         PROVE  Rest'
    BY <2>11, BoundsAssumption DEF ReceiveHeader
  <2>12. CASE SaveHead
    BY <2>12 DEF SaveHead
  <2>13. CASE SaveFails
    BY <2>13 DEF SaveFails
  <2>14. CASE Announce
    BY <2>14 DEF Announce
  <2>15. CASE ReceiveError
    BY <2>15 DEF ReceiveError
  <2>16. CASE Leave
    BY <2>16 DEF Leave, Unsubscribe
  <2>17. ASSUME NEW s \in SubIds, SubscriptionFails(s)
         PROVE  Rest'
    BY <2>17 DEF SubscriptionFails
  <2>18. CASE UNCHANGED vars
    BY <2>18 DEF vars
  <2> QED
    BY <2>1, <2>2, <2>3, <2>4, <2>5, <2>6, <2>7, <2>8, <2>9, <2>10, <2>11, <2>12,
       <2>13, <2>14, <2>15, <2>16, <2>17, <2>18
       DEF Next, Subscribing, Receiving
<1> QED
  BY <1>t, <1>r DEF IInv

LEMMA Invariant == Spec => []IInv
BY InitIInv, NextIInv, PTL DEF Spec

----------------------------------------------------------------------------

\* The variables of the head tracker take the values they are meant to take.
THEOREM TypeCorrect == Spec => []TypeOK
BY Invariant, PTL DEF IInv

\* Connect and Disconnect reach the callbacks in turns, whichever of Stop and
\* the listener comes first.
THEOREM CallbacksTakeTurns == Spec => []CallbacksAlternate
BY Invariant, PTL DEF IInv

\* After Stop has returned nothing connects the callbacks again.
THEOREM StopDisconnects == Spec => []StoppedIsDisconnected
<1>1. IInv => StoppedIsDisconnected
  BY DEF IInv, CallbacksAlternate, DialsDisconnected, StoppedIsDisconnected
<1> QED
  BY <1>1, Invariant, PTL

\* The database knows every head announced, and so does a tracker that runs.
THEOREM AnnouncedHeadsAreKnown == Spec => []AnnouncedIsKnown
<1>1. IInv => AnnouncedIsKnown
  BY DEF IInv, TypeOK, HeadsInOrder, AnnouncedIsKnown
<1> QED
  BY <1>1, Invariant, PTL

\* The listener, Stop, the callbacks and the database agree on the connection and on
\* the heads, for any number of restarts and heads.
THEOREM TrackerAgrees == Spec => []CallbacksAgree
BY TypeCorrect, CallbacksTakeTurns, StopDisconnects, AnnouncedHeadsAreKnown, PTL
   DEF CallbacksAgree

\* Heads are announced in order, over reconnections and restarts.
THEOREM HeadsAreAnnouncedInOrder == Spec => AnnouncedInOrder
<1>1. IInv /\ [Next]_vars => [announced' # announced => announced' > announced]_vars
  <2> SUFFICES ASSUME IInv, Next, announced' # announced
               PROVE  announced' > announced
    BY DEF vars
  <2>1. Announce
    BY DEF Next, Subscribing, Receiving, Start, Stop, StopReturns, Crash, Redial,
           DialIsCutShort, DialSucceeds, DialFails, DialFindsOtherChain,
           ReceiveIsCutShort, ReceiveHeader, SaveHead, SaveFails, ReceiveError,
           Leave, SubscriptionFails
  <2> QED
    BY <2>1 DEF Announce, IInv, TypeOK, HeadsInOrder
<1> QED
  BY <1>1, Invariant, PTL DEF Spec, AnnouncedInOrder
=============================================================================
