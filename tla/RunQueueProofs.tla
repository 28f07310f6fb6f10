---------------------------- MODULE RunQueueProofs ----------------------------
(****************************************************************************)
(* Proofs about RunQueue, for any finite set of calls and any set of runs.  *)
(****************************************************************************)
EXTENDS RunQueue, FiniteSetTheorems, TLAPS

\* The goroutines the wait group waits for.
Waited == {c \in Calls : pc[c] \in {"loop", "executing", "executed", "finished"}}

WaitedAreCounted == workersWg = Cardinality(Waited)

TypeInv ==
    /\ pc \in [Calls -> PCs]
    /\ runOf \in [Calls -> Runs]
    /\ workers \in [Runs -> Nat]
    /\ stopRequested \in BOOLEAN
    /\ stop \in {"ready", "waiting", "returned"}
    /\ unserved \in SUBSET Calls
    /\ WaitedAreCounted

\* A run has at most one owner, and it has one exactly while calls for it are
\* counted.
OneOwner ==
    \A c, d \in Calls : pc[c] \in Owners /\ pc[d] \in Owners /\ runOf[c] = runOf[d] => c = d

OwnersAreCounted ==
    /\ \A c \in Calls : pc[c] \in Owners => workers[runOf[c]] > 0
    /\ \A r \in Runs : workers[r] > 0 => \E c \in Calls : pc[c] \in Owners /\ runOf[c] = r

IInv == TypeInv /\ OneOwner /\ OwnersAreCounted /\ NoCallForgotten

LEMMA InvInit == Init => IInv
<1> SUFFICES ASSUME Init PROVE IInv
  OBVIOUS
<1>1. \A c \in Calls : pc[c] = "ready"
  BY DEF Init
<1>2. Waited = {}
  BY <1>1 DEF Waited
<1>3. TypeInv
  BY <1>2, FS_EmptySet DEF Init, TypeInv, PCs, WaitedAreCounted
<1> QED
  BY <1>1, <1>3 DEF Init, IInv, OneOwner, OwnersAreCounted, NoCallForgotten, Owners

\* A call moves on.
LEMMA Moves ==
    ASSUME TypeInv, NEW c \in Calls, NEW from, NEW to \in PCs, Go(c, from, to)
    PROVE  /\ pc' \in [Calls -> PCs]
           /\ pc[c] = from /\ pc'[c] = to
           /\ \A d \in Calls : d # c => pc'[d] = pc[d]
BY DEF TypeInv, Go

\* The set the wait group counts grows and shrinks by one goroutine at a time.
LEMMA WaitedFinite == IsFiniteSet(Waited)
BY CallsAssumption, FS_Subset DEF Waited

LEMMA WaitedSame ==
    ASSUME TypeInv, UNCHANGED workersWg, Waited' = Waited
    PROVE  WaitedAreCounted'
BY DEF TypeInv, WaitedAreCounted

LEMMA CallStepInv ==
    ASSUME IInv, NEW c \in Calls, CallStep(c)
    PROVE  IInv'
<1> USE DEF IInv, OneOwner, OwnersAreCounted, NoCallForgotten, Owners
<1>1. CASE Check(c)
  <2>1. PICK to \in {"returned", "checked"} : Go(c, "ready", to)
    BY <1>1 DEF Check
  <2>2. /\ pc' \in [Calls -> PCs] /\ pc[c] = "ready" /\ pc'[c] = to
        /\ \A d \in Calls : d # c => pc'[d] = pc[d]
    BY <2>1, Moves DEF PCs
  <2>3. Waited' = Waited
    BY <2>2 DEF Waited
  <2>4. TypeInv'
    BY <1>1, <2>2, <2>3, WaitedSame DEF Check, TypeInv
  <2> QED
    BY <1>1, <2>2, <2>4 DEF Check, TypeInv
<1>2. CASE IncrementQueue(c)
  <2> DEFINE to == IF workers[runOf[c]] = 0 THEN "first" ELSE "returned"
  <2>1. /\ pc' \in [Calls -> PCs] /\ pc[c] = "checked" /\ pc'[c] = to
        /\ \A d \in Calls : d # c => pc'[d] = pc[d]
    BY <1>2, Moves DEF IncrementQueue, PCs
  <2>2. Waited' = Waited
    BY <2>1 DEF Waited
  <2>3. /\ workers' \in [Runs -> Nat]
        /\ \A r \in Runs : workers'[r] = IF r = runOf[c] THEN workers[r] + 1 ELSE workers[r]
    BY <1>2 DEF IncrementQueue, TypeInv
  <2>4. TypeInv'
    BY <1>2, <2>1, <2>2, <2>3, WaitedSame DEF IncrementQueue, TypeInv
  <2>5. runOf' = runOf /\ runOf \in [Calls -> Runs] /\ workers \in [Runs -> Nat]
        /\ unserved' = unserved \cup {c}
    BY <1>2 DEF IncrementQueue, TypeInv
  <2>6. CASE workers[runOf[c]] = 0
    <3>1. \A d \in Calls : pc[d] \in Owners => runOf[d] # runOf[c]
      BY <2>5, <2>6
    <3> QED
      BY <2>1, <2>3, <2>4, <2>5, <2>6, <3>1
  <2>7. CASE workers[runOf[c]] # 0
    <3>1. PICK o \in Calls : pc[o] \in Owners /\ runOf[o] = runOf[c]
      BY <2>5, <2>7
    <3>2. \A d \in Calls : pc'[d] \in Owners <=> pc[d] \in Owners
      BY <2>1, <2>7
    <3>3. OneOwner' /\ OwnersAreCounted'
      BY <2>3, <2>5, <2>7, <3>1, <3>2
    <3>4. o # c /\ pc'[o] = pc[o] /\ workers'[runOf[c]] > 1
      BY <2>1, <2>3, <2>5, <2>7, <3>1
    <3>5. \A d \in Calls : pc[d] \in Owners => pc'[d] = pc[d]
      BY <2>1
    <3>6. NoCallForgotten'
      BY <2>3, <2>5, <3>1, <3>4, <3>5
    <3> QED
      BY <2>4, <3>3, <3>6
  <2> QED
    BY <2>6, <2>7
<1>3. CASE StartWorker(c)
  <2>1. /\ pc' \in [Calls -> PCs] /\ pc[c] = "first" /\ pc'[c] = "loop"
        /\ \A d \in Calls : d # c => pc'[d] = pc[d]
    BY <1>3, Moves DEF StartWorker, PCs
  <2>2. Waited' = Waited \cup {c} /\ c \notin Waited
    BY <2>1 DEF Waited
  <2>3. TypeInv'
    BY <1>3, <2>1, <2>2, WaitedFinite, FS_AddElement
       DEF StartWorker, TypeInv, WaitedAreCounted
  <2> QED
    BY <1>3, <2>1, <2>3 DEF StartWorker
<1>4. CASE BeginExecute(c)
  <2>1. /\ pc' \in [Calls -> PCs] /\ pc[c] = "loop" /\ pc'[c] = "executing"
        /\ \A d \in Calls : d # c => pc'[d] = pc[d]
    BY <1>4, Moves DEF BeginExecute, PCs
  <2>2. Waited' = Waited
    BY <2>1 DEF Waited
  <2>3. TypeInv'
    BY <1>4, <2>1, <2>2, WaitedSame DEF BeginExecute, TypeInv
  <2>4. /\ UNCHANGED <<runOf, workers>>
        /\ \A d \in unserved' : d \in unserved /\ runOf[d] # runOf[c]
    BY <1>4 DEF BeginExecute
  <2> QED
    BY <2>1, <2>3, <2>4
<1>5. CASE EndExecute(c)
  <2>1. /\ pc' \in [Calls -> PCs] /\ pc[c] = "executing" /\ pc'[c] = "executed"
        /\ \A d \in Calls : d # c => pc'[d] = pc[d]
    BY <1>5, Moves DEF EndExecute, PCs
  <2>2. Waited' = Waited
    BY <2>1 DEF Waited
  <2>3. TypeInv'
    BY <1>5, <2>1, <2>2, WaitedSame DEF EndExecute, TypeInv
  <2>4. UNCHANGED <<runOf, workers, unserved>>
    BY <1>5 DEF EndExecute
  <2> QED
    BY <2>1, <2>3, <2>4
<1>6. CASE DecrementQueue(c)
  <2> DEFINE to == IF workers[runOf[c]] <= 1 THEN "finished" ELSE "loop"
  <2>1. /\ pc' \in [Calls -> PCs] /\ pc[c] = "executed" /\ pc'[c] = to
        /\ \A d \in Calls : d # c => pc'[d] = pc[d]
    BY <1>6, Moves DEF DecrementQueue, PCs
  <2>2. Waited' = Waited
    BY <2>1 DEF Waited
  <2>3. runOf[c] \in Runs /\ workers[runOf[c]] > 0 /\ workers[runOf[c]] \in Nat
    BY <2>1 DEF TypeInv
  <2>4. /\ workers' \in [Runs -> Nat]
        /\ \A r \in Runs : workers'[r] = IF r = runOf[c] THEN workers[r] - 1 ELSE workers[r]
    BY <1>6, <2>3 DEF DecrementQueue, TypeInv
  <2>5. TypeInv'
    BY <1>6, <2>1, <2>2, <2>4, WaitedSame DEF DecrementQueue, TypeInv
  <2>6. UNCHANGED <<runOf, unserved>> /\ runOf \in [Calls -> Runs]
        /\ unserved \subseteq Calls /\ workers \in [Runs -> Nat]
    BY <1>6 DEF DecrementQueue, TypeInv
  <2>7. \A d \in Calls : d # c /\ pc[d] \in Owners => runOf[d] # runOf[c]
    BY <2>1
  <2>8. CASE workers[runOf[c]] <= 1
    <3>1. pc'[c] = "finished" /\ workers'[runOf[c]] = 0 /\ workers[runOf[c]] = 1
      BY <2>1, <2>3, <2>4, <2>8
    <3>2. \A d \in unserved : runOf[d] # runOf[c]
      BY <2>1, <2>6, <2>7, <3>1
    <3>3. OneOwner' /\ OwnersAreCounted'
      BY <2>1, <2>4, <2>6, <2>7, <3>1
    <3>4. NoCallForgotten'
      BY <2>1, <2>4, <2>6, <3>2
    <3> QED
      BY <2>5, <3>3, <3>4
  <2>9. CASE workers[runOf[c]] > 1
    <3>1. pc'[c] = "loop" /\ workers'[runOf[c]] > 0
      BY <2>1, <2>3, <2>4, <2>9
    <3>2. OneOwner' /\ OwnersAreCounted'
      BY <2>1, <2>4, <2>6, <2>7, <3>1
    <3>3. NoCallForgotten'
      BY <2>1, <2>4, <2>6, <3>1
    <3> QED
      BY <2>5, <3>2, <3>3
  <2> QED
    BY <2>3, <2>8, <2>9
<1>7. CASE WorkerDone(c)
  <2>1. /\ pc' \in [Calls -> PCs] /\ pc[c] = "finished" /\ pc'[c] = "done"
        /\ \A d \in Calls : d # c => pc'[d] = pc[d]
    BY <1>7, Moves DEF WorkerDone, PCs
  <2>2. Waited' = Waited \ {c} /\ c \in Waited
    BY <2>1 DEF Waited
  <2>3. TypeInv'
    BY <1>7, <2>1, <2>2, WaitedFinite, FS_RemoveElement, FS_CardinalityType
       DEF WorkerDone, TypeInv, WaitedAreCounted
  <2>4. UNCHANGED <<runOf, workers, unserved>>
    BY <1>7 DEF WorkerDone
  <2> QED
    BY <2>1, <2>3, <2>4
<1> QED
  BY <1>1, <1>2, <1>3, <1>4, <1>5, <1>6, <1>7 DEF CallStep

LEMMA InvNext == IInv /\ [Next]_vars => IInv'
<1> SUFFICES ASSUME IInv, [Next]_vars PROVE IInv'
  OBVIOUS
<1>1. ASSUME UNCHANGED <<pc, runOf, workers, workersWg, unserved>>,
             stop' \in {"ready", "waiting", "returned"}, stopRequested' \in BOOLEAN
      PROVE  IInv'
  BY <1>1 DEF IInv, TypeInv, WaitedAreCounted, Waited, OneOwner, OwnersAreCounted,
              NoCallForgotten
<1>2. CASE RequestStop
  BY <1>1, <1>2 DEF RequestStop, IInv, TypeInv
<1>3. CASE StopReturns
  BY <1>1, <1>3 DEF StopReturns, IInv, TypeInv
<1>4. CASE UNCHANGED vars
  BY <1>1, <1>4 DEF vars, IInv, TypeInv
<1> QED
  BY <1>2, <1>3, <1>4, CallStepInv DEF Next

THEOREM Invariant == Spec => []IInv
BY InvInit, InvNext, PTL DEF Spec

\* The counters of the queue keep their types: the wait group, in particular,
\* never goes below zero, where Go would panic.
THEOREM TypeCorrect == Spec => []TypeOK
<1>1. IInv => TypeOK
  BY WaitedFinite, FS_CardinalityType DEF IInv, TypeInv, TypeOK, WaitedAreCounted
<1> QED
  BY <1>1, Invariant, PTL

\* No run is ever executed by two goroutines at a time.
THEOREM RunsOneAtATime == Spec => []OneExecution
<1>1. IInv => OneExecution
  BY DEF IInv, OneOwner, OneExecution, Owners
<1> QED
  BY <1>1, Invariant, PTL

\* No call of Run that has been counted is ever forgotten.
THEOREM CallsAreKept == Spec => []NoCallForgotten
<1>1. IInv => NoCallForgotten
  BY DEF IInv
<1> QED
  BY <1>1, Invariant, PTL

----------------------------------------------------------------------------
(* The queue implements RunRequests.  Counting a call is a Request, the      *)
(* begin of Execute is a Begin and giving the count back is the End.         *)

Executing == {runOf[c] : c \in {d \in Calls : pc[d] \in {"executing", "executed"}}}

\* Whether a run is being executed only depends on its one owner.
LEMMA ExecutingIf ==
    ASSUME NEW c \in Calls
    PROVE  pc[c] \in {"executing", "executed"} => runOf[c] \in Executing
BY DEF Executing

LEMMA ExecutingOnlyIf ==
    ASSUME IInv, NEW c \in Calls, pc[c] \in Owners, pc[c] \notin {"executing", "executed"}
    PROVE  runOf[c] \notin Executing
BY DEF Executing, IInv, OneOwner, Owners

LEMMA CallStepRefines ==
    ASSUME IInv, NEW c \in Calls, CallStep(c)
    PROVE  [Requests!Next]_(Requests!rvars)
<1>1. /\ runOf \in [Calls -> Runs] /\ runOf[c] \in Runs /\ TypeInv
      /\ workers \in [Runs -> Nat]
  BY DEF IInv, TypeInv
<1>2. ASSUME UNCHANGED <<runOf, workers>>,
             \A d \in Calls : pc'[d] \in {"executing", "executed"}
                                 <=> pc[d] \in {"executing", "executed"}
      PROVE  UNCHANGED Requests!rvars
  BY <1>2 DEF Requests!rvars
<1>3. CASE Check(c)
  <2>1. PICK to \in {"returned", "checked"} : Go(c, "ready", to)
    BY <1>3 DEF Check
  <2> QED
    BY <1>1, <1>2, <1>3, <2>1, Moves DEF Check, PCs
<1>4. CASE IncrementQueue(c)
  <2> DEFINE to == IF workers[runOf[c]] = 0 THEN "first" ELSE "returned"
  <2>1. /\ pc[c] = "checked" /\ pc'[c] = to
        /\ \A d \in Calls : d # c => pc'[d] = pc[d]
    BY <1>1, <1>4, Moves DEF IncrementQueue, PCs, Owners
  <2>2. Executing' = Executing
    BY <1>4, <2>1 DEF IncrementQueue, Executing
  <2>3. Requests!Request(runOf[c])
    BY <1>4, <2>2 DEF IncrementQueue, Requests!Request, Executing
  <2> QED
    BY <1>1, <2>3 DEF Requests!Next
<1>5. CASE StartWorker(c)
  BY <1>1, <1>2, <1>5, Moves DEF StartWorker, PCs, Owners
<1>6. CASE BeginExecute(c)
  <2>1. /\ pc[c] = "loop" /\ pc'[c] = "executing"
        /\ \A d \in Calls : d # c => pc'[d] = pc[d]
    BY <1>1, <1>6, Moves DEF BeginExecute, PCs, Owners
  <2>2. Executing' = Executing \cup {runOf[c]}
    BY <1>6, <2>1 DEF BeginExecute, Executing
  <2>3. runOf[c] \notin Executing /\ workers[runOf[c]] > 0
    BY <2>1, ExecutingOnlyIf DEF Owners, IInv, OwnersAreCounted
  <2>4. Requests!Begin(runOf[c])
    BY <1>6, <2>2, <2>3 DEF BeginExecute, Requests!Begin, Executing
  <2>5. Requests!Next
    BY <1>1, <2>4 DEF Requests!Next, Requests!Begin
  <2> QED
    BY <2>5
<1>7. CASE EndExecute(c)
  BY <1>1, <1>2, <1>7, Moves DEF EndExecute, PCs, Owners
<1>8. CASE DecrementQueue(c)
  <2> DEFINE to == IF workers[runOf[c]] <= 1 THEN "finished" ELSE "loop"
  <2>1. /\ pc[c] = "executed" /\ pc'[c] = to
        /\ \A d \in Calls : d # c => pc'[d] = pc[d]
    BY <1>1, <1>8, Moves DEF DecrementQueue, PCs, Owners
  <2>2. \A d \in Calls : pc[d] \in Owners /\ runOf[d] = runOf[c] => d = c
    BY <2>1 DEF IInv, OneOwner, Owners
  <2>3. Executing' = Executing \ {runOf[c]}
    BY <1>8, <2>1, <2>2 DEF DecrementQueue, Executing, Owners
  <2>4. runOf[c] \in Executing
    BY <2>1, ExecutingIf
  <2>5. Requests!End(runOf[c])
    BY <1>8, <2>3, <2>4 DEF DecrementQueue, Requests!End, Executing
  <2>6. Requests!Next
    BY <1>1, <2>5 DEF Requests!Next, Requests!End
  <2> QED
    BY <2>6
<1>9. CASE WorkerDone(c)
  BY <1>1, <1>2, <1>9, Moves DEF WorkerDone, PCs, Owners
<1> QED
  BY <1>3, <1>4, <1>5, <1>6, <1>7, <1>8, <1>9 DEF CallStep

\* Whatever module JobRuns assumes of the queue, the queue does: one execution
\* for each accepted call, never two of a run at once, however Stop interferes.
THEOREM QueueImplementsRequests == Spec => ImplementsRunRequests
<1>1. Init => Requests!Init
  BY DEF Init, Requests!Init
<1>2. IInv /\ [Next]_vars => [Requests!Next]_(Requests!rvars)
  <2> SUFFICES ASSUME IInv, [Next]_vars PROVE [Requests!Next]_(Requests!rvars)
    OBVIOUS
  <2>1. CASE RequestStop \/ StopReturns
    BY <2>1 DEF RequestStop, StopReturns, Requests!rvars
  <2>2. CASE UNCHANGED vars
    BY <2>2 DEF vars, Requests!rvars
  <2> QED
    BY <2>1, <2>2, CallStepRefines DEF Next
<1> QED
  BY <1>1, <1>2, Invariant, PTL DEF Spec, ImplementsRunRequests, Requests!Spec
===============================================================================
