--------------------------- MODULE FluxMonitorProofs ---------------------------
(****************************************************************************)
(* Proofs about the flux monitor: the runs that a checker creates are due,  *)
(* for any number of oracles, rounds, runs and failures.                    *)
(****************************************************************************)
EXTENDS FluxMonitor, SequenceTheorems, WellFoundedInduction, TLAPS

Vias == {"start", "poll", "idle", "log"}
Places == {"off", "start", "subscribe", "loop", "state", "fetch", "create"}
Contract ==
    [round : 0 .. MaxRounds, answers : SUBSET Oracles, latest : Prices \cup {0}, overdue : BOOLEAN]
Run == [round : 1 .. MaxRounds, via : Vias]

\* The round that a contract shows as the reportable one.
Reportable(c) == c.round + (IF c.round = 0 \/ c.answers = Oracles \/ c.overdue THEN 1 ELSE 0)
Reached == Reportable(contract)

ChainTypeOK ==
    /\ contract \in Contract
    /\ reported \in [Oracles -> 0 .. MaxRounds]
    /\ runs \in Seq(Run)
    /\ unsent \subseteq DOMAIN runs
    /\ txs \in Seq(Nat)
    /\ \A i \in DOMAIN txs : txs[i] \in DOMAIN runs \ unsent
    /\ mined \in 0 .. Len(txs)

CheckerTypeOK ==
    /\ manager \in {"running", "removing", "stopping", "stopped"}
    /\ added \in BOOLEAN /\ archived \in BOOLEAN
    /\ pc \in Places
    /\ via \in Vias
    /\ reportable \in 0 .. MaxRounds + 1
    /\ recent \in 0 .. MaxRounds
    /\ seen \subseteq Nat

\* No run is for a round that the contract has not reached, so neither is the most
\* recent submission.
RunsAreReached == recent <= Reached /\ \A k \in DOMAIN runs : runs[k].round <= Reached

\* A poll under way goes for a round beyond the most recent submission.
PollIsAhead ==
    pc \in {"fetch", "create"} =>
        /\ 1 <= reportable /\ reportable <= MaxRounds
        /\ reportable <= Reached
        /\ recent <= reportable
        /\ via # "log" => recent < reportable

\* What has been seen is no later than the most recent submission; a checker begins with
\* nothing seen, because the one before it has ended with the process.
SeenIsRecent ==
    /\ pc # "off" => \A n \in seen : n <= recent
    /\ pc \in {"off", "start"} => recent = 0
    /\ pc = "start" => seen = {}
    /\ pc = "off" /\ manager = "running" /\ ~archived => seen = {}

\* The checker is gone when the job is archived or the monitor has stopped.
CheckerIsAdded ==
    /\ pc # "off" => added
    /\ archived \/ manager = "stopped" => ~added

FluxInv ==
    /\ ChainTypeOK /\ CheckerTypeOK
    /\ RunsAreReached /\ PollIsAhead /\ SeenIsRecent /\ CheckerIsAdded

----------------------------------------------------------------------------

LEMMA Bounds == MaxRounds \in Nat /\ MaxRuns \in Nat /\ Us \in Oracles /\ 0 \in 0 .. MaxRounds
BY ConstantsAssumption DEF Us, Oracles

\* The maximum of a set of numbers that are at most n.
LEMMA MaxIsInSet ==
    ASSUME NEW n \in Nat, NEW S \in SUBSET (0 .. n), S # {}
    PROVE  Max(S) \in S /\ \A x \in S : x <= Max(S)
<1> DEFINE T == {n - x : x \in S}
<1>1. T \in SUBSET Nat /\ T # {}
  <2>1. \A x \in S : n - x \in Nat
    OBVIOUS
  <2> QED
    BY <2>1
<1>2. PICK i \in T : \A j \in T : <<j, i>> \notin OpToRel(<, Nat)
  <2> HIDE DEF T
  <2> QED
    BY <1>1, WFMin, NatLessThanWellFounded, Zenon
<1>3. \A j \in T : ~(j < i)
  <2> HIDE DEF T
  <2> QED
    BY <1>1, <1>2, Zenon DEF OpToRel
<1>4. PICK m \in S : i = n - m
  BY <1>2
<1>5. \A x \in S : m >= x
  <2> TAKE x \in S
  <2>1. n - x \in T /\ ~(n - x < i)
    BY <1>3
  <2> QED
    BY <1>4, <2>1
<1> QED
  BY <1>5 DEF Max

LEMMA RoundStateIs == RoundState.round = Reached
BY DEF RoundState, AllAnswered, Reached, Reportable

LEMMA ReportableIs ==
    ASSUME NEW c \in Contract
    PROVE  /\ c.round \in Nat /\ c.round <= MaxRounds
           /\ c.answers \in SUBSET Oracles /\ c.overdue \in BOOLEAN /\ c.latest \in Prices \cup {0}
           /\ Reportable(c) \in {c.round, c.round + 1}
           /\ Reportable(c) \in Nat
           /\ 1 <= Reportable(c) /\ Reportable(c) <= MaxRounds + 1
           /\ c.answers = Oracles \/ c.overdue => Reportable(c) = c.round + 1
<1>1. c.round \in Nat /\ c.round <= MaxRounds
  BY Bounds DEF Contract
<1>2. c.answers \in SUBSET Oracles /\ c.overdue \in BOOLEAN /\ c.latest \in Prices \cup {0}
  BY DEF Contract
<1> QED
  BY <1>1, <1>2, Bounds DEF Reportable

\* An answer that the contract takes does not lead it back.
LEMMA AnswerGoesOn ==
    ASSUME ChainTypeOK, NEW o \in Oracles, NEW n \in 1 .. MaxRounds, Takes(o, n), UpdateAnswer(o, n)
    PROVE  /\ contract' \in Contract
           /\ reported' \in [Oracles -> 0 .. MaxRounds]
           /\ Reached <= Reached'
<1> DEFINE answers == IF n = contract.round THEN contract.answers \cup {o} ELSE {o}
<1>1. PICK p \in Prices \cup {contract.latest} :
          contract' = [round |-> n, answers |-> answers, latest |-> p,
                       overdue |-> contract.overdue /\ n = contract.round /\ answers # Oracles]
  BY DEF UpdateAnswer
<1>2. contract \in Contract /\ n \in Nat /\ n \in 0 .. MaxRounds /\ 1 <= n
  BY Bounds DEF ChainTypeOK
<1>3. answers \in SUBSET Oracles /\ p \in Prices \cup {0}
  BY <1>2 DEF Contract
<1>4. contract.overdue \in BOOLEAN /\ (contract.overdue /\ n = contract.round /\ answers # Oracles) \in BOOLEAN
  BY <1>2 DEF Contract
<1>5. /\ contract'.round = n /\ contract'.answers = answers
      /\ contract'.overdue <=> contract.overdue /\ n = contract.round /\ answers # Oracles
  BY <1>1
<1>6. contract' \in Contract
  <2> HIDE DEF answers
  <2> QED
    BY <1>1, <1>2, <1>3, <1>4 DEF Contract
<1>7. reported' \in [Oracles -> 0 .. MaxRounds]
  BY <1>2 DEF UpdateAnswer, ChainTypeOK
<1>8. n = contract.round \/ n = contract.round + 1
  BY DEF Takes
<1>9. /\ Reached' \in {n, n + 1}
      /\ answers = Oracles \/ contract'.overdue => Reached' = n + 1
  <2> HIDE DEF answers
  <2>1. Reached' = Reportable(contract')
    BY DEF Reached
  <2> QED
    BY <1>5, <1>6, <2>1, ReportableIs
<1>10. /\ contract.round \in Nat
       /\ Reached \in {contract.round, contract.round + 1}
       /\ contract.answers # Oracles /\ ~contract.overdue /\ contract.round # 0 => Reached = contract.round
  BY <1>2, ReportableIs DEF Reached, Reportable
<1>11. CASE n = contract.round + 1
  BY <1>2, <1>6, <1>7, <1>9, <1>10, <1>11
<1>12. CASE n = contract.round
  <2>1. contract.answers = Oracles => answers = Oracles
    BY <1>12
  <2>2. contract.overdue /\ answers # Oracles => contract'.overdue
    BY <1>5, <1>12
  <2>3. contract.answers = Oracles \/ contract.overdue => Reached' = n + 1
    BY <1>9, <2>1, <2>2
  <2> HIDE DEF answers
  <2> QED
    BY <1>2, <1>6, <1>7, <1>9, <1>10, <1>12, <2>3
<1> QED
  BY <1>8, <1>11, <1>12

\* As long as the contract does not go back, what is reached stays reached.
LEMMA ReachedStays ==
    ASSUME FluxInv, contract' \in Contract, Reached <= Reached',
           UNCHANGED <<runs, pc, via, reportable, recent>>
    PROVE  RunsAreReached' /\ PollIsAhead'
<1>1. Reached \in Nat /\ Reached' \in Nat /\ recent \in Nat /\ reportable \in Nat
  <2>1. Reached = Reportable(contract) /\ Reached' = Reportable(contract')
    BY DEF Reached
  <2>2. contract \in Contract /\ recent \in Nat /\ reportable \in Nat
    BY Bounds DEF FluxInv, ChainTypeOK, CheckerTypeOK
  <2> QED
    BY <2>1, <2>2, ReportableIs
<1>2. \A k \in DOMAIN runs : runs[k].round \in Nat
  <2>1. runs \in Seq(Run)
    BY DEF FluxInv, ChainTypeOK
  <2>2. \A k \in DOMAIN runs : runs[k] \in Run
    BY <2>1
  <2> QED
    BY <2>2, Bounds DEF Run
<1>3. RunsAreReached'
  BY <1>1, <1>2 DEF FluxInv, RunsAreReached
<1>4. PollIsAhead'
  BY <1>1 DEF FluxInv, PollIsAhead
<1> QED
  BY <1>3, <1>4

LEMMA RunsAre ==
    ASSUME ChainTypeOK
    PROVE  /\ Len(runs) \in Nat /\ DOMAIN runs = 1 .. Len(runs)
           /\ \A k \in DOMAIN runs : runs[k].round \in 1 .. MaxRounds
           /\ Len(txs) \in Nat /\ DOMAIN txs = 1 .. Len(txs)
<1>1. runs \in Seq(Run) /\ txs \in Seq(Nat)
  BY DEF ChainTypeOK
<1>2. \A k \in DOMAIN runs : runs[k] \in Run
  BY <1>1
<1> QED
  BY <1>1, <1>2 DEF Run

LEMMA FluxInvInit == Init => FluxInv
<1> SUFFICES ASSUME Init
             PROVE  FluxInv
  OBVIOUS
<1> USE Bounds
<1>1. contract \in Contract
  BY DEF Init, Contract
<1>2. reported \in [Oracles -> 0 .. MaxRounds]
  BY DEF Init
<1>3. ChainTypeOK
  BY <1>1, <1>2 DEF Init, ChainTypeOK
<1>4. CheckerTypeOK
  <2>1. added \in BOOLEAN /\ archived \in BOOLEAN
    BY DEF Init
  <2>2. reportable \in 0 .. MaxRounds + 1 /\ recent \in 0 .. MaxRounds
    BY DEF Init
  <2>3. manager = "running" /\ pc \in Places /\ via \in Vias
    BY DEF Init, Places, Vias
  <2>4. seen \subseteq Nat
    BY DEF Init
  <2> QED
    BY <2>1, <2>2, <2>3, <2>4 DEF CheckerTypeOK
<1>5. RunsAreReached
  <2>1. Reached \in Nat
    BY <1>1, ReportableIs DEF Reached
  <2> QED
    BY <2>1 DEF Init, RunsAreReached
<1>6. PollIsAhead /\ SeenIsRecent /\ CheckerIsAdded
  BY DEF Init, PollIsAhead, SeenIsRecent, CheckerIsAdded
<1> QED
  BY <1>3, <1>4, <1>5, <1>6 DEF FluxInv

----------------------------------------------------------------------------
(* The steps of the chain and of the runs.                                  *)

LEMMA ContractKeeps ==
    ASSUME FluxInv, RoundTimesOut \/ Mine \/ \E o \in Others : OtherAnswers(o)
    PROVE  FluxInv'
<1>1. /\ UNCHANGED <<runs, unsent, txs, process, pc, via, reportable, recent, seen>>
      /\ UNCHANGED <<manager, added, archived>>
  BY DEF RoundTimesOut, Mine, OtherAnswers, checker, process
<1>2. mined' \in 0 .. Len(txs)
  BY DEF RoundTimesOut, Mine, OtherAnswers, FluxInv, ChainTypeOK
<1>3. contract \in Contract /\ reported \in [Oracles -> 0 .. MaxRounds] /\ ChainTypeOK
  BY DEF FluxInv, ChainTypeOK
<1>4. Reached \in Nat /\ Reached = Reportable(contract) /\ Reached' = Reportable(contract')
  BY <1>3, ReportableIs DEF Reached
<1>5. contract' \in Contract /\ reported' \in [Oracles -> 0 .. MaxRounds] /\ Reached <= Reached'
  <2>1. CASE RoundTimesOut
    <3>1. contract' = [contract EXCEPT !.overdue = TRUE] /\ reported' = reported
      BY <2>1 DEF RoundTimesOut
    <3>2. contract' \in Contract /\ contract'.round = contract.round /\ contract'.overdue
      BY <1>3, <3>1 DEF Contract
    <3>3. Reached' = contract.round + 1
      BY <1>4, <3>2, ReportableIs
    <3>4. Reached <= contract.round + 1
      BY <1>3, <1>4, ReportableIs
    <3> QED
      BY <1>3, <3>1, <3>2, <3>3, <3>4
  <2>2. CASE UNCHANGED <<contract, reported>>
    BY <1>3, <1>4, <2>2
  <2>3. CASE Mine /\ ~UNCHANGED <<contract, reported>>
    <3> DEFINE n == runs[txs[mined + 1]].round
    <3>1. mined < Len(txs) /\ Takes(Us, n) /\ UpdateAnswer(Us, n)
      BY <2>3 DEF Mine
    <3>2. mined + 1 \in DOMAIN txs
      BY <1>3, <3>1, RunsAre DEF ChainTypeOK
    <3>3. txs[mined + 1] \in DOMAIN runs
      BY <1>3, <3>2 DEF ChainTypeOK
    <3>4. n \in 1 .. MaxRounds
      BY <1>3, <3>3, RunsAre
    <3> HIDE DEF n
    <3> QED
      BY <1>3, <3>1, <3>4, Bounds, AnswerGoesOn
  <2>4. CASE \E o \in Others : OtherAnswers(o)
    <3>1. PICK o \in Others : OtherAnswers(o)
      BY <2>4
    <3>2. PICK n \in 1 .. MaxRounds : Takes(o, n) /\ UpdateAnswer(o, n)
      BY <3>1 DEF OtherAnswers
    <3>3. o \in Oracles
      BY DEF Oracles
    <3> QED
      BY <1>3, <3>2, <3>3, AnswerGoesOn
  <2> QED
    BY <2>1, <2>2, <2>3, <2>4
<1>6. RunsAreReached' /\ PollIsAhead'
  BY <1>1, <1>5, ReachedStays
<1>7. ChainTypeOK' /\ CheckerTypeOK'
  BY <1>1, <1>2, <1>5 DEF FluxInv, ChainTypeOK, CheckerTypeOK
<1>8. SeenIsRecent' /\ CheckerIsAdded'
  BY <1>1 DEF FluxInv, SeenIsRecent, CheckerIsAdded
<1> QED
  BY <1>6, <1>7, <1>8 DEF FluxInv

LEMMA ExecuteKeeps ==
    ASSUME FluxInv, NEW k \in unsent, Execute(k)
    PROVE  FluxInv'
<1>1. UNCHANGED <<contract, reported, runs, mined, manager, added, archived, pc, via, reportable, recent, seen>>
  BY DEF Execute, checker, process
<1>2. ChainTypeOK
  BY DEF FluxInv
<1>3. k \in DOMAIN runs /\ k \in Nat /\ unsent' = unsent \ {k}
  BY <1>2, RunsAre DEF Execute, ChainTypeOK
<1>4. /\ txs' \in Seq(Nat) /\ Len(txs) <= Len(txs')
      /\ \A i \in DOMAIN txs' : txs'[i] \in DOMAIN runs \ unsent'
  <2>1. CASE txs' = txs
    BY <1>2, <1>3, <2>1, RunsAre DEF ChainTypeOK
  <2>2. CASE txs' = Append(txs, k)
    <3>1. txs \in Seq(Nat)
      BY <1>2 DEF ChainTypeOK
    <3>2. /\ txs' \in Seq(Nat) /\ Len(txs') = Len(txs) + 1
          /\ \A i \in 1 .. Len(txs') : txs'[i] = IF i = Len(txs) + 1 THEN k ELSE txs[i]
      BY <1>3, <2>2, <3>1, AppendProperties
    <3>3. DOMAIN txs' = 1 .. Len(txs')
      BY <3>2
    <3>4. ASSUME NEW i \in DOMAIN txs'
          PROVE  txs'[i] \in DOMAIN runs \ unsent'
      <4>1. CASE i = Len(txs) + 1
        BY <1>3, <3>2, <3>3, <4>1
      <4>2. CASE i # Len(txs) + 1
        <5>1. i \in DOMAIN txs /\ txs'[i] = txs[i]
          BY <1>2, <3>2, <3>3, <4>2, RunsAre
        <5> QED
          BY <1>2, <1>3, <5>1 DEF ChainTypeOK
      <4> QED
        BY <4>1, <4>2
    <3> QED
      BY <1>2, <3>2, <3>4, RunsAre
  <2> QED
    BY <2>1, <2>2 DEF Execute
<1>5. mined \in 0 .. Len(txs')
  BY <1>2, <1>4, RunsAre DEF ChainTypeOK
<1>6. ChainTypeOK'
  BY <1>1, <1>2, <1>3, <1>4, <1>5 DEF ChainTypeOK
<1>7. CheckerTypeOK' /\ PollIsAhead' /\ SeenIsRecent' /\ CheckerIsAdded' /\ RunsAreReached'
  BY <1>1 DEF FluxInv, CheckerTypeOK, PollIsAhead, SeenIsRecent, CheckerIsAdded, RunsAreReached, Reached
<1> QED
  BY <1>6, <1>7 DEF FluxInv

----------------------------------------------------------------------------
(* The steps of the monitor and of the checker.                             *)

\* What is not of the checker stays as it is.
LEMMA ChainStays ==
    ASSUME FluxInv, UNCHANGED <<chain, runs>>
    PROVE  /\ ChainTypeOK' /\ Reached' = Reached /\ Reached \in Nat
           /\ \A k \in DOMAIN runs' : runs'[k].round <= Reached'
<1>1. UNCHANGED <<contract, reported, unsent, txs, mined, runs>>
  BY DEF chain
<1>2. contract \in Contract /\ ChainTypeOK'
  BY <1>1 DEF FluxInv, ChainTypeOK
<1>3. Reached' = Reached /\ Reached \in Nat
  BY <1>1, <1>2, ReportableIs DEF Reached
<1> QED
  BY <1>1, <1>2, <1>3 DEF FluxInv, RunsAreReached

LEMMA ManagerKeeps ==
    ASSUME FluxInv, AddJob \/ RemoveJob \/ Stop \/ CheckerStopped
    PROVE  FluxInv'
<1>1. UNCHANGED <<chain, runs, via, reportable, recent, seen>>
  BY DEF AddJob, RemoveJob, Stop, CheckerStopped, checker
<1>2. ChainTypeOK' /\ RunsAreReached'
  BY <1>1, ChainStays DEF FluxInv, RunsAreReached
<1>3. \/ pc' = pc
      \/ pc = "off" /\ pc' = "start" /\ AddJob
  BY DEF AddJob, RemoveJob, Stop, CheckerStopped, checker, FluxInv, CheckerIsAdded
<1>4. added' \in BOOLEAN /\ archived' \in BOOLEAN
  BY DEF AddJob, RemoveJob, Stop, CheckerStopped, FluxInv, CheckerTypeOK
<1>5. manager' \in {"running", "removing", "stopping", "stopped"} /\ pc' \in Places
  BY <1>3 DEF AddJob, RemoveJob, Stop, CheckerStopped, FluxInv, CheckerTypeOK, Places
<1>6. CheckerTypeOK'
  BY <1>1, <1>4, <1>5 DEF FluxInv, CheckerTypeOK
<1>7. PollIsAhead'
  BY <1>1, <1>3, ChainStays DEF FluxInv, PollIsAhead
<1>8. SeenIsRecent' /\ CheckerIsAdded'
  <2>1. CASE AddJob
    <3>1. pc = "off" /\ seen = {} /\ recent = 0
      BY <2>1 DEF AddJob, FluxInv, SeenIsRecent, CheckerIsAdded
    <3> QED
      BY <1>1, <2>1, <3>1 DEF AddJob, FluxInv, SeenIsRecent, CheckerIsAdded
  <2>2. CASE RemoveJob
    <3>1. pc' = pc
      BY <2>2 DEF RemoveJob, checker
    <3> QED
      BY <1>1, <2>2, <3>1 DEF RemoveJob, FluxInv, SeenIsRecent, CheckerIsAdded
  <2>3. CASE Stop
    <3>1. pc' = pc
      BY <2>3 DEF Stop, checker
    <3> QED
      BY <1>1, <2>3, <3>1 DEF Stop, FluxInv, SeenIsRecent, CheckerIsAdded
  <2>4. CASE CheckerStopped
    <3>1. pc = "off" /\ pc' = "off" /\ added' = FALSE
      BY <2>4 DEF CheckerStopped, checker
    <3>2. manager' = "running" => archived'
      BY <2>4 DEF CheckerStopped
    <3> QED
      BY <1>1, <3>1, <3>2 DEF FluxInv, SeenIsRecent, CheckerIsAdded
  <2> QED
    BY <2>1, <2>2, <2>3, <2>4
<1> QED
  BY <1>2, <1>6, <1>7, <1>8 DEF FluxInv

\* The end of the process or of the checker.
LEMMA EndKeeps ==
    ASSUME FluxInv, Crash \/ Stopped
    PROVE  FluxInv'
<1>1. /\ UNCHANGED <<chain, runs, archived>>
      /\ pc' = "off" /\ via' = "start" /\ reportable' = 0 /\ recent' = 0
  BY DEF Crash, Stopped, process
<1>2. ChainTypeOK' /\ RunsAreReached'
  BY <1>1, ChainStays DEF RunsAreReached
<1>3. \/ manager' = "running" /\ added' = FALSE /\ seen' = {}
      \/ UNCHANGED <<manager, added, seen>> /\ manager \in {"removing", "stopping"}
  BY DEF Crash, Stopped, process
<1>4. added' \in BOOLEAN /\ archived' \in BOOLEAN
  BY <1>1, <1>3 DEF FluxInv, CheckerTypeOK
<1>5. CheckerTypeOK'
  <2>1. pc' \in Places /\ via' \in Vias
    BY <1>1 DEF Places, Vias
  <2>2. 0 \in 0 .. MaxRounds /\ 0 \in 0 .. MaxRounds + 1
    BY Bounds
  <2> QED
    BY <1>1, <1>3, <1>4, <2>1, <2>2 DEF FluxInv, CheckerTypeOK
<1>6. PollIsAhead' /\ SeenIsRecent' /\ CheckerIsAdded'
  BY <1>1, <1>3 DEF FluxInv, PollIsAhead, SeenIsRecent, CheckerIsAdded
<1> QED
  BY <1>2, <1>5, <1>6 DEF FluxInv

\* A step of the checker that does not end it.
LEMMA CheckerKeeps ==
    ASSUME FluxInv, UNCHANGED process, pc # "off", pc' \in Places \ {"off", "start"}, via' \in Vias,
           ChainTypeOK', RunsAreReached', PollIsAhead', seen' \subseteq Nat, \A n \in seen' : n <= recent',
           reportable' \in 0 .. MaxRounds + 1, recent' \in 0 .. MaxRounds
    PROVE  FluxInv'
<1>1. UNCHANGED <<manager, added, archived>>
  BY DEF process
<1>2. SeenIsRecent' /\ CheckerIsAdded'
  BY <1>1 DEF FluxInv, SeenIsRecent, CheckerIsAdded
<1>3. CheckerTypeOK'
  BY <1>1 DEF FluxInv, CheckerTypeOK
<1> QED
  BY <1>2, <1>3 DEF FluxInv

LEMMA CheckerIs ==
    ASSUME FluxInv
    PROVE  /\ via \in Vias /\ pc \in Places
           /\ reportable \in 0 .. MaxRounds + 1 /\ reportable \in Nat
           /\ recent \in 0 .. MaxRounds /\ recent \in Nat
           /\ Reached \in Nat /\ recent <= Reached
           /\ seen \subseteq Nat /\ (pc # "off" => \A n \in seen : n <= recent)
<1>1. contract \in Contract
  BY DEF FluxInv, ChainTypeOK
<1> QED
  BY <1>1, ReportableIs, Bounds DEF FluxInv, CheckerTypeOK, RunsAreReached, SeenIsRecent, Reached

\* The last transactions are of runs, so their rounds have been reached.
LEMMA SubmissionsAreReached ==
    ASSUME FluxInv, NEW limit \in Nat
    PROVE  Rounds(FindTxsBySenderAndRecipient(limit)) \subseteq
               {n \in 1 .. MaxRounds : n <= Reached}
<1>1. ChainTypeOK /\ RunsAreReached
  BY DEF FluxInv
<1>2. \A i \in DOMAIN txs : txs[i] \in DOMAIN runs
  BY <1>1 DEF ChainTypeOK
<1>3. \A k \in DOMAIN runs : runs[k].round \in 1 .. MaxRounds /\ runs[k].round <= Reached
  BY <1>1, RunsAre DEF RunsAreReached
<1>4. FindTxsBySenderAndRecipient(limit) \subseteq DOMAIN runs
  BY <1>2 DEF FindTxsBySenderAndRecipient
<1> QED
  BY <1>3, <1>4 DEF Rounds

LEMMA StartKeeps ==
    ASSUME FluxInv, DetermineMostRecentSubmittedRoundID
    PROVE  FluxInv'
<1> DEFINE submitted == Rounds(FindTxsBySenderAndRecipient(txLimit))
           S == {0} \cup submitted
<1>1. pc = "start" /\ pc' = "subscribe" /\ UNCHANGED <<chain, runs, process, via, reportable>>
  BY DEF DetermineMostRecentSubmittedRoundID
<1>2. /\ submitted \subseteq {n \in 1 .. MaxRounds : n <= Reached}
      /\ S \in SUBSET (0 .. MaxRounds) /\ S # {}
  <2>1. txLimit \in Nat
    BY DEF txLimit
  <2>2. submitted \subseteq {n \in 1 .. MaxRounds : n <= Reached}
    BY <2>1, SubmissionsAreReached
  <2> QED
    BY <2>2, Bounds
<1>3. \/ recent' = Max(S) /\ seen' = submitted
      \/ UNCHANGED <<recent, seen>>
  BY DEF DetermineMostRecentSubmittedRoundID
<1> HIDE DEF submitted
<1>4. /\ Max(S) \in 0 .. MaxRounds /\ Max(S) <= Reached
      /\ \A n \in submitted : n <= Max(S)
  <2>1. Max(S) \in S /\ \A n \in S : n <= Max(S)
    <3> HIDE DEF S
    <3> QED
      BY <1>2, MaxIsInSet, Bounds
  <2>2. \A n \in S : n <= Reached
    BY <1>2, CheckerIs
  <2> HIDE DEF S
  <2> QED
    BY <1>2, <2>1, <2>2 DEF S
<1> HIDE DEF S
<1>5. /\ recent' \in 0 .. MaxRounds /\ recent' <= Reached
      /\ seen' \subseteq Nat /\ \A n \in seen' : n <= recent'
  <2>1. CASE recent' = Max(S) /\ seen' = submitted
    <3>1. submitted \subseteq Nat
      BY <1>2, Bounds
    <3> QED
      BY <1>4, <2>1, <3>1
  <2>2. CASE UNCHANGED <<recent, seen>>
    BY <1>1, <2>2, CheckerIs
  <2> QED
    BY <1>3, <2>1, <2>2
<1>6. ChainTypeOK' /\ RunsAreReached'
  BY <1>1, <1>5, ChainStays DEF RunsAreReached
<1>7. PollIsAhead' /\ pc' \in Places \ {"off", "start"}
  BY <1>1 DEF PollIsAhead, Places
<1> QED
  BY <1>1, <1>5, <1>6, <1>7, CheckerIs, CheckerKeeps

\* Steps that neither poll nor create a run.
LEMMA LoopKeeps ==
    ASSUME FluxInv, Subscribe \/ Reconnect \/ PollTick \/ IdleTick \/ RespondToNewRoundLog
    PROVE  FluxInv'
<1>1. UNCHANGED <<chain, runs, process, reportable, recent, seen>>
  BY DEF Subscribe, Reconnect, PollTick, IdleTick, RespondToNewRoundLog
<1>2. /\ pc \notin {"off", "start"}
      /\ \/ UNCHANGED <<pc, via>>
         \/ pc' \in {"state", "loop"} /\ via' \in {via, "poll", "idle", "log"}
  <2>1. CASE Subscribe
    BY <2>1 DEF Subscribe, Return
  <2>2. CASE Reconnect
    BY <2>2 DEF Reconnect, Listening
  <2>3. CASE PollTick \/ IdleTick
    BY <2>3 DEF PollTick, IdleTick, BeginPoll
  <2>4. CASE RespondToNewRoundLog
    <3>1. pc = "loop" /\ (UNCHANGED <<pc, via>> \/ (pc' = "state" /\ via' = "log"))
      <4>1. CASE IsOld(Head(logs))
        BY <2>4, <4>1, Zenon DEF RespondToNewRoundLog
      <4>2. CASE ~IsOld(Head(logs))
        <5>1. IF Head(logs).by = Us THEN UNCHANGED <<pc, via>> ELSE pc' = "state" /\ via' = "log"
          BY <2>4, <4>2, Zenon DEF RespondToNewRoundLog
        <5>2. pc = "loop"
          BY <2>4 DEF RespondToNewRoundLog
        <5> QED
          BY <5>1, <5>2
      <4> QED
        BY <4>1, <4>2
    <3> QED
      BY <3>1
  <2> QED
    BY <2>1, <2>2, <2>3, <2>4
<1>3. pc' \in Places \ {"off", "start"} /\ via' \in Vias
  BY <1>2, CheckerIs DEF Places, Vias
<1>4. ChainTypeOK' /\ RunsAreReached'
  BY <1>1, ChainStays, CheckerIs DEF RunsAreReached
<1>5. PollIsAhead'
  BY <1>1, <1>2, ChainStays DEF FluxInv, PollIsAhead
<1> QED
  BY <1>1, <1>2, <1>3, <1>4, <1>5, CheckerIs, CheckerKeeps

\* A poll goes on only for a round beyond the most recent submission.
LEMMA ReadKeeps ==
    ASSUME FluxInv, ReadRoundState
    PROVE  FluxInv'
<1>1. pc = "state" /\ UNCHANGED <<chain, runs, process, recent, seen>>
  BY DEF ReadRoundState
<1>2. \/ /\ reportable' = Reached /\ Reached <= MaxRounds /\ MayAnswer(RoundState)
         /\ pc' = "fetch" /\ via' = via
      \/ /\ reportable' \in {Reached, reportable}
         /\ pc' = "loop" /\ via' = "poll"
  BY RoundStateIs DEF ReadRoundState, Return
<1>3. Reached \in 1 .. MaxRounds + 1
  <2>1. contract \in Contract
    BY DEF FluxInv, ChainTypeOK
  <2> QED
    BY <2>1, ReportableIs, Bounds DEF Reached
<1>4. reportable' \in 0 .. MaxRounds + 1
  BY <1>2, <1>3, CheckerIs, Bounds
<1>5. ChainTypeOK' /\ RunsAreReached'
  BY <1>1, ChainStays, CheckerIs DEF RunsAreReached
<1>6. PollIsAhead'
  <2>1. CASE pc' = "fetch"
    <3>1. reportable' = Reached /\ Reached <= MaxRounds /\ via' = via /\ (via # "log" => recent < Reached)
      BY <1>2, <2>1, RoundStateIs DEF MayAnswer
    <3> QED
      BY <1>1, <1>3, <3>1, ChainStays, CheckerIs, Bounds DEF PollIsAhead
  <2>2. CASE pc' = "loop"
    BY <2>2 DEF PollIsAhead
  <2> QED
    BY <1>2, <2>1, <2>2
<1>7. pc' \in Places \ {"off", "start"} /\ via' \in Vias
  BY <1>2, CheckerIs DEF Places, Vias
<1> QED
  BY <1>1, <1>4, <1>5, <1>6, <1>7, CheckerIs, CheckerKeeps

LEMMA FetchKeeps ==
    ASSUME FluxInv, Fetch
    PROVE  FluxInv'
<1>1. pc = "fetch" /\ UNCHANGED <<chain, runs, process, reportable, recent, seen>>
  BY DEF Fetch
<1>2. \/ pc' = "create" /\ via' = via
      \/ pc' = "loop" /\ via' = "poll"
  <2>1. CASE \E p \in Prices :
                IF via = "log" \/ OutsideDeviation(latest, p, IF via = "idle" THEN 0 ELSE Threshold)
                THEN pc' = "create" /\ latest' = 0 /\ UNCHANGED <<via, idleTicker>>
                ELSE Return
    <3>1. (pc' = "create" /\ UNCHANGED <<via, idleTicker>>) \/ Return
      BY <2>1, Zenon
    <3> QED
      BY <3>1 DEF Return
  <2>2. CASE Return
    BY <2>2 DEF Return
  <2> QED
    BY <2>1, <2>2 DEF Fetch
<1>3. ChainTypeOK' /\ RunsAreReached'
  BY <1>1, ChainStays, CheckerIs DEF RunsAreReached
<1>4. PollIsAhead'
  BY <1>1, <1>2, ChainStays DEF FluxInv, PollIsAhead
<1>5. pc' \in Places \ {"off", "start"} /\ via' \in Vias
  BY <1>2, CheckerIs DEF Places, Vias
<1> QED
  BY <1>1, <1>3, <1>4, <1>5, CheckerIs, CheckerKeeps

\* The run that is created is for a round that the contract has reached.
LEMMA CreateKeeps ==
    ASSUME FluxInv, CreateJobRun
    PROVE  FluxInv'
<1> DEFINE run == [round |-> reportable, via |-> via]
<1>1. /\ pc = "create" /\ pc' = "loop" /\ via' = "poll"
      /\ UNCHANGED <<contract, reported, txs, mined, process, reportable>>
  BY DEF CreateJobRun, Return
<1>2. /\ reportable \in 1 .. MaxRounds /\ reportable \in 0 .. MaxRounds
      /\ reportable <= Reached /\ recent <= reportable
  BY <1>1, CheckerIs, Bounds DEF FluxInv, PollIsAhead
<1>3. Reached' = Reached /\ ChainTypeOK
  BY <1>1 DEF Reached, FluxInv
<1>4. PollIsAhead' /\ pc' \in Places \ {"off", "start"} /\ via' \in Vias
  BY <1>1 DEF PollIsAhead, Places, Vias
<1>5. CASE runs' = Append(runs, run) /\ unsent' = unsent \cup {Len(runs) + 1}
           /\ seen' = seen \cup {reportable} /\ recent' = reportable
  <2>1. run \in Run /\ run.round = reportable
    BY <1>2, CheckerIs DEF Run
  <2>2. runs \in Seq(Run)
    BY <1>3 DEF ChainTypeOK
  <2> HIDE DEF run
  <2>3. /\ runs' \in Seq(Run) /\ Len(runs') = Len(runs) + 1
        /\ \A i \in 1 .. Len(runs') : runs'[i] = IF i = Len(runs) + 1 THEN run ELSE runs[i]
    BY <1>5, <2>1, <2>2, AppendProperties
  <2>4. DOMAIN runs' = 1 .. Len(runs) + 1
    BY <2>3
  <2>5. DOMAIN runs = 1 .. Len(runs) /\ Len(runs) \in Nat
    BY <1>3, RunsAre
  <2>6. ChainTypeOK'
    <3>1. unsent' \subseteq DOMAIN runs'
      BY <1>3, <1>5, <2>4, <2>5 DEF ChainTypeOK
    <3>2. \A i \in DOMAIN txs : txs[i] \in DOMAIN runs' \ unsent'
      BY <1>3, <1>5, <2>4, <2>5 DEF ChainTypeOK
    <3> QED
      BY <1>1, <1>3, <2>3, <3>1, <3>2 DEF ChainTypeOK
  <2>7. RunsAreReached'
    <3>1. ASSUME NEW k \in DOMAIN runs'
          PROVE  runs'[k].round <= Reached
      <4>1. CASE k = Len(runs) + 1
        BY <1>2, <2>1, <2>3, <2>4, <4>1
      <4>2. CASE k # Len(runs) + 1
        <5>1. k \in DOMAIN runs /\ runs'[k] = runs[k]
          BY <2>3, <2>4, <2>5, <4>2
        <5> QED
          BY <5>1 DEF FluxInv, RunsAreReached
      <4> QED
        BY <4>1, <4>2
    <3> QED
      BY <1>2, <1>3, <1>5, <3>1 DEF RunsAreReached
  <2>8. seen' \subseteq Nat /\ \A n \in seen' : n <= recent'
    <3>1. \A n \in seen : n <= recent /\ n \in Int
      BY <1>1, CheckerIs
    <3> QED
      BY <1>2, <1>5, <3>1, CheckerIs
  <2> QED
    BY <1>1, <1>2, <1>4, <1>5, <2>6, <2>7, <2>8, CheckerIs, CheckerKeeps
<1>6. CASE UNCHANGED <<runs, unsent, recent, seen>>
  <2>1. ChainTypeOK' /\ RunsAreReached'
    BY <1>1, <1>3, <1>6 DEF FluxInv, ChainTypeOK, RunsAreReached
  <2> QED
    BY <1>1, <1>4, <1>6, <2>1, CheckerIs, CheckerKeeps
<1> QED
  BY <1>5, <1>6 DEF CreateJobRun

LEMMA FluxInvNext == FluxInv /\ [Next]_vars => FluxInv'
<1> SUFFICES ASSUME FluxInv, [Next]_vars
             PROVE  FluxInv'
  OBVIOUS
<1>1. CASE UNCHANGED vars
  <2>1. UNCHANGED <<contract, reported, unsent, txs, mined, runs, manager, added, archived,
                    pc, via, reportable, recent, seen>>
    BY <1>1 DEF vars, chain, process, checker
  <2> QED
    BY <2>1 DEF FluxInv, ChainTypeOK, CheckerTypeOK, RunsAreReached, PollIsAhead, SeenIsRecent,
                CheckerIsAdded, Reached
<1>2. CASE RoundTimesOut \/ Mine \/ \E o \in Others : OtherAnswers(o)
  BY <1>2, ContractKeeps
<1>3. CASE \E k \in unsent : Execute(k)
  BY <1>3, ExecuteKeeps
<1>4. CASE AddJob \/ RemoveJob \/ Stop \/ CheckerStopped
  BY <1>4, ManagerKeeps
<1>5. CASE Crash \/ Stopped
  BY <1>5, EndKeeps
<1>6. CASE DetermineMostRecentSubmittedRoundID
  BY <1>6, StartKeeps
<1>7. CASE Subscribe \/ Reconnect \/ PollTick \/ IdleTick \/ RespondToNewRoundLog
  BY <1>7, LoopKeeps
<1>8. CASE ReadRoundState
  BY <1>8, ReadKeeps
<1>9. CASE Fetch
  BY <1>9, FetchKeeps
<1>10. CASE CreateJobRun
  BY <1>10, CreateKeeps
<1> QED
  BY <1>1, <1>2, <1>3, <1>4, <1>5, <1>6, <1>7, <1>8, <1>9, <1>10 DEF Next, PollStep

LEMMA FluxInvariant == Spec => []FluxInv
BY FluxInvInit, FluxInvNext, PTL DEF Spec

----------------------------------------------------------------------------

LEMMA FluxInvImpliesTypeOK == FluxInv => TypeOK
<1> SUFFICES ASSUME FluxInv
             PROVE  TypeOK
  OBVIOUS
<1>1. contract \in Contract
  BY DEF FluxInv, ChainTypeOK
<1>2. /\ contract.round \in 0 .. MaxRounds /\ contract.answers \subseteq Oracles
      /\ contract.latest \in Prices \cup {0}
  BY <1>1 DEF Contract
<1>3. ToSet(txs) \subseteq DOMAIN runs \ unsent
  BY DEF FluxInv, ChainTypeOK, ToSet
<1> QED
  BY <1>2, <1>3 DEF FluxInv, ChainTypeOK, CheckerTypeOK, TypeOK, Places, Vias

\* Only the creation of a run changes the runs.
LEMMA OnlyCreateJobRunAdds ==
    ASSUME [Next]_vars, runs' # runs
    PROVE  CreateJobRun
<1>1. ~UNCHANGED runs
  OBVIOUS
<1>2. ~(RoundTimesOut \/ Mine \/ (\E o \in Others : OtherAnswers(o)) \/ (\E k \in unsent : Execute(k)))
  BY <1>1 DEF RoundTimesOut, Mine, OtherAnswers, Execute
<1>3. ~(AddJob \/ RemoveJob \/ Stop \/ CheckerStopped \/ Crash \/ Stopped)
  BY <1>1 DEF AddJob, RemoveJob, Stop, CheckerStopped, Crash, Stopped
<1>4. ~(DetermineMostRecentSubmittedRoundID \/ Subscribe \/ ReadRoundState \/ Fetch)
  BY <1>1 DEF DetermineMostRecentSubmittedRoundID, Subscribe, ReadRoundState, Fetch
<1>5. ~(Reconnect \/ PollTick \/ IdleTick \/ RespondToNewRoundLog)
  BY <1>1 DEF Reconnect, PollTick, IdleTick, RespondToNewRoundLog
<1>6. ~UNCHANGED vars
  BY <1>1 DEF vars
<1> QED
  BY <1>2, <1>3, <1>4, <1>5, <1>6 DEF Next, PollStep

\* The runs of a checker are due, for any oracles, prices, rounds, runs and failures: no
\* poll creates a second run for a round, or one for a round that one of the last
\* transactions was for when the checker started; and a checker whose removal, or
\* whose monitor's Stop, has returned creates none.
THEOREM CheckersRunsAreDue == Spec => RunsAreDue
<1> DEFINE Once == Len(runs') > Len(runs) /\ via # "log" => reportable \notin seen
           Silent == archived \/ manager = "stopped" => runs' = runs
<1>1. ASSUME FluxInv, [Next]_vars
      PROVE  Once
  <2>1. SUFFICES ASSUME Len(runs') > Len(runs), via # "log"
                 PROVE  reportable \notin seen
    OBVIOUS
  <2>2. runs' # runs
    <3>1. Len(runs) \in Nat
      BY <1>1, RunsAre DEF FluxInv
    <3> QED
      BY <2>1, <3>1
  <2>3. pc = "create"
    BY <1>1, <2>2, OnlyCreateJobRunAdds DEF CreateJobRun
  <2>4. recent < reportable
    BY <1>1, <2>1, <2>3 DEF FluxInv, PollIsAhead
  <2>5. \A n \in seen : n <= recent
    BY <1>1, <2>3 DEF FluxInv, SeenIsRecent
  <2>6. recent \in Nat /\ reportable \in Nat
    BY <1>1, CheckerIs
  <2> QED
    BY <2>4, <2>5, <2>6
<1>2. ASSUME FluxInv, [Next]_vars
      PROVE  Silent
  <2>1. SUFFICES ASSUME archived \/ manager = "stopped", runs' # runs
                 PROVE  FALSE
    OBVIOUS
  <2>2. pc = "create"
    BY <1>2, <2>1, OnlyCreateJobRunAdds DEF CreateJobRun
  <2> QED
    BY <1>2, <2>1, <2>2 DEF FluxInv, CheckerIsAdded
<1>3. FluxInv /\ [Next]_vars => TypeOK /\ [Once]_vars /\ [Silent]_vars
  BY <1>1, <1>2, FluxInvImpliesTypeOK
<1>4. []FluxInv /\ [][Next]_vars => []TypeOK /\ [][Once]_vars /\ [][Silent]_vars
  BY <1>3, PTL
<1> QED
  BY <1>4, FluxInvariant, PTL DEF Spec, RunsAreDue, PollsAnswerOnce, RemovedIsSilent
=============================================================================
