------------------------------- MODULE TxManager -------------------------------
(****************************************************************************)
(* The transaction manager (core/store/tx_manager.go).  Runs create a       *)
(* transaction each, with the nonce that the managed account counts, and    *)
(* then ask again and again whether it is safe, for which new attempts with *)
(* a higher gas price are sent.  Operators transfer and withdraw funds with *)
(* transactions of the same accounts, which nobody watches afterwards.      *)
(* Connect, on the goroutine of the head tracker, makes new managed         *)
(* accounts with the nonces of the network and sends the unconfirmed        *)
(* attempts once more; runs may still hold an account of before.            *)
(*                                                                          *)
(* An attempt is its sender, nonce, price and run (which stands for its     *)
(* data); its hash is the attempt itself.  The Ethereum node, its pool and  *)
(* the chain, which does not reorganise, are external.                      *)
(****************************************************************************)
EXTENDS Integers, Sequences, FiniteSets, SequencesExt, FiniteSetsExt

CONSTANTS
    Runs,           \* the job runs, whose id is the surrogate id of a transaction,
                    \* and the requests of an operator for a transfer
    Addresses,      \* the addresses of the registered accounts, in their order
    GasPrice,       \* Config.EthGasPriceDefault
    BumpPercent,    \* Config.EthGasBumpPercent
    BumpWei,        \* Config.EthGasBumpWei
    MaxGasPrice,    \* Config.EthMaxGasPriceWei
    BumpThreshold,  \* Config.EthGasBumpThreshold
    MinConfs,       \* Config.MinOutgoingConfirmations
    AttemptLimit,   \* Config.TxAttemptLimit
    MaxHeight,      \* bound on the blocks mined
    MaxConnects,    \* bound on the calls of Connect
    MaxTroubles     \* bound on the failed calls of the node or the database and
                    \* the restarts of the node that lose its pool, together

ASSUME ConstantsAssumption ==
    /\ Addresses \in Seq(ToSet(Addresses)) \ {<<>>}
    /\ {GasPrice, MaxGasPrice, BumpPercent, BumpWei} \subseteq Nat
    /\ {BumpThreshold, MinConfs, AttemptLimit} \subseteq Nat
    /\ {MaxHeight, MaxConnects, MaxTroubles} \subseteq Nat

Nobody == "nobody"
ASSUME NobodyAssumption == Nobody \notin Runs

VARIABLES
    pool,       \* the attempts in the pool of the Ethereum node
    mined,      \* the attempts mined from each address, with their blocks
    height,     \* the height of the chain
    accepted,   \* the nonces of each address the node has ever accepted an attempt of
    faults,     \* the failed calls so far
    losses,     \* the lost pools so far
    connected,  \* txm.connected
    head,       \* txm.currentHead
    accounts,   \* the managed accounts made so far
    available,  \* txm.availableAccounts, as places in accounts
    next,       \* txm.availableAccountIdx
    resend,     \* what Connect has yet to send again
    txes,       \* the transactions in the database
    call        \* where each run is in the transaction manager

node == <<pool, mined, height, accepted, losses>>
manager == <<connected, head, available, next>>
vars == <<node, faults, manager, accounts, resend, txes, call>>

retryLimit == 3     \* nonceReloadLimit
NoHash == {}     \* a hash is the set of the attempt it belongs to
Resent == [at |-> "off", todo |-> {}]
NoTx == [stored |-> FALSE, from |-> Addresses[1], nonce |-> 0, price |-> 0,
         hash |-> NoHash, confirmed |-> FALSE, attempts |-> <<>>]
Idle == [at |-> "idle", ma |-> 0, tries |-> 0, price |-> 0, i |-> 0, head |-> 0, failed |-> FALSE,
         transfer |-> FALSE]

Steps == {"idle", "store", "send", "record", "reload", "failed", "watch", "check",
          "bump", "recordBump", "account", "safe", "error", "over"}

TypeOK ==
    /\ height \in 0 .. MaxHeight
    /\ head \in 0 .. height
    /\ faults + losses \in 0 .. MaxTroubles
    /\ connected \in BOOLEAN
    /\ \A a \in pool : a.nonce >= Len(mined[a.from])
    /\ \A a, b \in pool : a.from = b.from /\ a.nonce = b.nonce => a = b
    /\ \A k \in DOMAIN accounts : accounts[k].lock \in Runs \cup {Nobody}
    /\ \A k \in DOMAIN available : available[k] \in DOMAIN accounts
    /\ \A r \in Runs :
        /\ call[r].at \in Steps
        /\ call[r].at \in {"send", "record"} <=> \E k \in DOMAIN accounts : accounts[k].lock = r

Init ==
    /\ pool = {}
    /\ mined = [a \in ToSet(Addresses) |-> <<>>]
    /\ height = 0
    /\ accepted = [a \in ToSet(Addresses) |-> {}]
    /\ faults = 0
    /\ losses = 0
    /\ connected = FALSE
    /\ head = 0
    /\ accounts = <<>>
    /\ available = <<>>
    /\ next = 1
    /\ resend = Resent
    /\ txes = [r \in Runs |-> NoTx]
    /\ call = [r \in Runs |-> Idle]

----------------------------------------------------------------------------
(* The Ethereum node.                                                       *)

\* eth_getTransactionCount of the pending block: the first nonce of neither a
\* mined attempt nor, from there on, one of the pool.
PendingNonce(a) ==
    Min({n \in Len(mined[a]) .. Len(mined[a]) + Cardinality(pool) :
            ~\E x \in pool : x.from = a /\ x.nonce = n})

SameNonce(a) == {b \in pool : b.from = a.from /\ b.nonce = a.nonce}

\* What the pool says to an attempt: replacing another takes a tenth more.
Verdict(a) ==
    IF a.nonce < Len(mined[a.from]) THEN "nonce too low"
    ELSE IF a \in pool THEN "same hash was already imported"
    ELSE IF \E b \in SameNonce(a) : a.price * 100 < b.price * 110
         THEN "replacement transaction underpriced"
    ELSE "ok"

Pooled(a) == (pool \ SameNonce(a)) \cup {a}
Note(a) == [accepted EXCEPT ![a.from] = @ \cup {a.nonce}]

\* SendRawTx: the verdict reaches the caller; or the call fails, whether the
\* node has taken the attempt or not.
SendRawTx(a, reply) ==
    \/ /\ reply = Verdict(a)
       /\ pool' = IF reply = "ok" THEN Pooled(a) ELSE pool
       /\ accepted' = IF reply = "ok" THEN Note(a) ELSE accepted
       /\ UNCHANGED faults
    \/ /\ reply = "failed"
       /\ faults + losses < MaxTroubles
       /\ faults' = faults + 1
       /\ \/ UNCHANGED <<pool, accepted>>
          \/ Verdict(a) = "ok" /\ pool' = Pooled(a) /\ accepted' = Note(a)

Replies == {"ok", "nonce too low", "same hash was already imported",
            "replacement transaction underpriced", "failed"}

\* Every block takes one attempt, or none.
Mine ==
    /\ height < MaxHeight
    /\ height' = height + 1
    /\ \/ UNCHANGED <<pool, mined>>
       \/ \E a \in pool :
            /\ a.nonce = Len(mined[a.from])
            /\ mined' = [mined EXCEPT ![a.from] = Append(@, [tx |-> a, block |-> height + 1])]
            /\ pool' = pool \ {a}
    /\ UNCHANGED <<accepted, losses, faults, manager, accounts, resend, txes, call>>

\* The Ethereum node is started again, without its pool, which breaks the
\* connection to it as well.
LosePool ==
    /\ ~connected
    /\ faults + losses < MaxTroubles
    /\ losses' = losses + 1
    /\ pool' = {}
    /\ UNCHANGED <<mined, height, accepted, faults, manager, accounts, resend, txes, call>>

\* The block of the receipt of an attempt, if it has one.
BlockOf(a) == {m.block : m \in {x \in ToSet(mined[a.from]) : x.tx = a}}

Fault == faults + losses < MaxTroubles /\ faults' = faults + 1

----------------------------------------------------------------------------
(* Connect, Disconnect and OnNewHead, called by the head tracker.           *)

ActivateAccount(a) == [address |-> a, nonce |-> PendingNonce(a), lastSafe |-> 0, lock |-> Nobody]

\* The n accounts whose nonces the node tells are activated, in their order; the
\* others are left out.
Connect ==
    /\ ~connected
    /\ Len(accounts) + Len(Addresses) <= MaxConnects * Len(Addresses)
    /\ \E n \in 0 .. Len(Addresses), h \in head .. height :
        \E active \in [1 .. n -> DOMAIN Addresses] :
            /\ \A k, l \in 1 .. n : k < l => active[k] < active[l]
            /\ faults' = faults + Len(Addresses) - n
            /\ faults' + losses <= MaxTroubles
            /\ accounts' = accounts \o [k \in 1 .. n |-> ActivateAccount(Addresses[active[k]])]
            /\ available' = [k \in 1 .. n |-> Len(accounts) + k]
            /\ head' = h
    /\ connected' = TRUE
    /\ resend' = [at |-> "read", todo |-> {}]
    /\ UNCHANGED <<node, next, txes, call>>

\* The transactions of UnconfirmedTxAttempts, whose attempts have no order.
Unconfirmed == {r \in Runs : txes[r].stored /\ ~txes[r].confirmed /\ txes[r].attempts # <<>>}

\* The attempts that HighestPricedTxAttemptPerTx may take for a transaction.
HighestPriced(r) ==
    LET tried == {x.tx : x \in ToSet(txes[r].attempts)}
    IN  {a \in tried : \A b \in tried : a.price >= b.price}

ReadUnconfirmed ==
    /\ resend.at = "read"
    /\ \/ /\ \E pick \in [Unconfirmed -> UNION {HighestPriced(r) : r \in Unconfirmed}] :
                /\ \A r \in Unconfirmed : pick[r] \in HighestPriced(r)
                /\ resend' = [at |-> "send", todo |->
                      {[from |-> txes[r].from, nonce |-> txes[r].nonce, tx |-> pick[r]] :
                          r \in Unconfirmed}]
          /\ UNCHANGED faults
       \/ Fault /\ resend' = Resent
    /\ UNCHANGED <<node, manager, accounts, txes, call>>

\* The place of the managed account of an address, if it is available.
AccountOf(a) == {k \in ToSet(available) : accounts[k].address = a}

\* Mutant: the transaction with the account's own nonce is taken for sent.
SendAgain_SkipsNext(x) ==
    /\ resend.at = "send"
    /\ x \in resend.todo
    /\ resend' = [resend EXCEPT !.todo = @ \ {x}]
    /\ IF \E k \in AccountOf(x.from) : accounts[k].nonce < x.nonce
       THEN \E reply \in Replies : SendRawTx(x.tx, reply)
       ELSE UNCHANGED <<pool, accepted, faults>>
    /\ UNCHANGED <<mined, height, losses, manager, accounts, txes, call>>

\* An attempt is sent again unless the account has gone past its transaction;
\* a failure is logged.
SendAgain(x) ==
    /\ resend.at = "send"
    /\ x \in resend.todo
    /\ resend' = [resend EXCEPT !.todo = @ \ {x}]
    /\ IF \E k \in AccountOf(x.from) : accounts[k].nonce <= x.nonce
       THEN \E reply \in Replies : SendRawTx(x.tx, reply)
       ELSE UNCHANGED <<pool, accepted, faults>>
    /\ UNCHANGED <<mined, height, losses, manager, accounts, txes, call>>

ConnectReturns ==
    /\ resend.at = "send"
    /\ resend.todo = {}
    /\ resend' = Resent
    /\ UNCHANGED <<node, faults, manager, accounts, txes, call>>

Disconnect ==
    /\ connected
    /\ resend = Resent
    /\ connected' = FALSE
    /\ UNCHANGED <<node, faults, head, available, next, accounts, resend, txes, call>>

OnNewHead ==
    /\ connected
    /\ resend = Resent
    /\ head' \in head + 1 .. height
    /\ UNCHANGED <<node, faults, connected, available, next, accounts, resend, txes, call>>

----------------------------------------------------------------------------
(* CreateTxWithGas, called by the run r.                                    *)

To(r, at) == call' = [call EXCEPT ![r].at = at]
At(at) == [Idle EXCEPT !.at = at]

\* A run goes on; nobody asks for a transfer again, or whether it is safe.
Ended(r, at) == At(IF call[r].transfer THEN "over" ELSE at)
Ends(r, at) == call' = [call EXCEPT ![r] = Ended(r, at)]

\* Round robin over the available accounts, k being the one that is taken.
NextActiveAccount(k) ==
    /\ next \in DOMAIN available
    /\ k = available[next]
    /\ next' = (next % Len(available)) + 1

Takes(r, k, transfer) ==
    call' = [call EXCEPT ![r] = [Idle EXCEPT !.at = "store", !.ma = k, !.transfer = transfer]]

NextAccount(r, transfer) ==
    /\ call[r].at = "idle"
    /\ connected
    /\ \E k \in ToSet(available) : NextActiveAccount(k) /\ Takes(r, k, transfer)
    /\ UNCHANGED <<node, faults, connected, head, available, accounts, resend, txes>>

\* A withdrawal is a transaction like a run's, but without a surrogate id.
WithdrawLINK(r) == NextAccount(r, TRUE)

\* A transfer's account, given or the next one, is taken whether it is connected or not.
CreateTxWithEth(r) ==
    /\ call[r].at = "idle"
    /\ \E k \in ToSet(available) :
        /\ NextActiveAccount(k) \/ UNCHANGED next
        /\ Takes(r, k, TRUE)
    /\ UNCHANGED <<node, faults, connected, head, available, accounts, resend, txes>>

Attempt(r) ==
    [from |-> txes[r].from, nonce |-> txes[r].nonce, price |-> txes[r].price, run |-> r]

\* CreateTx of the database: the row of the run, new or in place of the one it has.
\* (A transfer has a row for each try; those before the last never have an attempt.)
TxRow(r, a) ==
    [stored |-> TRUE, from |-> a.from, nonce |-> a.nonce, price |-> a.price,
     hash |-> {a}, confirmed |-> FALSE, attempts |-> txes[r].attempts]

\* GetAndIncrementNonce takes the lock for its callback, which stores the
\* transaction first.
StoreTx(r) ==
    /\ call[r].at = "store"
    /\ LET ma == accounts[call[r].ma]
           a == [from |-> ma.address, nonce |-> ma.nonce, price |-> GasPrice, run |-> r]
       IN  /\ ma.lock = Nobody
           /\ \/ /\ txes' = [txes EXCEPT ![r] = TxRow(r, a)]
                 /\ accounts' = [accounts EXCEPT ![call[r].ma].lock = r]
                 /\ call' = [call EXCEPT ![r].at = "send", ![r].head = head]
                 /\ UNCHANGED faults
              \/ Fault /\ Ends(r, "failed") /\ UNCHANGED <<txes, accounts>>
    /\ UNCHANGED <<node, manager, resend>>

TooLow == {"nonce too low", "same hash was already imported",
           "replacement transaction underpriced"}

\* GetAndIncrementNonce gives the lock back, and counts the nonce that was used.
EndNonce(r, used) ==
    [accounts EXCEPT ![call[r].ma].lock = Nobody,
                     ![call[r].ma].nonce = IF used THEN @ + 1 ELSE @]

\* Mutant: the nonce is counted whether the callback fails or not.
SendInitialTx_CountsAnyway(r) ==
    /\ call[r].at = "send"
    /\ \E reply \in Replies :
        /\ SendRawTx(Attempt(r), reply)
        /\ IF reply = "ok" THEN To(r, "record")
           ELSE IF reply \in TooLow THEN To(r, "reload") ELSE Ends(r, "failed")
        /\ accounts' = IF reply = "ok" THEN accounts ELSE EndNonce(r, TRUE)
    /\ UNCHANGED <<mined, height, losses, manager, resend, txes>>

\* SendRawTx; an error gives the lock back, and the nonce is not counted.
SendInitialTx(r) ==
    /\ call[r].at = "send"
    /\ \E reply \in Replies :
        /\ SendRawTx(Attempt(r), reply)
        /\ IF reply = "ok" THEN To(r, "record")
           ELSE IF reply \in TooLow THEN To(r, "reload") ELSE Ends(r, "failed")
        /\ accounts' = IF reply = "ok" THEN accounts ELSE EndNonce(r, FALSE)
    /\ UNCHANGED <<mined, height, losses, manager, resend, txes>>

\* AddTxAttempt: the row has the values of its last attempt.
AddTxAttempt(r, a) ==
    [txes EXCEPT ![r].price = a.price, ![r].hash = {a},
                 ![r].attempts = Append(@, [tx |-> a, sentAt |-> call[r].head])]

\* The nonce is counted if the attempt is recorded.
RecordAttempt(r) ==
    /\ call[r].at = "record"
    /\ \/ /\ txes' = AddTxAttempt(r, Attempt(r))
          /\ accounts' = EndNonce(r, TRUE)
          /\ Ends(r, "watch")
          /\ UNCHANGED faults
       \/ /\ Fault
          /\ accounts' = EndNonce(r, FALSE)
          /\ Ends(r, "failed")
          /\ UNCHANGED txes
    /\ UNCHANGED <<node, manager, resend>>

\* ReloadNonce, after a while; the last try is not followed by another one.
ReloadNonce(r) ==
    /\ call[r].at = "reload"
    /\ accounts[call[r].ma].lock = Nobody
    /\ \/ /\ accounts' = [accounts EXCEPT ![call[r].ma].nonce = PendingNonce(accounts[call[r].ma].address)]
          /\ call' = [call EXCEPT ![r] =
                IF call[r].tries = retryLimit THEN Ended(r, "failed")
                ELSE [call[r] EXCEPT !.at = "store", !.tries = @ + 1, !.head = 0]]
          /\ UNCHANGED faults
       \/ Fault /\ Ends(r, "failed") /\ UNCHANGED accounts
    /\ UNCHANGED <<node, manager, resend, txes>>

\* A run whose transaction could not be created tries again, when it is resumed.
Resume(r) ==
    /\ call[r].at = "failed"
    /\ call' = [call EXCEPT ![r] = Idle]
    /\ UNCHANGED <<node, faults, manager, accounts, resend, txes>>

----------------------------------------------------------------------------
(* BumpGasUntilSafe, called by the run r.                                   *)

\* FindTxByAttempt, and the height that all attempts are measured by.
FindTx(r) ==
    /\ call[r].at = "watch"
    /\ connected
    /\ call' = [call EXCEPT ![r].at = "check", ![r].i = Len(txes[r].attempts),
                            ![r].head = head, ![r].failed = FALSE]
    /\ UNCHANGED <<node, faults, manager, accounts, resend, txes>>

\* On to the attempt before, or, after the first one and if none has failed, to
\* the account.
Earlier(c) ==
    IF c.i > 1 THEN [c EXCEPT !.at = "check", !.i = @ - 1, !.price = 0]
    ELSE At(IF c.failed THEN "watch" ELSE "account")
Failed(c) == Earlier([c EXCEPT !.failed = TRUE])

BumpGasByIncrement(price) ==
    Max({(price * (100 + BumpPercent)) \div 100, price + BumpWei})

\* Mutant: the block of the receipt is not counted as a confirmation, but once
\* too often.
CheckAttempt_OffByOne(a, h) ==
    IF BlockOf(a) = {} THEN "unconfirmed"
    ELSE IF h < MinConfs + Min(BlockOf(a)) - 2 THEN "confirmed" ELSE "safe"

CheckAttempt(a, h) ==
    IF BlockOf(a) = {} THEN "unconfirmed"
    ELSE IF h < MinConfs + Min(BlockOf(a)) - 1 THEN "confirmed" ELSE "safe"

UpdateLastSafeNonce(from, nonce) ==
    [k \in DOMAIN accounts |->
        IF k \in AccountOf(from) THEN [accounts[k] EXCEPT !.lastSafe = Max({@, nonce})]
        ELSE accounts[k]]

MarkTxSafe(r, a) ==
    [txes EXCEPT ![r].hash = {a}, ![r].price = a.price, ![r].confirmed = TRUE]

\* The accounts in use note that the attempt is safe, and the row is confirmed,
\* unless the database fails, which does not change what the caller is told.
HandleSafe(r, a) ==
    /\ accounts' = UpdateLastSafeNonce(txes[r].from, txes[r].nonce)
    /\ Ends(r, "safe")
    /\ \/ txes' = MarkTxSafe(r, a) /\ UNCHANGED faults
       \/ Fault /\ UNCHANGED txes

\* The last attempt is bumped once it has waited for BumpThreshold blocks.
MustBump(r, c) ==
    /\ c.i - 1 < AttemptLimit
    /\ c.i = Len(txes[r].attempts)
    /\ c.head >= txes[r].attempts[c.i].sentAt + BumpThreshold

ProcessAttempt(r) ==
    /\ call[r].at = "check"
    /\ LET c == call[r]
           a == txes[r].attempts[c.i].tx
           state == CheckAttempt(a, c.head)
           step == IF state = "confirmed" THEN At("watch")
                   ELSE IF MustBump(r, c)
                        THEN [c EXCEPT !.at = "bump", !.price = BumpGasByIncrement(a.price)]
                        ELSE Earlier(c)
       IN  \/ state = "safe" /\ HandleSafe(r, a)
           \/ /\ state # "safe"
              /\ call' = [call EXCEPT ![r] = step]
              /\ UNCHANGED <<faults, accounts, txes>>
           \/ Fault /\ call' = [call EXCEPT ![r] = Failed(c)] /\ UNCHANGED <<accounts, txes>>
    /\ UNCHANGED <<node, manager, resend>>

Bumped(r) ==
    [from |-> txes[r].from, nonce |-> txes[r].nonce, price |-> call[r].price, run |-> r]

\* createAttempt, again with a higher price as long as the node wants more.
BumpGas(r) ==
    /\ call[r].at = "bump"
    /\ LET c == call[r] IN
       IF c.price > MaxGasPrice \/ AccountOf(txes[r].from) = {}
       THEN /\ call' = [call EXCEPT ![r] = Failed(c)]
            /\ UNCHANGED <<pool, accepted, faults>>
       ELSE \E reply \in Replies :
            /\ SendRawTx(Bumped(r), reply)
            /\ call' = [call EXCEPT ![r] =
                  IF reply = "ok" THEN [c EXCEPT !.at = "recordBump"]
                  ELSE IF reply = "replacement transaction underpriced"
                       THEN [c EXCEPT !.price = BumpGasByIncrement(@)]
                       ELSE Failed(c)]
    /\ UNCHANGED <<mined, height, losses, manager, accounts, resend, txes>>

RecordBump(r) ==
    /\ call[r].at = "recordBump"
    /\ LET c == call[r] IN
       \/ /\ txes' = AddTxAttempt(r, Bumped(r))
          /\ call' = [call EXCEPT ![r] = Earlier(c)]
          /\ UNCHANGED faults
       \/ Fault /\ call' = [call EXCEPT ![r] = Failed(c)] /\ UNCHANGED txes
    /\ UNCHANGED <<node, manager, accounts, resend>>

\* A transaction of a later nonce is safe, so this one's nonce was mined too.
Overtaken(r) ==
    \E k \in AccountOf(txes[r].from) : accounts[k].lastSafe > txes[r].nonce

\* checkAccountForConfirmation: a transaction that is overtaken is confirmed
\* without a receipt, which is an error of the run.
CheckAccount(r) ==
    /\ call[r].at = "account"
    /\ \/ /\ ~Overtaken(r)
          /\ Ends(r, "watch")
          /\ UNCHANGED <<txes, faults>>
       \/ /\ Overtaken(r)
          /\ Ends(r, "error")
          /\ \/ txes' = [txes EXCEPT ![r].confirmed = TRUE, ![r].hash = NoHash]
                /\ UNCHANGED faults
             \/ Fault /\ UNCHANGED txes
    /\ UNCHANGED <<node, manager, accounts, resend>>

----------------------------------------------------------------------------

CreateTx(r) ==
    \/ NextAccount(r, FALSE) \/ WithdrawLINK(r) \/ CreateTxWithEth(r)
    \/ StoreTx(r) \/ SendInitialTx(r) \/ RecordAttempt(r) \/ ReloadNonce(r) \/ Resume(r)

BumpGasUntilSafe(r) ==
    \/ FindTx(r) \/ ProcessAttempt(r) \/ BumpGas(r) \/ RecordBump(r) \/ CheckAccount(r)

Next ==
    \/ Mine \/ LosePool
    \/ Connect \/ ReadUnconfirmed \/ ConnectReturns \/ Disconnect \/ OnNewHead
    \/ \E x \in resend.todo : SendAgain(x)
    \/ \E r \in Runs : CreateTx(r) \/ BumpGasUntilSafe(r)

Spec == Init /\ [][Next]_vars

----------------------------------------------------------------------------
(* Properties.                                                              *)

\* No managed account, of this connection or an earlier one, is at a nonce
\* below which the node has not accepted a transaction: a gap would keep all
\* later transactions from being mined.  GetAndIncrementNonce counts a nonce only
\* when it has been used, whatever fails.
NoNonceIsSkipped ==
    \A k \in DOMAIN accounts :
        \A n \in 0 .. accounts[k].nonce - 1 : n \in accepted[accounts[k].address]

\* Accounts, rows, pool and chain agree on the nonces.
NoncesAreKept == TypeOK /\ NoNonceIsSkipped

\* The height of the block in which the nonce of a row was mined.
MinedAt(r) == {m.block : m \in {x \in ToSet(mined[txes[r].from]) : x.tx.nonce = txes[r].nonce}}

\* A transaction is confirmed in the database only when its nonce has been mined
\* MinOutgoingConfirmations deep, by itself if it has a hash; also when that is
\* concluded from the last safe nonce of its account, which starts at 0.
ConfirmedIsSafe ==
    \A r \in Runs : txes[r].confirmed =>
        /\ \E b \in MinedAt(r) : head >= b + MinConfs - 1
        /\ \A a \in txes[r].hash : BlockOf(a) # {}

\* Connect passes over no transaction whose nonce is free: one that it has dealt
\* with, whether by sending it again or because its account is past it, has its
\* nonce mined or in the pool, though the node may have lost its pool before and
\* other runs go on to create transactions.  (If no call has failed.  A transaction
\* recorded after ReadUnconfirmed is left to BumpGasUntilSafe.)
RebroadcastLosesNone ==
    [][\A x \in resend.todo \ resend'.todo : faults' = 0 =>
          \/ x.nonce < Len(mined'[x.from])
          \/ \E a \in pool' : a.from = x.from /\ a.nonce = x.nonce]_vars

\* models/eth.go:21: "SurrogateID is used to look up a transaction using a secondary
\* ID, used to associate jobs with transactions so that we don't double spend in
\* certain failure scenarios".  So the node has at most one transaction of a run.
RunSpendsOnce ==
    \A r \in Runs :
        Cardinality({<<a.from, a.nonce>> :
            a \in {x \in pool \cup UNION {{m.tx : m \in ToSet(mined[f])} : f \in ToSet(Addresses)} :
                      x.run = r}}) <= 1

\* tx_manager.go:858: "NextActiveAccount uses round robin to select a managed account
\* from the list of available accounts".  So the index is one of the list.
IndexIsAvailable == available # <<>> => next \in DOMAIN available
=============================================================================
