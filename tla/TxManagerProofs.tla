---------------------------- MODULE TxManagerProofs ----------------------------
(****************************************************************************)
(* Proofs about the transaction manager, for any accounts, runs, prices and *)
(* bounds: no nonce is skipped, what is confirmed is safe, and Connect      *)
(* passes over nothing that the node has lost.                              *)
(****************************************************************************)
EXTENDS TxManager, FiniteSetTheorems, SequenceTheorems, WellFoundedInduction, TLAPS

Address == ToSet(Addresses)

----------------------------------------------------------------------------
(* The values of the variables.                                             *)

AnAttempt == [from : Address, nonce : Nat, price : Nat, run : Runs]
AnAccount == [address : Address, nonce : Nat, lastSafe : Nat, lock : Runs \cup {Nobody}]
ARow ==
    [stored : BOOLEAN, from : Address, nonce : Nat, price : Nat, hash : SUBSET AnAttempt,
     confirmed : BOOLEAN, attempts : Seq([tx : AnAttempt, sentAt : Nat])]
ACall ==
    [at : Steps, ma : Nat, tries : Nat, price : Nat, i : Nat, head : Nat,
     failed : BOOLEAN, transfer : BOOLEAN]
AResend ==
    [at : {"off", "read", "send"}, todo : SUBSET [from : Address, nonce : Nat, tx : AnAttempt]]

NodeTyped ==
    /\ pool \in SUBSET AnAttempt /\ IsFiniteSet(pool)
    /\ mined \in [Address -> Seq([tx : AnAttempt, block : Nat])]
    /\ height \in Nat /\ height <= MaxHeight
    /\ accepted \in [Address -> SUBSET Nat]
    /\ losses \in Nat /\ faults \in Nat /\ faults + losses <= MaxTroubles

ManagerTyped ==
    /\ connected \in BOOLEAN
    /\ head \in Nat /\ head <= height
    /\ accounts \in Seq(AnAccount)
    /\ available \in Seq(1 .. Len(accounts))
    /\ resend \in AResend

RunsTyped ==
    /\ txes \in [Runs -> ARow]
    /\ call \in [Runs -> ACall]

Typed == NodeTyped /\ ManagerTyped /\ RunsTyped

----------------------------------------------------------------------------
(* The invariant.                                                           *)

\* The pool has one attempt for a nonce, and none for a nonce that is mined; the
\* node has accepted what is in the pool or on the chain.
PoolIsSound ==
    /\ \A a \in pool : a.nonce >= Len(mined[a.from]) /\ a.nonce \in accepted[a.from]
    /\ \A a, b \in pool : a.from = b.from /\ a.nonce = b.nonce => a = b
    /\ \A a \in Address : \A n \in 0 .. Len(mined[a]) - 1 : n \in accepted[a]

Locking == {"send", "record"}
Creating == {"idle", "store", "send", "record", "reload", "failed"}
Checking == {"check", "bump", "recordBump"}

\* A run has the lock of the account it sends from, and of no other.
LocksAreHeld ==
    \A r \in Runs :
        /\ call[r].at \in Locking \cup {"store", "reload"} => call[r].ma \in 1 .. Len(accounts)
        /\ \A k \in 1 .. Len(accounts) :
              accounts[k].lock = r <=> call[r].at \in Locking /\ call[r].ma = k

\* While it has the lock, its transaction has the account's nonce, which the node
\* has accepted when the attempt is to be recorded.
NonceIsHeld(r) ==
    call[r].at \in Locking =>
        /\ txes[r].from = accounts[call[r].ma].address
        /\ txes[r].nonce = accounts[call[r].ma].nonce
        /\ call[r].at = "record" => txes[r].nonce \in accepted[txes[r].from]

\* A run makes attempts of one transaction only, of which it checks one that there is.
AttemptsAreOfRow(r) ==
    /\ call[r].at \in Creating => txes[r].attempts = <<>>
    /\ call[r].at \in Checking => call[r].i \in 1 .. Len(txes[r].attempts)
    /\ call[r].at \in {"watch", "account"} => txes[r].attempts # <<>>
    /\ \A i \in 1 .. Len(txes[r].attempts) :
          /\ txes[r].attempts[i].tx.from = txes[r].from
          /\ txes[r].attempts[i].tx.nonce = txes[r].nonce

NonceInv ==
    /\ Typed /\ PoolIsSound /\ LocksAreHeld /\ NoNonceIsSkipped
    /\ \A r \in Runs : NonceIsHeld(r) /\ AttemptsAreOfRow(r)

\* The nonces of an address are mined in their order.
ChainIsOrdered ==
    \A a \in Address : \A i \in 1 .. Len(mined[a]) :
        /\ mined[a][i].tx.from = a /\ mined[a][i].tx.nonce = i - 1
        /\ mined[a][i].block <= height
        /\ \A j \in 1 .. i : mined[a][j].block <= mined[a][i].block

\* The nonce n of an address is mined deep enough for a head.
DeepEnough(a, n) ==
    /\ n < Len(mined[a])
    /\ mined[a][n + 1].block + MinConfs - 1 <= head

LastSafeIsSafe ==
    /\ \A k \in 1 .. Len(accounts) : 
          accounts[k].lastSafe # 0 => DeepEnough(accounts[k].address, accounts[k].lastSafe)
    /\ \A r \in Runs : call[r].head <= head

\* A transaction is confirmed when its run is done with it.
Done == {"safe", "error", "over"}

RowIsSafe(r) ==
    txes[r].confirmed =>
        /\ call[r].at \in Done
        /\ DeepEnough(txes[r].from, txes[r].nonce)
        /\ \A a \in txes[r].hash : BlockOf(a) # {}

SafetyInv ==
    NonceInv /\ ChainIsOrdered /\ LastSafeIsSafe /\ \A r \in Runs : RowIsSafe(r)

\* The nonce n of an address is mined or in the pool.
Taken(a, n) == n < Len(mined[a]) \/ \E x \in pool : x.from = a /\ x.nonce = n

\* While it is connected, the accounts in use have no nonce behind them that is free.
NoneIsFree ==
    connected =>
        \A k \in ToSet(available) : 
            /\ \A n \in 0 .. accounts[k].nonce - 1 : Taken(accounts[k].address, n)
            /\ \A r \in Runs : call[r].at = "record" /\ call[r].ma = k =>
                  Taken(txes[r].from, txes[r].nonce)

ResendIsSound ==
    /\ resend.at # "off" => connected
    /\ resend.at # "send" => resend.todo = {}
    /\ \A x \in resend.todo : x.tx.from = x.from /\ x.tx.nonce = x.nonce
    /\ connected /\ faults = 0 => \A a \in Address : AccountOf(a) # {}

ResendInv == NonceInv /\ NoneIsFree /\ ResendIsSound
----------------------------------------------------------------------------
(* Facts about the operators.                                               *)

LEMMA MinIsLeast ==
    ASSUME NEW S, S \subseteq Nat, S # {}
    PROVE  Min(S) \in S /\ \A y \in S : Min(S) <= y
<1>1. PICK m \in S : \A y \in S : <<y, m>> \notin OpToRel(<, Nat)
  BY WFMin, NatLessThanWellFounded, Zenon
<1>2. \A y \in S : ~(y < m)
  BY <1>1, Zenon DEF OpToRel
<1>3. \A y \in S : m <= y
  BY <1>2
<1> QED
  BY <1>1, <1>3, Zenon DEF Min

LEMMA MaxOfTwo ==
    ASSUME NEW x \in Nat, NEW y \in Nat
    PROVE  Max({x, y}) = IF x >= y THEN x ELSE y
BY DEF Max

LEMMA BumpIsNat ==
    ASSUME NEW price \in Nat
    PROVE  BumpGasByIncrement(price) \in Nat
<1>1. BumpPercent \in Nat /\ BumpWei \in Nat
  BY ConstantsAssumption
<1>2. price * (100 + BumpPercent) \in Nat
  BY <1>1
<1>3. (price * (100 + BumpPercent)) \div 100 \in Nat
  BY <1>2
<1>4. price + BumpWei \in Nat
  BY <1>1
<1> QED
  BY <1>3, <1>4, MaxOfTwo DEF BumpGasByIncrement

LEMMA IntervalSize ==
    ASSUME NEW m \in Nat, NEW c \in Nat
    PROVE  Cardinality(m .. m + c) = c + 1
<1>1. m \in Int /\ m + c \in Int /\ ~(m > m + c) /\ (m + c) - m + 1 = c + 1
  OBVIOUS
<1> QED
  BY <1>1, FS_Interval

\* The pool has too few attempts to take all the nonces that PendingNonce looks at,
\* so the one it finds is free, and all before it are not.
LEMMA PendingNonceIsFree ==
    ASSUME NodeTyped, NEW a \in Address
    PROVE  /\ PendingNonce(a) \in Nat
           /\ \A n \in 0 .. PendingNonce(a) - 1 : Taken(a, n)
<1> DEFINE L == Len(mined[a])
           c == Cardinality(pool)
           Free == {n \in L .. L + c : ~\E x \in pool : x.from = a /\ x.nonce = n}
<1>1. L \in Nat /\ c \in Nat
  BY FS_CardinalityType DEF NodeTyped
<1>2. Free # {}
  <2> SUFFICES ASSUME Free = {}
               PROVE  FALSE
    OBVIOUS
  <2> DEFINE f == [n \in L .. L + c |-> CHOOSE x \in pool : x.from = a /\ x.nonce = n]
  <2>1. \A n \in L .. L + c : f[n] \in pool /\ f[n].nonce = n
    OBVIOUS
  <2>2. f \in [L .. L + c -> pool]
    BY <2>1
  <2>3. f \in Injection(L .. L + c, pool)
    <3>1. \A m, n \in L .. L + c : f[m] = f[n] => m = n
      BY <2>1
    <3> HIDE DEF f, L, c
    <3>2. IsInjective(f)
      BY <2>2, <3>1, Zenon DEF IsInjective
    <3> QED
      BY <2>2, <3>2, Zenon DEF Injection
  <2>4. Cardinality(L .. L + c) <= c
    BY <2>3, FS_Injection DEF NodeTyped
  <2>5. Cardinality(L .. L + c) = c + 1
    <3> HIDE DEF L, c, f, Free
    <3> QED
      BY <1>1, IntervalSize
  <2> QED
    BY <1>1, <2>4, <2>5
<1>3. Free \subseteq Nat
  BY <1>1
<1>4. PendingNonce(a) = Min(Free)
  BY DEF PendingNonce
<1>5. Min(Free) \in Free /\ \A n \in Free : Min(Free) <= n
  BY <1>2, <1>3, MinIsLeast
<1>6. PendingNonce(a) \in L .. L + c /\ \A n \in Free : PendingNonce(a) <= n
  BY <1>4, <1>5
<1>7. ASSUME NEW n \in 0 .. PendingNonce(a) - 1
      PROVE  Taken(a, n)
  BY <1>1, <1>6, <1>7 DEF Taken
<1> QED
  BY <1>1, <1>6, <1>7

\* What a call of SendRawTx may do: the pool and the accepted nonces stay sound, no nonce
\* becomes free, and the attempt is accepted if the caller is told so.
LEMMA SendingIsSound ==
    ASSUME NodeTyped, PoolIsSound, NEW a \in AnAttempt, NEW reply, SendRawTx(a, reply),
           UNCHANGED <<mined, height, losses>>
    PROVE  /\ NodeTyped' /\ PoolIsSound'
           /\ \A b \in Address : accepted[b] \subseteq accepted'[b]
           /\ \A b \in Address, n \in Nat : Taken(b, n) => Taken(b, n)'
           /\ reply = "ok" => a.nonce \in accepted'[a.from] /\ Taken(a.from, a.nonce)'
           /\ faults' = 0 => reply = Verdict(a)
<1>1. faults' \in Nat /\ faults' + losses <= MaxTroubles /\ (faults' = 0 => reply = Verdict(a))
  <2>1. /\ faults \in Nat /\ losses \in Nat /\ faults + losses <= MaxTroubles
        /\ MaxTroubles \in Nat
    BY ConstantsAssumption DEF NodeTyped
  <2>2. \/ reply = Verdict(a) /\ faults' = faults
        \/ faults + losses < MaxTroubles /\ faults' = faults + 1
    BY Zenon DEF SendRawTx
  <2> QED
    BY <2>1, <2>2
<1> USE DEF NodeTyped
<1>2. CASE UNCHANGED <<pool, accepted>> /\ reply # "ok"
  BY <1>1, <1>2 DEF PoolIsSound, Taken
<1>3. CASE Verdict(a) = "ok" /\ pool' = Pooled(a) /\ accepted' = Note(a)
  <2>1. a.nonce >= Len(mined[a.from])
    BY <1>3 DEF Verdict, AnAttempt
  <2>2. pool' = (pool \ SameNonce(a)) \cup {a}
    BY <1>3 DEF Pooled
  <2>3. accepted' = [accepted EXCEPT ![a.from] = @ \cup {a.nonce}]
    BY <1>3 DEF Note
  <2>4. a.from \in Address /\ a.nonce \in Nat
    BY DEF AnAttempt
  <2>5. pool' \in SUBSET AnAttempt /\ IsFiniteSet(pool')
    <3>1. IsFiniteSet(pool \ SameNonce(a))
      BY FS_Subset
    <3> QED
      BY <2>2, <3>1, FS_AddElement
  <2>6. accepted' \in [Address -> SUBSET Nat]
    BY <2>3, <2>4
  <2>7. \A b \in Address : accepted[b] \subseteq accepted'[b]
    BY <2>3, <2>4
  <2>8. a.nonce \in accepted'[a.from]
    BY <2>3, <2>4
  <2>9. PoolIsSound'
    <3>1. \A b \in pool' : b.nonce >= Len(mined[b.from]) /\ b.nonce \in accepted'[b.from]
      BY <2>1, <2>2, <2>7, <2>8 DEF PoolIsSound, AnAttempt
    <3>2. \A b, c \in pool' : b.from = c.from /\ b.nonce = c.nonce => b = c
      BY <2>2 DEF PoolIsSound, SameNonce
    <3>3. \A b \in Address : \A n \in 0 .. Len(mined[b]) - 1 : n \in accepted'[b]
      BY <2>7 DEF PoolIsSound
    <3> QED
      BY <3>1, <3>2, <3>3 DEF PoolIsSound
  <2>10. \A b \in Address, n \in Nat : Taken(b, n) => Taken(b, n)'
    BY <2>2 DEF Taken, SameNonce
  <2>11. Taken(a.from, a.nonce)'
    BY <2>2 DEF Taken
  <2> QED
    BY <1>1, <2>5, <2>6, <2>7, <2>8, <2>9, <2>10, <2>11
<1> QED
  BY <1>2, <1>3 DEF SendRawTx

----------------------------------------------------------------------------
(* NonceInv.                                                                *)

LEMMA AddressesAreAddress ==
    /\ Addresses \in Seq(Address) /\ Len(Addresses) \in Nat
    /\ \A k \in DOMAIN Addresses : Addresses[k] \in Address
    /\ Addresses[1] \in Address
<1>1. Addresses \in Seq(Address) /\ Addresses # <<>>
  BY ConstantsAssumption DEF Address
<1> QED
  BY <1>1, LenProperties, EmptySeq, ElementOfSeq

LEMMA AccountsAreTyped ==
    ASSUME ManagerTyped
    PROVE  /\ Len(accounts) \in Nat /\ DOMAIN accounts = 1 .. Len(accounts)
           /\ \A k \in 1 .. Len(accounts) :
                 /\ accounts[k] \in AnAccount
                 /\ accounts[k].address \in Address /\ accounts[k].nonce \in Nat
<1>1. accounts \in Seq(AnAccount)
  BY DEF ManagerTyped
<1>2. Len(accounts) \in Nat /\ DOMAIN accounts = 1 .. Len(accounts)
  BY <1>1, LenProperties
<1>3. ASSUME NEW k \in 1 .. Len(accounts)
      PROVE  accounts[k] \in AnAccount
  BY <1>1, <1>3, ElementOfSeq
<1> QED
  BY <1>2, <1>3 DEF AnAccount

LEMMA InitNonceInv == Init => NonceInv
<1> SUFFICES ASSUME Init
             PROVE  NonceInv
  OBVIOUS
<1> USE DEF Init
<1>1. NodeTyped
  <2>1. IsFiniteSet(pool)
    BY FS_EmptySet
  <2> QED
    BY <2>1, ConstantsAssumption DEF NodeTyped, Address
<1>2. ManagerTyped
  <2>1. accounts \in Seq(AnAccount) /\ available \in Seq(1 .. Len(accounts))
    BY EmptySeq
  <2>2. resend \in AResend
    BY DEF Resent, AResend
  <2>3. head \in Nat /\ head <= height
    OBVIOUS
  <2> QED
    BY <2>1, <2>2, <2>3, Zenon DEF ManagerTyped
<1>3. NoTx \in ARow
  BY AddressesAreAddress DEF NoTx, ARow, NoHash
<1>4. Idle \in ACall
  BY DEF Idle, ACall, Steps
<1>5. RunsTyped
  BY <1>3, <1>4 DEF RunsTyped
<1>6. PoolIsSound
  BY DEF PoolIsSound, Address
<1>7. LocksAreHeld /\ NoNonceIsSkipped
  BY DEF LocksAreHeld, Locking, Idle, NoNonceIsSkipped
<1>8. \A r \in Runs : NonceIsHeld(r) /\ AttemptsAreOfRow(r)
  BY DEF NonceIsHeld, AttemptsAreOfRow, Locking, Checking, Idle, NoTx
<1> QED
  BY <1>1, <1>2, <1>5, <1>6, <1>7, <1>8 DEF NonceInv, Typed

\* A step of the node or of Connect: the accounts there are stay as they are, and nobody
\* has the lock of a new one.
LEMMA NodeMoves ==
    ASSUME NonceInv, NodeTyped', PoolIsSound', ManagerTyped', UNCHANGED <<txes, call>>,
           \A a \in Address : accepted[a] \subseteq accepted'[a],
           Len(accounts) <= Len(accounts'),
           \A k \in 1 .. Len(accounts) : accounts'[k] = accounts[k],
           \A k \in Len(accounts) + 1 .. Len(accounts') :
              /\ accounts'[k].lock = Nobody
              /\ \A n \in 0 .. accounts'[k].nonce - 1 : n \in accepted'[accounts'[k].address]
    PROVE  NonceInv'
<1> USE DEF NonceInv, Typed
<1>1. Len(accounts) \in Nat
  BY AccountsAreTyped
<1>2. Len(accounts') \in Nat /\ DOMAIN accounts' = 1 .. Len(accounts')
  BY LenProperties DEF ManagerTyped
<1>3. DOMAIN accounts = 1 .. Len(accounts)
      /\ \A k \in 1 .. Len(accounts) : accounts[k].address \in Address
  BY AccountsAreTyped
<1>4. RunsTyped'
  BY DEF RunsTyped
<1>5. LocksAreHeld'
  <2>1. \A r \in Runs : r # Nobody
    BY NobodyAssumption
  <2>2. ASSUME NEW r \in Runs
        PROVE  call[r].at \in Locking \cup {"store", "reload"} => call[r].ma \in 1 .. Len(accounts)
    BY DEF LocksAreHeld
  <2>3. ASSUME NEW r \in Runs, NEW k \in 1 .. Len(accounts')
        PROVE  accounts'[k].lock = r <=> call[r].at \in Locking /\ call[r].ma = k
    BY <1>1, <2>1, <2>2 DEF LocksAreHeld, Locking
  <2> QED
    BY <1>1, <2>2, <2>3 DEF LocksAreHeld
<1>6. NoNonceIsSkipped'
  BY <1>1, <1>2, <1>3 DEF NoNonceIsSkipped
<1>7. ASSUME NEW r \in Runs
      PROVE  NonceIsHeld(r)' /\ AttemptsAreOfRow(r)'
  <2>1. txes[r].from \in Address
    BY DEF RunsTyped, ARow
  <2>2. call[r].at \in Locking => call[r].ma \in 1 .. Len(accounts)
    BY DEF LocksAreHeld
  <2> QED
    BY <2>1, <2>2 DEF NonceIsHeld, AttemptsAreOfRow
<1> QED
  BY <1>4, <1>5, <1>6, <1>7

\* A step of a run that has no lock, neither before nor after it: it leaves the locks and
\* the nonces of the accounts alone.
LEMMA RunMoves ==
    ASSUME NonceInv, NodeTyped', PoolIsSound', ManagerTyped', NEW r \in Runs,
           NEW c \in ACall, call' = [call EXCEPT ![r] = c],
           NEW t \in ARow, txes' = [txes EXCEPT ![r] = t],
           \A a \in Address : accepted[a] \subseteq accepted'[a],
           Len(accounts') = Len(accounts),
           \A k \in 1 .. Len(accounts) :
              /\ accounts'[k].address = accounts[k].address
              /\ accounts'[k].nonce = accounts[k].nonce
              /\ accounts'[k].lock = accounts[k].lock,
           call[r].at \notin Locking, c.at \notin Locking,
           c.at \in {"store", "reload"} => c.ma \in 1 .. Len(accounts),
           AttemptsAreOfRow(r)'
    PROVE  NonceInv'
<1> USE DEF NonceInv, Typed
<1>1. Len(accounts) \in Nat /\ DOMAIN accounts = 1 .. Len(accounts)
  BY AccountsAreTyped
<1>2. DOMAIN accounts' = 1 .. Len(accounts)
  BY LenProperties DEF ManagerTyped
<1>3. \A k \in 1 .. Len(accounts) : accounts[k].address \in Address
  BY AccountsAreTyped
<1>4. /\ call'[r] = c /\ txes'[r] = t
      /\ \A s \in Runs \ {r} : call'[s] = call[s] /\ txes'[s] = txes[s]
  BY DEF RunsTyped
<1>5. RunsTyped'
  BY DEF RunsTyped
<1>6. LocksAreHeld'
  BY <1>1, <1>4 DEF LocksAreHeld
<1>7. NoNonceIsSkipped'
  BY <1>2, <1>3 DEF NoNonceIsSkipped
<1>8. ASSUME NEW s \in Runs \ {r}
      PROVE  NonceIsHeld(s)' /\ AttemptsAreOfRow(s)'
  <2>1. txes[s].from \in Address
    BY DEF RunsTyped, ARow
  <2>2. call[s].at \in Locking => call[s].ma \in 1 .. Len(accounts)
    BY DEF LocksAreHeld
  <2> QED
    BY <1>4, <2>1, <2>2 DEF NonceIsHeld, AttemptsAreOfRow
<1>9. NonceIsHeld(r)'
  BY <1>4 DEF NonceIsHeld
<1> QED
  BY <1>5, <1>6, <1>7, <1>8, <1>9

LEMMA MineKeepsNonceInv ==
    ASSUME NonceInv, Mine
    PROVE  NonceInv'
<1>1. UNCHANGED <<accepted, losses, faults, manager, accounts, resend, txes, call>>
  BY DEF Mine
<1>2. height' = height + 1 /\ height' \in Nat /\ height' <= MaxHeight
  <2>1. height \in Nat /\ MaxHeight \in Nat
    BY ConstantsAssumption DEF NonceInv, Typed, NodeTyped
  <2>2. height < MaxHeight /\ height' = height + 1
    BY DEF Mine
  <2> QED
    BY <2>1, <2>2
<1> USE DEF NonceInv, Typed
<1>3. ManagerTyped'
  BY <1>1, <1>2 DEF ManagerTyped, NodeTyped, manager
<1>4. NodeTyped' /\ PoolIsSound'
  <2>1. CASE UNCHANGED <<pool, mined>>
    BY <1>1, <1>2, <2>1 DEF NodeTyped, PoolIsSound
  <2>2. ASSUME NEW a \in pool, a.nonce = Len(mined[a.from]),
               mined' = [mined EXCEPT ![a.from] = Append(@, [tx |-> a, block |-> height + 1])],
               pool' = pool \ {a}
        PROVE  NodeTyped' /\ PoolIsSound'
    <3>1. a \in AnAttempt /\ a.from \in Address
      BY <2>2 DEF NodeTyped, AnAttempt
    <3>2. mined[a.from] \in Seq([tx : AnAttempt, block : Nat])
      BY <3>1 DEF NodeTyped
    <3> DEFINE m == Append(mined[a.from], [tx |-> a, block |-> height + 1])
    <3>3. m \in Seq([tx : AnAttempt, block : Nat]) /\ Len(m) = Len(mined[a.from]) + 1
      BY <1>2, <3>1, <3>2
    <3>4. mined' = [mined EXCEPT ![a.from] = m]
      BY <2>2
    <3> HIDE DEF m
    <3>5. mined' \in [Address -> Seq([tx : AnAttempt, block : Nat])]
      BY <3>1, <3>3, <3>4 DEF NodeTyped
    <3>6. \A b \in Address : Len(mined'[b]) = IF b = a.from THEN Len(mined[b]) + 1 ELSE Len(mined[b])
      BY <3>1, <3>3, <3>4 DEF NodeTyped
    <3>7. IsFiniteSet(pool')
      BY <2>2, FS_Subset DEF NodeTyped
    <3>8. NodeTyped'
      BY <1>1, <1>2, <2>2, <3>5, <3>7 DEF NodeTyped
    <3>9. \A b \in pool' : b.nonce >= Len(mined'[b.from]) /\ b.nonce \in accepted'[b.from]
      <4> SUFFICES ASSUME NEW b \in pool'
                   PROVE  b.nonce >= Len(mined'[b.from]) /\ b.nonce \in accepted'[b.from]
        OBVIOUS
      <4>1. b \in pool /\ b # a /\ b \in AnAttempt
        BY <2>2 DEF NodeTyped
      <4>2. b.from \in Address /\ b.nonce \in Nat /\ Len(mined[b.from]) \in Nat
        BY <4>1, LenProperties DEF NodeTyped, AnAttempt
      <4>3. b.nonce >= Len(mined[b.from]) /\ b.nonce \in accepted[b.from]
        BY <4>1 DEF PoolIsSound
      <4>4. b.from = a.from => b.nonce # Len(mined[a.from])
        BY <2>2, <4>1 DEF PoolIsSound
      <4> QED
        BY <1>1, <3>6, <4>2, <4>3, <4>4
    <3>10. \A b, c \in pool' : b.from = c.from /\ b.nonce = c.nonce => b = c
      BY <2>2 DEF PoolIsSound
    <3>11. \A b \in Address : \A n \in 0 .. Len(mined'[b]) - 1 : n \in accepted'[b]
      <4> SUFFICES ASSUME NEW b \in Address, NEW n \in 0 .. Len(mined'[b]) - 1
                   PROVE  n \in accepted[b]
        BY <1>1
      <4>1. Len(mined[b]) \in Nat
        BY LenProperties DEF NodeTyped
      <4>2. n \in 0 .. Len(mined[b]) - 1 \/ (b = a.from /\ n = a.nonce)
        BY <2>2, <3>6, <4>1
      <4> QED
        BY <2>2, <4>2 DEF PoolIsSound
    <3> QED
      BY <3>8, <3>9, <3>10, <3>11 DEF PoolIsSound
  <2> QED
    BY <2>1, <2>2 DEF Mine
<1> QED
  BY <1>1, <1>3, <1>4, NodeMoves, AccountsAreTyped

LEMMA LosePoolKeepsNonceInv ==
    ASSUME NonceInv, LosePool
    PROVE  NonceInv'
<1> USE DEF NonceInv, Typed
<1>1. /\ UNCHANGED <<mined, height, accepted, faults, manager, accounts, resend, txes, call>>
      /\ pool' = {} /\ losses' = losses + 1 /\ faults + losses < MaxTroubles
  BY DEF LosePool
<1>2. NodeTyped'
  <2>1. IsFiniteSet(pool')
    BY <1>1, FS_EmptySet
  <2>2. losses' \in Nat /\ faults + losses' <= MaxTroubles
    BY <1>1, ConstantsAssumption DEF NodeTyped
  <2> QED
    BY <1>1, <2>1, <2>2 DEF NodeTyped
<1>3. PoolIsSound' /\ ManagerTyped'
  BY <1>1 DEF PoolIsSound, ManagerTyped, manager
<1> QED
  BY <1>1, <1>2, <1>3, NodeMoves, AccountsAreTyped

\* The accounts that Connect makes start at the nonces of the node.
LEMMA ConnectKeepsNonceInv ==
    ASSUME NonceInv, Connect
    PROVE  NonceInv'
<1> USE DEF NonceInv, Typed
<1>1. UNCHANGED <<node, txes, call>> /\ connected' = TRUE /\ resend' = [at |-> "read", todo |-> {}]
  BY DEF Connect
<1>2. PICK n \in 0 .. Len(Addresses), h \in head .. height :
        \E active \in [1 .. n -> DOMAIN Addresses] :
            /\ faults' = faults + Len(Addresses) - n
            /\ faults' + losses <= MaxTroubles
            /\ accounts' = accounts \o [k \in 1 .. n |-> ActivateAccount(Addresses[active[k]])]
            /\ available' = [k \in 1 .. n |-> Len(accounts) + k]
            /\ head' = h
  BY DEF Connect
<1>3. PICK active \in [1 .. n -> DOMAIN Addresses] :
            /\ faults' = faults + Len(Addresses) - n
            /\ faults' + losses <= MaxTroubles
            /\ accounts' = accounts \o [k \in 1 .. n |-> ActivateAccount(Addresses[active[k]])]
            /\ available' = [k \in 1 .. n |-> Len(accounts) + k]
            /\ head' = h
  BY <1>2
<1> DEFINE made == [k \in 1 .. n |-> ActivateAccount(Addresses[active[k]])]
<1>4. n \in Nat /\ Len(Addresses) \in Nat /\ Len(accounts) \in Nat
  BY <1>2, AddressesAreAddress, AccountsAreTyped
<1>5. ASSUME NEW k \in 1 .. n
      PROVE  /\ made[k] \in AnAccount
             /\ made[k].lock = Nobody
             /\ \A m \in 0 .. made[k].nonce - 1 : m \in accepted[made[k].address]
  <2> DEFINE a == Addresses[active[k]]
  <2>1. a \in Address
    BY <1>3, <1>5, AddressesAreAddress
  <2> HIDE DEF a
  <2>2. PendingNonce(a) \in Nat /\ \A m \in 0 .. PendingNonce(a) - 1 : Taken(a, m)
    BY <2>1, PendingNonceIsFree
  <2>3. \A m \in 0 .. PendingNonce(a) - 1 : m \in accepted[a]
    <3>1. Len(mined[a]) \in Nat
      BY <2>1, LenProperties DEF NodeTyped
    <3> QED
      BY <2>1, <2>2, <3>1 DEF PoolIsSound, Taken
  <2>4. made[k] = [address |-> a, nonce |-> PendingNonce(a), lastSafe |-> 0, lock |-> Nobody]
    BY <1>5 DEF a, ActivateAccount
  <2> QED
    BY <2>1, <2>2, <2>3, <2>4 DEF AnAccount
<1>6. made \in Seq(AnAccount) /\ Len(made) = n
  <2>1. made \in [1 .. n -> AnAccount]
    BY <1>5
  <2> HIDE DEF made
  <2>2. made \in Seq(AnAccount)
    BY <1>4, <2>1
  <2> QED
    BY <1>4, <2>1, <2>2, LenProperties
<1>7. accounts \in Seq(AnAccount)
  BY DEF ManagerTyped
<1>8. accounts' = accounts \o made
  BY <1>3
<1> HIDE DEF made
<1>9. /\ accounts' \in Seq(AnAccount) /\ Len(accounts') = Len(accounts) + n
      /\ \A k \in 1 .. Len(accounts) + n :
            accounts'[k] = IF k <= Len(accounts) THEN accounts[k] ELSE made[k - Len(accounts)]
  BY <1>6, <1>7, <1>8, ConcatProperties
<1>10. NodeTyped' /\ PoolIsSound'
  <2>1. faults' \in Nat /\ faults' + losses <= MaxTroubles
    BY <1>2, <1>3, <1>4 DEF NodeTyped
  <2> QED
    BY <1>1, <2>1 DEF NodeTyped, PoolIsSound, node
<1>11. available' \in Seq(1 .. Len(accounts'))
  <2>1. available' \in [1 .. n -> 1 .. Len(accounts')]
    BY <1>3, <1>4, <1>9
  <2> QED
    BY <1>4, <2>1
<1>12. head' \in Nat /\ head' <= height'
  BY <1>1, <1>2, <1>3 DEF ManagerTyped, NodeTyped, node
<1>13. resend' \in AResend /\ connected' \in BOOLEAN
  BY <1>1 DEF AResend
<1>14. ManagerTyped'
  BY <1>9, <1>11, <1>12, <1>13, Zenon DEF ManagerTyped
<1>15. ASSUME NEW k \in Len(accounts) + 1 .. Len(accounts')
       PROVE  /\ accounts'[k].lock = Nobody
              /\ \A m \in 0 .. accounts'[k].nonce - 1 : m \in accepted'[accounts'[k].address]
  <2>1. k - Len(accounts) \in 1 .. n /\ accounts'[k] = made[k - Len(accounts)]
    BY <1>4, <1>9, <1>15
  <2> QED
    BY <1>1, <1>5, <2>1 DEF node
<1>16. \A k \in 1 .. Len(accounts) : accounts'[k] = accounts[k]
  BY <1>4, <1>9
<1>17. Len(accounts) <= Len(accounts')
  BY <1>4, <1>9
<1>18. \A a \in Address : accepted[a] \subseteq accepted'[a]
  BY <1>1 DEF node
<1> QED
  BY <1>1, <1>10, <1>14, <1>15, <1>16, <1>17, <1>18, NodeMoves

LEMMA FaultIsTyped ==
    ASSUME NodeTyped, Fault
    PROVE  faults' \in Nat /\ faults' + losses <= MaxTroubles
BY ConstantsAssumption DEF NodeTyped, Fault

LEMMA AttemptIsTyped ==
    ASSUME RunsTyped, NEW r \in Runs, NEW i \in 1 .. Len(txes[r].attempts)
    PROVE  txes[r].attempts[i] \in [tx : AnAttempt, sentAt : Nat]
<1>1. txes[r].attempts \in Seq([tx : AnAttempt, sentAt : Nat])
  BY DEF RunsTyped, ARow
<1> QED
  BY <1>1, ElementOfSeq

\* What Connect is to send again are attempts of transactions, one for each.
LEMMA ResendIsTyped ==
    ASSUME NonceInv, ReadUnconfirmed
    PROVE  resend' \in AResend /\ \A x \in resend'.todo : x.tx.from = x.from /\ x.tx.nonce = x.nonce
<1>1. CASE resend' = Resent
  BY <1>1 DEF AResend, Resent
<1>2. ASSUME NEW pick, \A r \in Unconfirmed : pick[r] \in HighestPriced(r),
             resend' = [at |-> "send", todo |->
                {[from |-> txes[r].from, nonce |-> txes[r].nonce, tx |-> pick[r]] : r \in Unconfirmed}]
      PROVE  resend' \in AResend /\ \A x \in resend'.todo : x.tx.from = x.from /\ x.tx.nonce = x.nonce
  <2>1. ASSUME NEW r \in Unconfirmed
        PROVE  /\ pick[r] \in AnAttempt /\ pick[r].from = txes[r].from /\ pick[r].nonce = txes[r].nonce
               /\ txes[r].from \in Address /\ txes[r].nonce \in Nat
    <3>1. r \in Runs
      BY DEF Unconfirmed
    <3>2. txes[r].attempts \in Seq([tx : AnAttempt, sentAt : Nat])
          /\ txes[r].from \in Address /\ txes[r].nonce \in Nat
      BY <3>1 DEF NonceInv, Typed, RunsTyped, ARow
    <3>3. DOMAIN txes[r].attempts = 1 .. Len(txes[r].attempts)
      BY <3>2
    <3>4. PICK i \in DOMAIN txes[r].attempts : pick[r] = txes[r].attempts[i].tx
      BY <1>2 DEF HighestPriced, ToSet
    <3>5. pick[r] \in AnAttempt
      BY <3>1, <3>3, <3>4, AttemptIsTyped DEF NonceInv, Typed
    <3> QED
      BY <3>1, <3>2, <3>3, <3>4, <3>5 DEF NonceInv, AttemptsAreOfRow
  <2> QED
    BY <1>2, <2>1 DEF AResend
<1> QED
  BY <1>1, <1>2 DEF ReadUnconfirmed

LEMMA ManagerStepsKeepNonceInv ==
    ASSUME NonceInv,
           \/ ReadUnconfirmed \/ ConnectReturns \/ Disconnect \/ OnNewHead
           \/ \E x \in resend.todo : SendAgain(x)
    PROVE  NonceInv'
<1> USE DEF NonceInv, Typed
<1>1. /\ UNCHANGED <<txes, call, accounts, available, mined, height, losses>>
      /\ Len(accounts) <= Len(accounts')
  <2>1. UNCHANGED <<txes, call, accounts, available, mined, height, losses>>
    BY DEF ReadUnconfirmed, ConnectReturns, Disconnect, OnNewHead, SendAgain, node, manager
  <2> QED
    BY <2>1, AccountsAreTyped
<1>2. CASE ReadUnconfirmed
  <2>1. faults' \in Nat /\ faults' + losses <= MaxTroubles
    BY <1>2, FaultIsTyped DEF ReadUnconfirmed, NodeTyped
  <2>2. UNCHANGED <<node, manager>> /\ resend' \in AResend
    BY <1>2, ResendIsTyped DEF ReadUnconfirmed
  <2>3. NodeTyped' /\ PoolIsSound' /\ ManagerTyped'
    BY <1>1, <2>1, <2>2 DEF NodeTyped, PoolIsSound, ManagerTyped, node, manager
  <2> QED
    BY <1>1, <2>2, <2>3, NodeMoves, AccountsAreTyped DEF node
<1>3. CASE ConnectReturns \/ Disconnect \/ OnNewHead
  <2>1. UNCHANGED <<node, faults>>
    BY <1>3 DEF ConnectReturns, Disconnect, OnNewHead
  <2>2. resend' \in AResend /\ connected' \in BOOLEAN
    <3>1. resend' \in AResend
      BY <1>3 DEF ConnectReturns, Disconnect, OnNewHead, Resent, AResend, ManagerTyped
    <3>2. connected' = connected \/ connected' = FALSE
      BY <1>3, Zenon DEF ConnectReturns, Disconnect, OnNewHead, manager
    <3> QED
      BY <3>1, <3>2, Zenon DEF ManagerTyped
  <2>3. head' \in Nat /\ head' <= height'
    BY <1>3, <2>1 DEF ConnectReturns, Disconnect, OnNewHead, manager, ManagerTyped, NodeTyped, node
  <2>4. NodeTyped' /\ PoolIsSound'
    BY <2>1 DEF NodeTyped, PoolIsSound, node
  <2>5. ManagerTyped'
    BY <1>1, <2>2, <2>3, Zenon DEF ManagerTyped
  <2> QED
    BY <1>1, <2>1, <2>4, <2>5, NodeMoves, AccountsAreTyped DEF node
<1>4. ASSUME NEW x \in resend.todo, SendAgain(x)
      PROVE  NonceInv'
  <2>1. x.tx \in AnAttempt
    BY DEF ManagerTyped, AResend
  <2>2. NodeTyped' /\ PoolIsSound' /\ \A b \in Address : accepted[b] \subseteq accepted'[b]
    <3>1. CASE UNCHANGED <<pool, accepted, faults>>
      BY <1>1, <3>1 DEF NodeTyped, PoolIsSound
    <3>2. ASSUME NEW reply, SendRawTx(x.tx, reply)
          PROVE  NodeTyped' /\ PoolIsSound' /\ \A b \in Address : accepted[b] \subseteq accepted'[b]
      BY <1>1, <2>1, <3>2, SendingIsSound
    <3> QED
      BY <1>4, <3>1, <3>2 DEF SendAgain
  <2>3. resend' \in AResend /\ UNCHANGED manager
    <3>1. resend' = [resend EXCEPT !.todo = @ \ {x}] /\ resend \in AResend /\ UNCHANGED manager
      BY <1>4 DEF SendAgain, ManagerTyped
    <3> QED
      BY <3>1 DEF AResend
  <2>4. ManagerTyped'
    BY <1>1, <2>3 DEF ManagerTyped, manager
  <2> QED
    BY <1>1, <2>2, <2>4, NodeMoves, AccountsAreTyped
<1> QED
  BY <1>2, <1>3, <1>4

\* The steps in which a run has no lock.
LEMMA QuietStepsKeepNonceInv ==
    ASSUME NonceInv, NEW r \in Runs,
           \/ \E transfer \in BOOLEAN : NextAccount(r, transfer)
           \/ CreateTxWithEth(r) \/ Resume(r) \/ FindTx(r) \/ CheckAccount(r)
    PROVE  NonceInv'
<1> USE DEF NonceInv, Typed
<1>1. call[r] \in ACall /\ txes[r] \in ARow
  BY DEF RunsTyped
<1>2. UNCHANGED <<node, accounts, available, connected, head, resend>>
  BY DEF NextAccount, CreateTxWithEth, Resume, FindTx, CheckAccount, manager
<1>3. faults' \in Nat /\ faults' + losses <= MaxTroubles
  BY FaultIsTyped DEF NextAccount, CreateTxWithEth, Resume, FindTx, CheckAccount, NodeTyped
<1>4. NodeTyped' /\ PoolIsSound' /\ ManagerTyped'
  BY <1>2, <1>3 DEF NodeTyped, PoolIsSound, ManagerTyped, node
<1>5. \A a \in Address : accepted[a] \subseteq accepted'[a]
  BY <1>2 DEF node
<1>6. CASE (\E transfer \in BOOLEAN : NextAccount(r, transfer)) \/ CreateTxWithEth(r)
  <2>1. PICK k \in ToSet(available), transfer \in BOOLEAN : Takes(r, k, transfer)
    BY <1>6 DEF NextAccount, CreateTxWithEth
  <2>2. k \in 1 .. Len(accounts) /\ k \in Nat
    BY <2>1, AccountsAreTyped, ElementOfSeq DEF ManagerTyped, ToSet
  <2> DEFINE c == [Idle EXCEPT !.at = "store", !.ma = k, !.transfer = transfer]
  <2>3. c \in ACall /\ c.at = "store" /\ c.ma = k
    BY <2>2 DEF Idle, ACall, Steps
  <2>4. call' = [call EXCEPT ![r] = c]
    BY <2>1 DEF Takes
  <2>5. call[r].at = "idle" /\ UNCHANGED txes
    BY <1>6 DEF NextAccount, CreateTxWithEth
  <2> HIDE DEF c
  <2>6. AttemptsAreOfRow(r)'
    BY <1>1, <2>3, <2>4, <2>5 DEF AttemptsAreOfRow, RunsTyped, Creating, Checking
  <2>7. txes' = [txes EXCEPT ![r] = txes[r]]
    BY <2>5 DEF RunsTyped
  <2> QED
    BY <1>1, <1>2, <1>4, <1>5, <2>2, <2>3, <2>4, <2>5, <2>6, <2>7, RunMoves DEF Locking
<1>7. CASE Resume(r)
  <2>1. call' = [call EXCEPT ![r] = Idle] /\ call[r].at = "failed" /\ UNCHANGED txes
    BY <1>7 DEF Resume
  <2>2. Idle \in ACall /\ Idle.at = "idle"
    BY DEF Idle, ACall, Steps
  <2>3. AttemptsAreOfRow(r)'
    BY <1>1, <2>1, <2>2 DEF AttemptsAreOfRow, RunsTyped, Creating, Checking
  <2>4. txes' = [txes EXCEPT ![r] = txes[r]]
    BY <2>1 DEF RunsTyped
  <2> QED
    BY <1>1, <1>2, <1>4, <1>5, <2>1, <2>2, <2>3, <2>4, RunMoves DEF Locking
<1>8. CASE FindTx(r)
  <2> DEFINE c == [call[r] EXCEPT !.at = "check", !.i = Len(txes[r].attempts), !.head = head,
                                  !.failed = FALSE]
  <2>1. Len(txes[r].attempts) \in Nat /\ txes[r].attempts \in Seq([tx : AnAttempt, sentAt : Nat])
    BY <1>1 DEF ARow
  <2>2. c \in ACall /\ c.at = "check" /\ c.i = Len(txes[r].attempts)
    BY <1>1, <2>1 DEF ACall, ManagerTyped, Steps
  <2>3. call' = [call EXCEPT ![r] = c] /\ call[r].at = "watch" /\ UNCHANGED txes
    BY <1>1, <1>8 DEF FindTx, RunsTyped, ACall
  <2> HIDE DEF c
  <2>4. txes[r].attempts # <<>> /\ Len(txes[r].attempts) >= 1
    BY <2>1, <2>3, EmptySeq DEF AttemptsAreOfRow
  <2>5. AttemptsAreOfRow(r)'
    BY <1>1, <2>1, <2>2, <2>3, <2>4 DEF AttemptsAreOfRow, RunsTyped, Creating, Checking
  <2>6. txes' = [txes EXCEPT ![r] = txes[r]]
    BY <2>3 DEF RunsTyped
  <2> QED
    BY <1>1, <1>2, <1>4, <1>5, <2>2, <2>3, <2>5, <2>6, RunMoves DEF Locking
<1>9. CASE CheckAccount(r)
  <2>1. PICK at \in {"watch", "error"} : Ends(r, at)
    BY <1>9 DEF CheckAccount
  <2>2. PICK t \in ARow : txes' = [txes EXCEPT ![r] = t] /\ t.attempts = txes[r].attempts
                          /\ t.from = txes[r].from /\ t.nonce = txes[r].nonce
    <3>1. CASE UNCHANGED txes
      <4>1. txes' = [txes EXCEPT ![r] = txes[r]]
        BY <3>1 DEF RunsTyped
      <4> QED
        BY <1>1, <4>1
    <3>2. CASE txes' = [txes EXCEPT ![r].confirmed = TRUE, ![r].hash = NoHash]
      <4> DEFINE t == [txes[r] EXCEPT !.confirmed = TRUE, !.hash = NoHash]
      <4>1. t \in ARow /\ t.attempts = txes[r].attempts /\ t.from = txes[r].from
            /\ t.nonce = txes[r].nonce
        BY <1>1 DEF ARow, NoHash
      <4>2. txes' = [txes EXCEPT ![r] = t]
        BY <3>2 DEF RunsTyped
      <4> QED
        BY <4>1, <4>2
    <3> QED
      BY <1>9, <3>1, <3>2 DEF CheckAccount
  <2> DEFINE c == Ended(r, at)
  <2>3. c \in ACall /\ c.at \in {"watch", "error", "over"}
    BY <2>1 DEF Ended, At, Idle, ACall, Steps
  <2>4. call' = [call EXCEPT ![r] = c] /\ call[r].at = "account"
    BY <1>9, <2>1 DEF CheckAccount, Ends
  <2> HIDE DEF c
  <2>5. txes[r].attempts # <<>>
    BY <2>4 DEF AttemptsAreOfRow
  <2>6. AttemptsAreOfRow(r)'
    BY <1>1, <2>2, <2>3, <2>4, <2>5 DEF AttemptsAreOfRow, RunsTyped, Creating, Checking
  <2> QED
    BY <1>1, <1>2, <1>4, <1>5, <2>2, <2>3, <2>4, <2>6, RunMoves DEF Locking
<1> QED
  BY <1>6, <1>7, <1>8, <1>9

LEMMA EarlierIsTyped ==
    ASSUME NEW c \in ACall, NEW n \in Nat, c.i \in 1 .. n
    PROVE  /\ Earlier(c) \in ACall /\ Failed(c) \in ACall
           /\ \A d \in {Earlier(c), Failed(c)} :
                 /\ d.at \in {"check", "watch", "account"}
                 /\ d.at = "check" => d.i \in 1 .. n
                 /\ d.head \in {0, c.head}
<1>1. ASSUME NEW e \in ACall, e.i = c.i, e.head = c.head
      PROVE  /\ Earlier(e) \in ACall
             /\ Earlier(e).at \in {"check", "watch", "account"}
             /\ Earlier(e).at = "check" => Earlier(e).i \in 1 .. n
             /\ Earlier(e).head \in {0, c.head}
  <2>1. CASE e.i > 1
    <3> DEFINE d == [e EXCEPT !.at = "check", !.i = e.i - 1, !.price = 0]
    <3>1. Earlier(e) = d
      BY <1>1, <2>1 DEF Earlier, ACall
    <3>2. e.i - 1 \in Nat /\ e.i - 1 \in 1 .. n
      BY <1>1, <2>1
    <3>3. d \in ACall /\ d.at = "check" /\ d.i = e.i - 1 /\ d.head = e.head
      BY <1>1, <3>2 DEF ACall, Steps
    <3> HIDE DEF d
    <3> QED
      BY <1>1, <3>1, <3>2, <3>3
  <2>2. CASE ~(e.i > 1)
    <3>1. PICK at \in {"watch", "account"} : Earlier(e) = At(at)
      BY <2>2 DEF Earlier
    <3> DEFINE d == At(at)
    <3>2. d \in ACall /\ d.at = at /\ d.head = 0
      BY DEF At, Idle, ACall, Steps
    <3> HIDE DEF d
    <3>3. Earlier(e) = d
      BY <3>1 DEF d
    <3> QED
      BY <3>1, <3>2, <3>3
  <2> QED
    BY <2>1, <2>2
<1>2. [c EXCEPT !.failed = TRUE] \in ACall /\ [c EXCEPT !.failed = TRUE].i = c.i
      /\ [c EXCEPT !.failed = TRUE].head = c.head
  BY DEF ACall
<1> QED
  BY <1>1, <1>2 DEF Failed

\* The last safe nonce is all that HandleSafe changes in the accounts.
LEMMA UpdateIsTyped ==
    ASSUME ManagerTyped, NEW a \in Address, NEW n \in Nat
    PROVE  LET new == UpdateLastSafeNonce(a, n)
           IN  /\ new \in Seq(AnAccount) /\ Len(new) = Len(accounts)
               /\ \A k \in 1 .. Len(accounts) :
                     /\ new[k].address = accounts[k].address
                     /\ new[k].nonce = accounts[k].nonce
                     /\ new[k].lock = accounts[k].lock
                     /\ new[k].lastSafe = accounts[k].lastSafe
                        \/ (new[k].lastSafe = n /\ accounts[k].address = a)
<1> DEFINE new == UpdateLastSafeNonce(a, n)
<1>1. Len(accounts) \in Nat /\ DOMAIN accounts = 1 .. Len(accounts)
  BY AccountsAreTyped
<1>2. ASSUME NEW k \in 1 .. Len(accounts)
      PROVE  /\ new[k] \in AnAccount
             /\ new[k].address = accounts[k].address
             /\ new[k].nonce = accounts[k].nonce
             /\ new[k].lock = accounts[k].lock
             /\ new[k].lastSafe = accounts[k].lastSafe
                \/ (new[k].lastSafe = n /\ accounts[k].address = a)
  <2>1. accounts[k] \in AnAccount
    BY AccountsAreTyped
  <2>2. accounts[k].lastSafe \in Nat
    BY <2>1 DEF AnAccount
  <2>3. Max({accounts[k].lastSafe, n}) \in {accounts[k].lastSafe, n}
    BY <2>2, MaxOfTwo
  <2> DEFINE m == Max({accounts[k].lastSafe, n})
  <2>4. m \in Nat /\ m \in {accounts[k].lastSafe, n}
    BY <2>2, <2>3
  <2>5. new[k] = IF k \in AccountOf(a) THEN [accounts[k] EXCEPT !.lastSafe = m] ELSE accounts[k]
    BY <1>1, <2>1 DEF UpdateLastSafeNonce, AnAccount
  <2> HIDE DEF m, new
  <2> QED
    BY <2>1, <2>4, <2>5 DEF AnAccount, AccountOf
<1>3. new \in [1 .. Len(accounts) -> AnAccount]
  <2>1. new = [k \in 1 .. Len(accounts) |-> new[k]]
    BY <1>1 DEF UpdateLastSafeNonce
  <2> HIDE DEF new
  <2> QED
    BY <1>2, <2>1
<1> HIDE DEF new
<1>4. new \in Seq(AnAccount) /\ Len(new) = Len(accounts)
  BY <1>1, <1>3, LenProperties
<1>5. new \in Seq(AnAccount) /\ Len(new) = Len(accounts) /\
      \A k \in 1 .. Len(accounts) :
             /\ new[k].address = accounts[k].address
             /\ new[k].nonce = accounts[k].nonce
             /\ new[k].lock = accounts[k].lock
             /\ new[k].lastSafe = accounts[k].lastSafe
                \/ (new[k].lastSafe = n /\ accounts[k].address = a)
  BY <1>2, <1>4
<1> QED
  BY <1>5 DEF new

LEMMA ProcessAttemptKeepsNonceInv ==
    ASSUME NonceInv, NEW r \in Runs, ProcessAttempt(r)
    PROVE  NonceInv'
<1> USE DEF NonceInv, Typed
<1> DEFINE c == call[r]
           a == txes[r].attempts[c.i].tx
           n == Len(txes[r].attempts)
<1>1. c \in ACall /\ txes[r] \in ARow /\ c.at = "check" /\ c.i \in 1 .. n
  BY DEF RunsTyped, ProcessAttempt, AttemptsAreOfRow, Checking
<1>2. n \in Nat /\ a \in AnAttempt /\ txes[r].attempts # <<>>
  <2>1. txes[r].attempts \in Seq([tx : AnAttempt, sentAt : Nat])
    BY <1>1 DEF ARow
  <2>2. txes[r].attempts[c.i] \in [tx : AnAttempt, sentAt : Nat]
    BY <1>1, AttemptIsTyped
  <2> QED
    BY <1>1, <2>1, <2>2
<1>3. txes[r].from \in Address /\ txes[r].nonce \in Nat
  BY <1>1 DEF ARow
<1>4. UNCHANGED <<node, manager, resend>>
  BY DEF ProcessAttempt
<1>5. \A b \in Address : accepted[b] \subseteq accepted'[b]
  BY <1>4 DEF node
<1>6. faults' \in Nat /\ faults' + losses <= MaxTroubles
  BY FaultIsTyped DEF ProcessAttempt, HandleSafe, NodeTyped
<1>7. NodeTyped' /\ PoolIsSound'
  BY <1>4, <1>6 DEF NodeTyped, PoolIsSound, node
<1>8. CASE HandleSafe(r, a)
  <2>1. accounts' = UpdateLastSafeNonce(txes[r].from, txes[r].nonce)
    BY <1>8 DEF HandleSafe
  <2>2. /\ accounts' \in Seq(AnAccount) /\ Len(accounts') = Len(accounts)
        /\ \A k \in 1 .. Len(accounts) :
              /\ accounts'[k].address = accounts[k].address
              /\ accounts'[k].nonce = accounts[k].nonce
              /\ accounts'[k].lock = accounts[k].lock
    BY <1>3, <2>1, UpdateIsTyped
  <2>3. ManagerTyped'
    BY <1>4, <2>2 DEF ManagerTyped, manager, node
  <2>4. PICK t \in ARow : txes' = [txes EXCEPT ![r] = t] /\ t.attempts = txes[r].attempts
                          /\ t.from = txes[r].from /\ t.nonce = txes[r].nonce
    <3>1. CASE UNCHANGED txes
      <4>1. txes' = [txes EXCEPT ![r] = txes[r]]
        BY <3>1 DEF RunsTyped
      <4> QED
        BY <1>1, <4>1
    <3>2. CASE txes' = MarkTxSafe(r, a)
      <4> HIDE DEF a
      <4> DEFINE t == [txes[r] EXCEPT !.hash = {a}, !.price = a.price, !.confirmed = TRUE]
      <4>1. a.price \in Nat
        BY <1>2 DEF AnAttempt
      <4>2. t \in ARow /\ t.attempts = txes[r].attempts /\ t.from = txes[r].from
            /\ t.nonce = txes[r].nonce
        BY <1>1, <1>2, <4>1 DEF ARow
      <4>3. txes' = [txes EXCEPT ![r] = t]
        BY <3>2 DEF RunsTyped, MarkTxSafe
      <4> QED
        BY <4>2, <4>3
    <3> QED
      BY <1>8, <3>1, <3>2 DEF HandleSafe
  <2> DEFINE d == Ended(r, "safe")
  <2>5. d \in ACall /\ d.at \in {"safe", "over"} /\ call' = [call EXCEPT ![r] = d]
    BY <1>8 DEF HandleSafe, Ends, Ended, At, Idle, ACall, Steps
  <2> HIDE DEF d
  <2>6. AttemptsAreOfRow(r)'
    BY <1>1, <2>4, <2>5 DEF AttemptsAreOfRow, RunsTyped, Creating, Checking
  <2> QED
    BY <1>1, <1>5, <1>7, <2>2, <2>3, <2>4, <2>5, <2>6, RunMoves DEF Locking
<1>9. ASSUME NEW d \in ACall, d.at \in {"check", "bump", "watch", "account"},
             d.at \in Checking => d.i \in 1 .. n,
             call' = [call EXCEPT ![r] = d], UNCHANGED <<accounts, txes>>
      PROVE  NonceInv'
  <2>1. ManagerTyped'
    BY <1>4, <1>9 DEF ManagerTyped, manager, node
  <2>2. AttemptsAreOfRow(r)'
    BY <1>1, <1>2, <1>9 DEF AttemptsAreOfRow, RunsTyped, Creating, Checking
  <2>3. txes' = [txes EXCEPT ![r] = txes[r]]
    BY <1>9 DEF RunsTyped
  <2> QED
    BY <1>1, <1>5, <1>7, <1>9, <2>1, <2>2, <2>3, RunMoves DEF Locking
<1>10. /\ Earlier(c) \in ACall /\ Failed(c) \in ACall
       /\ \A d \in {Earlier(c), Failed(c)} :
             d.at \in {"check", "watch", "account"} /\ (d.at = "check" => d.i \in 1 .. n)
  BY <1>1, <1>2, EarlierIsTyped
<1>11. At("watch") \in ACall /\ At("watch").at = "watch"
  BY DEF At, Idle, ACall, Steps
<1> DEFINE up == [c EXCEPT !.at = "bump", !.price = BumpGasByIncrement(a.price)]
<1>12. up \in ACall /\ up.at = "bump" /\ up.i = c.i
  <2>1. BumpGasByIncrement(a.price) \in Nat
    BY <1>2, BumpIsNat DEF AnAttempt
  <2> QED
    BY <1>1, <2>1 DEF ACall, Steps
<1>13. \/ HandleSafe(r, a)
       \/ /\ \E d \in {At("watch"), up, Earlier(c), Failed(c)} : call' = [call EXCEPT ![r] = d]
          /\ UNCHANGED <<accounts, txes>>
  <2> HIDE DEF a
  <2> QED
    BY Zenon DEF ProcessAttempt, a
<1> HIDE DEF c, a, n, up
<1> QED
  BY <1>1, <1>8, <1>9, <1>10, <1>11, <1>12, <1>13 DEF Checking

\* AddTxAttempt keeps the nonce and the sender, and puts an attempt to the end.
LEMMA AddTxAttemptIsTyped ==
    ASSUME NonceInv, NEW r \in Runs, NEW a \in AnAttempt
    PROVE  \E t \in ARow :
              /\ AddTxAttempt(r, a) = [txes EXCEPT ![r] = t]
              /\ t.from = txes[r].from /\ t.nonce = txes[r].nonce
              /\ t.hash = {a} /\ t.confirmed = txes[r].confirmed
              /\ Len(t.attempts) = Len(txes[r].attempts) + 1 /\ t.attempts # <<>>
              /\ t.attempts[Len(txes[r].attempts) + 1].tx = a
              /\ \A i \in 1 .. Len(txes[r].attempts) : t.attempts[i] = txes[r].attempts[i]
<1> USE DEF NonceInv, Typed
<1>1. txes[r] \in ARow /\ call[r].head \in Nat
  BY DEF RunsTyped, ACall
<1> DEFINE Tried == [tx : AnAttempt, sentAt : Nat]
           old == txes[r].attempts
           new == Append(old, [tx |-> a, sentAt |-> call[r].head])
<1>2. old \in Seq(Tried) /\ [tx |-> a, sentAt |-> call[r].head] \in Tried
  BY <1>1 DEF ARow
<1>3. /\ new \in Seq(Tried) /\ Len(new) = Len(old) + 1 /\ Len(old) \in Nat
      /\ \A i \in 1 .. Len(old) : new[i] = old[i]
      /\ new[Len(old) + 1] = [tx |-> a, sentAt |-> call[r].head]
  <2> HIDE DEF Tried, old
  <2> QED
    BY <1>2, AppendProperties
<1>4. new # <<>>
  <2>1. Len(new) # 0
    BY <1>3
  <2> HIDE DEF new
  <2> QED
    BY <2>1, EmptySeq
<1> DEFINE t == [txes[r] EXCEPT !.price = a.price, !.hash = {a}, !.attempts = new]
<1>5. AddTxAttempt(r, a) = [txes EXCEPT ![r] = t]
  BY DEF AddTxAttempt, RunsTyped
<1> HIDE DEF new
<1>6. a.price \in Nat
  BY DEF AnAttempt
<1>7. t \in ARow /\ t.from = txes[r].from /\ t.nonce = txes[r].nonce /\ t.attempts = new
      /\ t.hash = {a} /\ t.confirmed = txes[r].confirmed
  BY <1>1, <1>3, <1>6 DEF ARow
<1>8. [tx |-> a, sentAt |-> call[r].head].tx = a
  OBVIOUS
<1> HIDE DEF t
<1>9. /\ AddTxAttempt(r, a) = [txes EXCEPT ![r] = t]
      /\ t.from = txes[r].from /\ t.nonce = txes[r].nonce
      /\ t.hash = {a} /\ t.confirmed = txes[r].confirmed
      /\ Len(t.attempts) = Len(txes[r].attempts) + 1 /\ t.attempts # <<>>
      /\ t.attempts[Len(txes[r].attempts) + 1].tx = a
      /\ \A i \in 1 .. Len(txes[r].attempts) : t.attempts[i] = txes[r].attempts[i]
  BY <1>3, <1>4, <1>5, <1>7, <1>8
<1> QED
  BY <1>7, <1>9

\* An attempt of a row, and the row with it, agree on the nonce and the sender.
LEMMA AttemptsStayOfRow ==
    ASSUME NonceInv, NEW r \in Runs, NEW a \in AnAttempt,
           a.from = txes[r].from, a.nonce = txes[r].nonce,
           NEW t \in ARow, txes' = [txes EXCEPT ![r] = t],
           t.from = txes[r].from, t.nonce = txes[r].nonce,
           Len(t.attempts) = Len(txes[r].attempts) + 1, t.attempts # <<>>,
           t.attempts[Len(txes[r].attempts) + 1].tx = a,
           \A i \in 1 .. Len(txes[r].attempts) : t.attempts[i] = txes[r].attempts[i],
           call'[r].at \notin Creating,
           call'[r].at \in Checking => call'[r].i \in 1 .. Len(txes[r].attempts)
    PROVE  AttemptsAreOfRow(r)'
<1>1. txes'[r] = t
  BY DEF NonceInv, Typed, RunsTyped
<1>2. Len(txes[r].attempts) \in Nat
  BY DEF NonceInv, Typed, RunsTyped, ARow
<1>3. \A i \in 1 .. Len(txes[r].attempts) :
          /\ txes[r].attempts[i].tx.from = txes[r].from
          /\ txes[r].attempts[i].tx.nonce = txes[r].nonce
  BY DEF NonceInv, AttemptsAreOfRow
<1>4. \A i \in 1 .. Len(t.attempts) : t.attempts[i].tx.from = t.from /\ t.attempts[i].tx.nonce = t.nonce
  <2> SUFFICES ASSUME NEW i \in 1 .. Len(t.attempts)
               PROVE  t.attempts[i].tx.from = t.from /\ t.attempts[i].tx.nonce = t.nonce
    OBVIOUS
  <2>1. i \in 1 .. Len(txes[r].attempts) \/ i = Len(txes[r].attempts) + 1
    BY <1>2
  <2>2. CASE i \in 1 .. Len(txes[r].attempts)
    <3>1. t.attempts[i] = txes[r].attempts[i]
      BY <2>2
    <3> QED
      BY <1>3, <2>2, <3>1
  <2>3. CASE i = Len(txes[r].attempts) + 1
    BY <2>3
  <2> QED
    BY <2>1, <2>2, <2>3
<1>5. call'[r].at \in Checking => call'[r].i \in 1 .. Len(t.attempts)
  BY <1>2
<1> QED
  BY <1>1, <1>4, <1>5 DEF AttemptsAreOfRow

LEMMA BumpKeepsNonceInv ==
    ASSUME NonceInv, NEW r \in Runs, BumpGas(r) \/ RecordBump(r)
    PROVE  NonceInv'
<1> USE DEF NonceInv, Typed
<1> DEFINE c == call[r]
           n == Len(txes[r].attempts)
<1>1. c \in ACall /\ txes[r] \in ARow /\ c.at \in {"bump", "recordBump"} /\ c.i \in 1 .. n
  BY DEF RunsTyped, BumpGas, RecordBump, AttemptsAreOfRow, Checking
<1>2. n \in Nat /\ txes[r].attempts # <<>>
  BY <1>1 DEF ARow
<1>3. Bumped(r) \in AnAttempt /\ Bumped(r).from = txes[r].from /\ Bumped(r).nonce = txes[r].nonce
  BY <1>1 DEF Bumped, AnAttempt, ARow, ACall
<1>4. UNCHANGED <<manager, accounts, resend, mined, height, losses>>
  BY DEF BumpGas, RecordBump, node
<1>5. NodeTyped' /\ PoolIsSound' /\ \A b \in Address : accepted[b] \subseteq accepted'[b]
  <2>1. CASE UNCHANGED <<pool, accepted, faults>>
    BY <1>4, <2>1 DEF NodeTyped, PoolIsSound
  <2>2. CASE UNCHANGED <<pool, accepted>> /\ Fault
    BY <1>4, <2>2, FaultIsTyped DEF NodeTyped, PoolIsSound
  <2>3. ASSUME NEW reply, SendRawTx(Bumped(r), reply)
        PROVE  NodeTyped' /\ PoolIsSound' /\ \A b \in Address : accepted[b] \subseteq accepted'[b]
    BY <1>3, <1>4, <2>3, SendingIsSound
  <2> QED
    BY <2>1, <2>2, <2>3 DEF BumpGas, RecordBump, node
<1>6. ManagerTyped'
  BY <1>4 DEF ManagerTyped, manager
<1>7. /\ Earlier(c) \in ACall /\ Failed(c) \in ACall
      /\ \A d \in {Earlier(c), Failed(c)} :
            d.at \in {"check", "watch", "account"} /\ (d.at = "check" => d.i \in 1 .. n)
  BY <1>1, <1>2, EarlierIsTyped
<1>8. ASSUME NEW d \in ACall, d.at \in {"check", "bump", "recordBump", "watch", "account"},
             d.at \in Checking => d.i \in 1 .. n,
             call' = [call EXCEPT ![r] = d], UNCHANGED txes
      PROVE  NonceInv'
  <2>1. AttemptsAreOfRow(r)'
    BY <1>1, <1>2, <1>8 DEF AttemptsAreOfRow, RunsTyped, Creating, Checking
  <2>2. txes' = [txes EXCEPT ![r] = txes[r]]
    BY <1>8 DEF RunsTyped
  <2> QED
    BY <1>1, <1>4, <1>5, <1>6, <1>8, <2>1, <2>2, RunMoves DEF Locking
<1> DEFINE up == [c EXCEPT !.price = BumpGasByIncrement(c.price)]
           sent == [c EXCEPT !.at = "recordBump"]
<1>9. sent \in ACall /\ sent.at = "recordBump" /\ sent.i = c.i
  BY <1>1 DEF ACall, Steps
<1>10. up \in ACall /\ up.at = c.at /\ up.i = c.i
  <2>1. BumpGasByIncrement(c.price) \in Nat
    BY <1>1, BumpIsNat DEF ACall
  <2> QED
    BY <1>1, <2>1 DEF ACall
<1>11. CASE BumpGas(r)
  <2>1. UNCHANGED txes /\ c.at = "bump"
    BY <1>11 DEF BumpGas
  <2>2. PICK d \in {Failed(c), sent, up} : call' = [call EXCEPT ![r] = d]
    BY <1>1, <1>11 DEF BumpGas, ACall
  <2> HIDE DEF c, n, up, sent
  <2> QED
    BY <1>1, <1>7, <1>8, <1>9, <1>10, <2>1, <2>2 DEF Checking
<1>12. CASE RecordBump(r)
  <2>1. CASE UNCHANGED txes /\ call' = [call EXCEPT ![r] = Failed(c)]
    <3> HIDE DEF c, n
    <3> QED
      BY <1>7, <1>8, <2>1 DEF Checking
  <2>2. CASE txes' = AddTxAttempt(r, Bumped(r)) /\ call' = [call EXCEPT ![r] = Earlier(c)]
    <3> DEFINE d == Earlier(c)
    <3>1. d \in ACall /\ d.at \in {"check", "watch", "account"} /\ (d.at = "check" => d.i \in 1 .. n)
      BY <1>7
    <3>2. call' = [call EXCEPT ![r] = d] /\ call'[r] = d
      BY <2>2 DEF RunsTyped
    <3> HIDE DEF d
    <3>3. PICK t \in ARow :
              /\ txes' = [txes EXCEPT ![r] = t]
              /\ t.from = txes[r].from /\ t.nonce = txes[r].nonce
              /\ Len(t.attempts) = Len(txes[r].attempts) + 1 /\ t.attempts # <<>>
              /\ t.attempts[Len(txes[r].attempts) + 1].tx = Bumped(r)
              /\ \A i \in 1 .. Len(txes[r].attempts) : t.attempts[i] = txes[r].attempts[i]
      BY <1>3, <2>2, AddTxAttemptIsTyped
    <3>4. AttemptsAreOfRow(r)'
      BY <1>3, <3>1, <3>2, <3>3, AttemptsStayOfRow DEF Creating, Checking
    <3> QED
      BY <1>1, <1>4, <1>5, <1>6, <3>1, <3>2, <3>3, <3>4, RunMoves DEF Locking
  <2> QED
    BY <1>12, <2>1, <2>2 DEF RecordBump
<1> QED
  BY <1>11, <1>12

\* A step of a run that takes, holds or gives back the lock of its account, which is the
\* only account that it changes.
LEMMA LockMoves ==
    ASSUME NonceInv, NodeTyped', PoolIsSound', NEW r \in Runs,
           NEW c \in ACall, call' = [call EXCEPT ![r] = c],
           NEW t \in ARow, txes' = [txes EXCEPT ![r] = t],
           UNCHANGED <<height, connected, head, available, resend>>,
           \A a \in Address : accepted[a] \subseteq accepted'[a],
           NEW k \in 1 .. Len(accounts), call[r].ma = k,
           accounts[k].lock \in {r, Nobody},
           NEW b \in AnAccount, accounts' = [accounts EXCEPT ![k] = b],
           b.address = accounts[k].address,
           b.lock = IF c.at \in Locking THEN r ELSE Nobody,
           c.at \in Locking \cup {"store", "reload"} => c.ma = k,
           \A n \in 0 .. b.nonce - 1 : n \in accepted'[b.address],
           NonceIsHeld(r)', AttemptsAreOfRow(r)'
    PROVE  NonceInv'
<1> USE DEF NonceInv, Typed
<1>1. Len(accounts) \in Nat /\ DOMAIN accounts = 1 .. Len(accounts)
  BY AccountsAreTyped
<1>2. /\ accounts' \in Seq(AnAccount) /\ Len(accounts') = Len(accounts)
      /\ DOMAIN accounts' = 1 .. Len(accounts) /\ accounts'[k] = b
      /\ \A j \in (1 .. Len(accounts)) \ {k} : accounts'[j] = accounts[j]
  <2>1. accounts \in Seq(AnAccount)
    BY DEF ManagerTyped
  <2>2. accounts' \in Seq(AnAccount) /\ Len(accounts') = Len(accounts)
    BY <2>1, ExceptSeq
  <2> QED
    BY <1>1, <2>2
<1>3. \A j \in 1 .. Len(accounts) : accounts[j].address \in Address
  BY AccountsAreTyped
<1>4. /\ call'[r] = c /\ txes'[r] = t
      /\ \A s \in Runs \ {r} : call'[s] = call[s] /\ txes'[s] = txes[s]
  BY DEF RunsTyped
<1>5. RunsTyped' /\ ManagerTyped'
  <2>1. RunsTyped'
    BY DEF RunsTyped
  <2> QED
    BY <1>2, <2>1, Zenon DEF ManagerTyped
<1>6. LocksAreHeld'
  <2>1. r # Nobody
    BY NobodyAssumption
  <2>2. ASSUME NEW j \in 1 .. Len(accounts)
        PROVE  accounts'[j].lock = r <=> c.at \in Locking /\ c.ma = j
    BY <1>2, <2>1, <2>2 DEF LocksAreHeld
  <2>3. ASSUME NEW s \in Runs \ {r}
        PROVE  /\ call[s].at \in Locking \cup {"store", "reload"} => call[s].ma \in 1 .. Len(accounts)
               /\ \A j \in 1 .. Len(accounts) :
                     accounts'[j].lock = s <=> call[s].at \in Locking /\ call[s].ma = j
    <3>1. s # Nobody
      BY <2>3, NobodyAssumption
    <3>2. accounts[k].lock # s /\ b.lock # s
      BY <2>3, <3>1
    <3> QED
      BY <1>2, <2>3, <3>2 DEF LocksAreHeld
  <2> QED
    BY <1>2, <1>4, <2>2, <2>3 DEF LocksAreHeld
<1>7. NoNonceIsSkipped'
  BY <1>1, <1>2, <1>3 DEF NoNonceIsSkipped
<1>8. ASSUME NEW s \in Runs \ {r}
      PROVE  NonceIsHeld(s)' /\ AttemptsAreOfRow(s)'
  <2>1. txes[s].from \in Address
    BY DEF RunsTyped, ARow
  <2>2. call[s].at \in Locking => call[s].ma \in (1 .. Len(accounts)) \ {k}
    BY NobodyAssumption DEF LocksAreHeld
  <2> QED
    BY <1>2, <1>4, <2>1, <2>2 DEF NonceIsHeld, AttemptsAreOfRow
<1> QED
  BY <1>5, <1>6, <1>7, <1>8

\* EndNonce gives the lock back, and may count one nonce.
LEMMA EndNonceIsTyped ==
    ASSUME ManagerTyped, NEW r \in Runs, call[r].ma \in 1 .. Len(accounts), NEW used \in BOOLEAN
    PROVE  \E b \in AnAccount :
              /\ EndNonce(r, used) = [accounts EXCEPT ![call[r].ma] = b]
              /\ b.address = accounts[call[r].ma].address /\ b.lock = Nobody
              /\ b.lastSafe = accounts[call[r].ma].lastSafe
              /\ b.nonce = IF used THEN accounts[call[r].ma].nonce + 1
                                    ELSE accounts[call[r].ma].nonce
<1> DEFINE k == call[r].ma
           ma == accounts[k]
           n == IF used THEN ma.nonce + 1 ELSE ma.nonce
           b == [ma EXCEPT !.lock = Nobody, !.nonce = n]
<1>1. ma \in AnAccount /\ ma.nonce \in Nat
  BY AccountsAreTyped
<1>2. n \in Nat
  BY <1>1
<1>3. EndNonce(r, used) = [accounts EXCEPT ![k] = b]
  BY <1>1, AccountsAreTyped DEF EndNonce, AnAccount
<1> HIDE DEF n
<1>4. b \in AnAccount /\ b.address = ma.address /\ b.lock = Nobody /\ b.nonce = n
      /\ b.lastSafe = ma.lastSafe
  BY <1>1, <1>2 DEF AnAccount
<1> HIDE DEF b
<1> QED
  BY <1>3, <1>4 DEF n

\* How a call ends: at the step it is to go on with, or over.
LEMMA EndedIsTyped ==
    ASSUME NEW r, NEW at \in Steps
    PROVE  /\ Ended(r, at) \in ACall /\ Ended(r, at).at \in {at, "over"}
           /\ Ended(r, at).head = 0
BY DEF Ended, At, Idle, ACall, Steps

LEMMA StoreTxKeepsNonceInv ==
    ASSUME NonceInv, NEW r \in Runs, StoreTx(r)
    PROVE  NonceInv'
<1> USE DEF NonceInv, Typed
<1> DEFINE k == call[r].ma
           ma == accounts[k]
           a == [from |-> ma.address, nonce |-> ma.nonce, price |-> GasPrice, run |-> r]
<1>1. call[r] \in ACall /\ txes[r] \in ARow /\ call[r].at = "store" /\ k \in 1 .. Len(accounts)
  BY DEF RunsTyped, StoreTx, LocksAreHeld
<1>2. ma \in AnAccount /\ ma.address \in Address /\ ma.nonce \in Nat
  BY <1>1, AccountsAreTyped
<1>3. txes[r].attempts = <<>>
  BY <1>1 DEF AttemptsAreOfRow, Creating
<1>4. UNCHANGED <<node, manager, resend>> /\ ma.lock = Nobody
  BY DEF StoreTx
<1>5. faults' \in Nat /\ faults' + losses <= MaxTroubles
  BY FaultIsTyped DEF StoreTx, NodeTyped
<1>6. NodeTyped' /\ PoolIsSound'
  BY <1>4, <1>5 DEF NodeTyped, PoolIsSound, node
<1>7. \A x \in Address : accepted[x] \subseteq accepted'[x]
  BY <1>4 DEF node
<1>8. CASE /\ txes' = [txes EXCEPT ![r] = TxRow(r, a)]
           /\ accounts' = [accounts EXCEPT ![k].lock = r]
           /\ call' = [call EXCEPT ![r].at = "send", ![r].head = head]
  <2> DEFINE t == TxRow(r, a)
             b == [ma EXCEPT !.lock = r]
             c == [call[r] EXCEPT !.at = "send", !.head = head]
  <2>1. c \in ACall /\ c.at = "send" /\ c.ma = k
    BY <1>1 DEF ACall, ManagerTyped, Steps
  <2>2. b \in AnAccount /\ b.address = ma.address /\ b.nonce = ma.nonce /\ b.lock = r
    BY <1>2 DEF AnAccount
  <2>3. t \in ARow /\ t.from = ma.address /\ t.nonce = ma.nonce /\ t.attempts = <<>>
    <3>1. a \in AnAttempt
      BY <1>2, ConstantsAssumption DEF AnAttempt
    <3>2. <<>> \in Seq([tx : AnAttempt, sentAt : Nat])
      BY EmptySeq
    <3>3. GasPrice \in Nat
      BY ConstantsAssumption
    <3> QED
      BY <1>2, <1>3, <3>1, <3>2, <3>3 DEF TxRow, ARow
  <2>4. txes' = [txes EXCEPT ![r] = t] /\ call' = [call EXCEPT ![r] = c]
        /\ accounts' = [accounts EXCEPT ![k] = b]
    BY <1>1, <1>8, AccountsAreTyped DEF RunsTyped, ACall
  <2> HIDE DEF t, b, c
  <2>5. call'[r] = c /\ txes'[r] = t /\ accounts'[k] = b
    BY <1>1, <2>4, AccountsAreTyped DEF RunsTyped
  <2>6. NonceIsHeld(r)' /\ AttemptsAreOfRow(r)'
    BY <2>1, <2>2, <2>3, <2>5 DEF NonceIsHeld, AttemptsAreOfRow, Checking
  <2>7. \A n \in 0 .. b.nonce - 1 : n \in accepted'[b.address]
    BY <1>1, <1>2, <1>7, <2>2, AccountsAreTyped DEF NoNonceIsSkipped
  <2>8. UNCHANGED <<height, connected, head, available, resend>>
    BY <1>4 DEF node, manager
  <2> QED
    BY <1>1, <1>4, <1>6, <1>7, <2>1, <2>2, <2>3, <2>4, <2>6, <2>7, <2>8, LockMoves DEF Locking
<1>9. CASE Ends(r, "failed") /\ UNCHANGED <<txes, accounts>>
  <2> DEFINE c == Ended(r, "failed")
  <2>1. c \in ACall /\ c.at \in {"failed", "over"} /\ call' = [call EXCEPT ![r] = c]
    BY <1>9, EndedIsTyped DEF Ends, Steps
  <2> HIDE DEF c
  <2>2. AttemptsAreOfRow(r)'
    BY <1>3, <1>9, <2>1, EmptySeq DEF AttemptsAreOfRow, RunsTyped, Checking
  <2>3. txes' = [txes EXCEPT ![r] = txes[r]]
    BY <1>9 DEF RunsTyped
  <2>4. ManagerTyped'
    BY <1>4, <1>9 DEF ManagerTyped, manager, node
  <2> QED
    BY <1>1, <1>6, <1>7, <1>9, <2>1, <2>2, <2>3, <2>4, RunMoves DEF Locking
<1> QED
  BY <1>8, <1>9 DEF StoreTx

LEMMA SendInitialTxKeepsNonceInv ==
    ASSUME NonceInv, NEW r \in Runs, SendInitialTx(r)
    PROVE  NonceInv'
<1> USE DEF NonceInv, Typed
<1> DEFINE k == call[r].ma
           ma == accounts[k]
<1>1. call[r] \in ACall /\ txes[r] \in ARow /\ call[r].at = "send" /\ k \in 1 .. Len(accounts)
  BY DEF RunsTyped, SendInitialTx, LocksAreHeld, Locking
<1>2. /\ ma \in AnAccount /\ ma.address \in Address /\ ma.nonce \in Nat /\ ma.lock = r
      /\ txes[r].from = ma.address /\ txes[r].nonce = ma.nonce /\ txes[r].attempts = <<>>
  <2>1. ma \in AnAccount /\ ma.address \in Address /\ ma.nonce \in Nat
    BY <1>1, AccountsAreTyped
  <2>2. ma.lock = r
    BY <1>1 DEF LocksAreHeld, Locking
  <2> QED
    BY <1>1, <2>1, <2>2 DEF NonceIsHeld, AttemptsAreOfRow, Locking, Creating
<1>3. Attempt(r) \in AnAttempt /\ Attempt(r).from = ma.address /\ Attempt(r).nonce = ma.nonce
  BY <1>1, <1>2 DEF Attempt, AnAttempt, ARow
<1>4. UNCHANGED <<mined, height, losses, manager, resend, txes>>
  BY DEF SendInitialTx
<1>5. PICK reply \in Replies :
        /\ SendRawTx(Attempt(r), reply)
        /\ IF reply = "ok" THEN To(r, "record")
           ELSE IF reply \in TooLow THEN To(r, "reload") ELSE Ends(r, "failed")
        /\ accounts' = IF reply = "ok" THEN accounts ELSE EndNonce(r, FALSE)
  BY DEF SendInitialTx
<1>6. /\ NodeTyped' /\ PoolIsSound'
      /\ \A x \in Address : accepted[x] \subseteq accepted'[x]
      /\ reply = "ok" => ma.nonce \in accepted'[ma.address]
  BY <1>3, <1>4, <1>5, SendingIsSound
<1>7. \A n \in 0 .. ma.nonce - 1 : n \in accepted'[ma.address]
  BY <1>1, <1>2, <1>6, AccountsAreTyped DEF NoNonceIsSkipped
<1>8. UNCHANGED <<height, connected, head, available, resend>>
  BY <1>4 DEF manager
<1>9. txes' = [txes EXCEPT ![r] = txes[r]] /\ txes'[r] = txes[r]
  BY <1>4 DEF RunsTyped
<1>10. CASE reply = "ok"
  <2> DEFINE c == [call[r] EXCEPT !.at = "record"]
  <2>1. c \in ACall /\ c.at = "record" /\ c.ma = k
    BY <1>1 DEF ACall, Steps
  <2>2. call' = [call EXCEPT ![r] = c] /\ call'[r] = c
    BY <1>1, <1>5, <1>10 DEF To, RunsTyped, ACall
  <2> HIDE DEF c
  <2>3. accounts' = [accounts EXCEPT ![k] = ma] /\ accounts' = accounts
    BY <1>1, <1>5, <1>10, AccountsAreTyped DEF ManagerTyped
  <2>4. NonceIsHeld(r)'
    BY <1>2, <1>6, <1>9, <1>10, <2>1, <2>2, <2>3 DEF NonceIsHeld
  <2>5. AttemptsAreOfRow(r)'
    BY <1>2, <1>9, <2>1, <2>2, EmptySeq DEF AttemptsAreOfRow, Checking
  <2> DEFINE b == ma
  <2>6. /\ b \in AnAccount /\ b.lock = r /\ b.address = ma.address
        /\ \A n \in 0 .. b.nonce - 1 : n \in accepted'[b.address]
        /\ accounts' = [accounts EXCEPT ![k] = b]
    BY <1>2, <1>7, <2>3
  <2> HIDE DEF b
  <2> QED
    BY <1>1, <1>2, <1>6, <1>8, <1>9, <2>1, <2>2, <2>4, <2>5, <2>6, LockMoves DEF Locking
<1>11. CASE reply # "ok"
  <2>1. PICK c \in ACall : call' = [call EXCEPT ![r] = c] /\ c.at \in {"reload", "failed", "over"}
                           /\ (c.at = "reload" => c.ma = k)
    <3>1. CASE reply \in TooLow
      <4> DEFINE c == [call[r] EXCEPT !.at = "reload"]
      <4>1. c \in ACall /\ c.at = "reload" /\ c.ma = k
        BY <1>1 DEF ACall, Steps
      <4>2. call' = [call EXCEPT ![r] = c]
        BY <1>1, <1>5, <1>11, <3>1 DEF To, RunsTyped, ACall
      <4> HIDE DEF c
      <4> QED
        BY <4>1, <4>2
    <3>2. CASE reply \notin TooLow
      <4>1. call' = [call EXCEPT ![r] = Ended(r, "failed")]
        BY <1>5, <1>11, <3>2 DEF Ends
      <4>2. Ended(r, "failed") \in ACall /\ Ended(r, "failed").at \in {"failed", "over"}
        BY EndedIsTyped DEF Steps
      <4> QED
        BY <4>1, <4>2
    <3> QED
      BY <3>1, <3>2
  <2>2. PICK b \in AnAccount : accounts' = [accounts EXCEPT ![k] = b] /\ b.address = ma.address
                                /\ b.lock = Nobody /\ b.nonce = ma.nonce
    <3>1. accounts' = EndNonce(r, FALSE)
      BY <1>5, <1>11
    <3> QED
      BY <1>1, <3>1, EndNonceIsTyped
  <2>3. call'[r] = c
    BY <2>1 DEF RunsTyped
  <2>4. NonceIsHeld(r)' /\ AttemptsAreOfRow(r)'
    BY <1>2, <1>9, <2>1, <2>3, EmptySeq DEF NonceIsHeld, AttemptsAreOfRow, Checking, Locking
  <2>5. \A n \in 0 .. b.nonce - 1 : n \in accepted'[b.address]
    BY <1>7, <2>2
  <2> QED
    BY <1>1, <1>2, <1>6, <1>8, <1>9, <2>1, <2>2, <2>4, <2>5, LockMoves DEF Locking
<1> QED
  BY <1>10, <1>11

LEMMA RecordAttemptKeepsNonceInv ==
    ASSUME NonceInv, NEW r \in Runs, RecordAttempt(r)
    PROVE  NonceInv'
<1> USE DEF NonceInv, Typed
<1> DEFINE k == call[r].ma
           ma == accounts[k]
<1>1. call[r] \in ACall /\ txes[r] \in ARow /\ call[r].at = "record" /\ k \in 1 .. Len(accounts)
  BY DEF RunsTyped, RecordAttempt, LocksAreHeld, Locking
<1>2. /\ ma.address \in Address /\ ma.nonce \in Nat /\ ma.lock = r
      /\ txes[r].from = ma.address /\ txes[r].nonce = ma.nonce /\ txes[r].attempts = <<>>
      /\ ma.nonce \in accepted[ma.address]
  <2>1. ma.address \in Address /\ ma.nonce \in Nat
    BY <1>1, AccountsAreTyped
  <2>2. ma.lock = r
    BY <1>1 DEF LocksAreHeld, Locking
  <2> QED
    BY <1>1, <2>1, <2>2 DEF NonceIsHeld, AttemptsAreOfRow, Locking, Creating
<1>3. Attempt(r) \in AnAttempt /\ Attempt(r).from = txes[r].from /\ Attempt(r).nonce = txes[r].nonce
  BY <1>1 DEF Attempt, AnAttempt, ARow
<1>4. UNCHANGED <<node, manager, resend>>
  BY DEF RecordAttempt
<1>5. faults' \in Nat /\ faults' + losses <= MaxTroubles
  BY FaultIsTyped DEF RecordAttempt, NodeTyped
<1>6. NodeTyped' /\ PoolIsSound'
  BY <1>4, <1>5 DEF NodeTyped, PoolIsSound, node
<1>7. \A x \in Address : accepted[x] \subseteq accepted'[x]
  BY <1>4 DEF node
<1>8. UNCHANGED <<height, connected, head, available, resend>>
  BY <1>4 DEF node, manager
<1>9. \A n \in 0 .. ma.nonce : n \in accepted'[ma.address]
  <2>1. \A n \in 0 .. ma.nonce - 1 : n \in accepted[ma.address]
    BY <1>1, AccountsAreTyped DEF NoNonceIsSkipped
  <2> QED
    BY <1>2, <1>7, <2>1
<1>10. ASSUME NEW at \in {"watch", "failed"}, Ends(r, at)
       PROVE  \E c \in ACall : call' = [call EXCEPT ![r] = c] /\ c.at \in {at, "over"}
  BY <1>10, EndedIsTyped DEF Ends, Steps
<1>11. CASE txes' = AddTxAttempt(r, Attempt(r)) /\ accounts' = EndNonce(r, TRUE) /\ Ends(r, "watch")
  <2>1. PICK t \in ARow :
            /\ txes' = [txes EXCEPT ![r] = t]
            /\ t.from = txes[r].from /\ t.nonce = txes[r].nonce
            /\ Len(t.attempts) = Len(txes[r].attempts) + 1 /\ t.attempts # <<>>
            /\ t.attempts[Len(txes[r].attempts) + 1].tx = Attempt(r)
            /\ \A i \in 1 .. Len(txes[r].attempts) : t.attempts[i] = txes[r].attempts[i]
    BY <1>3, <1>11, AddTxAttemptIsTyped
  <2>2. PICK b \in AnAccount : accounts' = [accounts EXCEPT ![k] = b] /\ b.address = ma.address
                                /\ b.lock = Nobody /\ b.nonce = ma.nonce + 1
    BY <1>1, <1>11, EndNonceIsTyped
  <2>3. PICK c \in ACall : call' = [call EXCEPT ![r] = c] /\ c.at \in {"watch", "over"}
    BY <1>10, <1>11
  <2>4. call'[r] = c
    BY <2>3 DEF RunsTyped
  <2>5. AttemptsAreOfRow(r)'
    BY <1>3, <2>1, <2>3, <2>4, AttemptsStayOfRow DEF Creating, Checking
  <2>6. NonceIsHeld(r)'
    BY <2>3, <2>4 DEF NonceIsHeld, Locking
  <2>7. \A n \in 0 .. b.nonce - 1 : n \in accepted'[b.address]
    BY <1>2, <1>9, <2>2
  <2> QED
    BY <1>1, <1>2, <1>6, <1>7, <1>8, <2>1, <2>2, <2>3, <2>5, <2>6, <2>7, LockMoves DEF Locking
<1>12. CASE accounts' = EndNonce(r, FALSE) /\ Ends(r, "failed") /\ UNCHANGED txes
  <2>1. PICK b \in AnAccount : accounts' = [accounts EXCEPT ![k] = b] /\ b.address = ma.address
                                /\ b.lock = Nobody /\ b.nonce = ma.nonce
    BY <1>1, <1>12, EndNonceIsTyped
  <2>2. PICK c \in ACall : call' = [call EXCEPT ![r] = c] /\ c.at \in {"failed", "over"}
    BY <1>10, <1>12
  <2>3. call'[r] = c /\ txes' = [txes EXCEPT ![r] = txes[r]] /\ txes'[r] = txes[r]
    BY <1>12, <2>2 DEF RunsTyped
  <2>4. NonceIsHeld(r)' /\ AttemptsAreOfRow(r)'
    BY <1>2, <2>2, <2>3, EmptySeq DEF NonceIsHeld, AttemptsAreOfRow, Checking, Locking
  <2>5. \A n \in 0 .. b.nonce - 1 : n \in accepted'[b.address]
    BY <1>2, <1>9, <2>1
  <2> QED
    BY <1>1, <1>2, <1>6, <1>7, <1>8, <2>1, <2>2, <2>3, <2>4, <2>5, LockMoves DEF Locking
<1> QED
  BY <1>11, <1>12 DEF RecordAttempt

\* What ReloadNonce sets the account's nonce to has none behind it that is free.
LEMMA ReloadNonceKeepsNonceInv ==
    ASSUME NonceInv, NEW r \in Runs, ReloadNonce(r)
    PROVE  NonceInv'
<1> USE DEF NonceInv, Typed
<1> DEFINE k == call[r].ma
           ma == accounts[k]
<1>1. call[r] \in ACall /\ txes[r] \in ARow /\ call[r].at = "reload" /\ k \in 1 .. Len(accounts)
  BY DEF RunsTyped, ReloadNonce, LocksAreHeld
<1>2. ma \in AnAccount /\ ma.address \in Address /\ ma.lock = Nobody /\ txes[r].attempts = <<>>
  BY <1>1, AccountsAreTyped DEF ReloadNonce, AttemptsAreOfRow, Creating
<1>3. UNCHANGED <<node, manager, resend, txes>>
  BY DEF ReloadNonce
<1>4. faults' \in Nat /\ faults' + losses <= MaxTroubles
  BY FaultIsTyped DEF ReloadNonce, NodeTyped
<1>5. NodeTyped' /\ PoolIsSound'
  BY <1>3, <1>4 DEF NodeTyped, PoolIsSound, node
<1>6. \A x \in Address : accepted[x] \subseteq accepted'[x]
  BY <1>3 DEF node
<1>7. txes' = [txes EXCEPT ![r] = txes[r]] /\ txes'[r] = txes[r]
  BY <1>3 DEF RunsTyped
<1>8. Ended(r, "failed") \in ACall /\ Ended(r, "failed").at \in {"failed", "over"}
  BY EndedIsTyped DEF Steps
<1>9. CASE /\ accounts' = [accounts EXCEPT ![k].nonce = PendingNonce(ma.address)]
           /\ call' = [call EXCEPT ![r] =
                 IF call[r].tries = retryLimit THEN Ended(r, "failed")
                 ELSE [call[r] EXCEPT !.at = "store", !.tries = @ + 1, !.head = 0]]
  <2> DEFINE again == [call[r] EXCEPT !.at = "store", !.tries = @ + 1, !.head = 0]
             n == PendingNonce(ma.address)
             b == [ma EXCEPT !.nonce = n]
  <2>1. again \in ACall /\ again.at = "store" /\ again.ma = k
    <3>1. call[r].tries + 1 \in Nat
      BY <1>1 DEF ACall
    <3> QED
      BY <1>1, <3>1 DEF ACall, Steps
  <2>2. PICK c \in {again, Ended(r, "failed")} : call' = [call EXCEPT ![r] = c]
    <3> DEFINE d == IF call[r].tries = retryLimit THEN Ended(r, "failed") ELSE again
    <3>1. call' = [call EXCEPT ![r] = d]
      BY <1>9, Zenon DEF RunsTyped
    <3>2. d \in {again, Ended(r, "failed")}
      BY Zenon
    <3> HIDE DEF again, d
    <3> QED
      BY <3>1, <3>2
  <2> HIDE DEF again
  <2>3. c \in ACall /\ c.at \in {"store", "failed", "over"} /\ (c.at = "store" => c.ma = k)
    BY <1>8, <2>1, <2>2
  <2>4. n \in Nat /\ \A m \in 0 .. n - 1 : m \in accepted[ma.address]
    <3>1. n \in Nat /\ \A m \in 0 .. n - 1 : Taken(ma.address, m)
      BY <1>2, PendingNonceIsFree
    <3>2. Len(mined[ma.address]) \in Nat
      BY <1>2, LenProperties DEF NodeTyped
    <3> QED
      BY <1>2, <3>1, <3>2 DEF PoolIsSound, Taken
  <2> HIDE DEF n
  <2>5. b \in AnAccount /\ b.address = ma.address /\ b.nonce = n /\ b.lock = Nobody
    BY <1>2, <2>4 DEF AnAccount
  <2>6. accounts' = [accounts EXCEPT ![k] = b]
    BY <1>1, <1>9, AccountsAreTyped DEF n
  <2> HIDE DEF b
  <2>7. call'[r] = c
    BY <2>2 DEF RunsTyped
  <2>8. NonceIsHeld(r)' /\ AttemptsAreOfRow(r)'
    BY <1>2, <1>7, <2>3, <2>7, EmptySeq DEF NonceIsHeld, AttemptsAreOfRow, Checking, Locking
  <2>9. UNCHANGED <<height, connected, head, available, resend>>
    BY <1>3 DEF node, manager
  <2>10. \A m \in 0 .. b.nonce - 1 : m \in accepted'[b.address]
    BY <1>2, <1>6, <2>4, <2>5
  <2> QED
    BY <1>1, <1>2, <1>5, <1>6, <1>7, <2>2, <2>3, <2>5, <2>6, <2>8, <2>9, <2>10, LockMoves DEF Locking
<1>10. CASE Ends(r, "failed") /\ UNCHANGED accounts
  <2> DEFINE c == Ended(r, "failed")
  <2>1. call' = [call EXCEPT ![r] = c] /\ call'[r] = c
    BY <1>10 DEF Ends, RunsTyped
  <2> HIDE DEF c
  <2>2. AttemptsAreOfRow(r)'
    BY <1>2, <1>7, <1>8, <2>1, EmptySeq DEF AttemptsAreOfRow, Checking, c
  <2>3. ManagerTyped'
    BY <1>3, <1>10 DEF ManagerTyped, manager, node
  <2> QED
    BY <1>1, <1>5, <1>6, <1>7, <1>8, <1>10, <2>1, <2>2, <2>3, RunMoves DEF Locking, c
<1> QED
  BY <1>9, <1>10 DEF ReloadNonce

LEMMA NextKeepsNonceInv == NonceInv /\ [Next]_vars => NonceInv'
<1> SUFFICES ASSUME NonceInv, [Next]_vars
             PROVE  NonceInv'
  OBVIOUS
<1>1. ASSUME NEW r \in Runs, CreateTx(r)
      PROVE  NonceInv'
  BY <1>1, QuietStepsKeepNonceInv, StoreTxKeepsNonceInv, SendInitialTxKeepsNonceInv,
     RecordAttemptKeepsNonceInv, ReloadNonceKeepsNonceInv DEF CreateTx, WithdrawLINK
<1>2. ASSUME NEW r \in Runs, BumpGasUntilSafe(r)
      PROVE  NonceInv'
  BY <1>2, QuietStepsKeepNonceInv, ProcessAttemptKeepsNonceInv, BumpKeepsNonceInv
     DEF BumpGasUntilSafe
<1>3. CASE UNCHANGED vars
  <2>1. UNCHANGED <<pool, mined, height, accepted, losses, connected, head, available, next,
                    faults, accounts, resend, txes, call>>
    BY <1>3 DEF vars, node, manager
  <2>2. NodeTyped' /\ PoolIsSound' /\ ManagerTyped'
    BY <2>1 DEF NonceInv, Typed, NodeTyped, PoolIsSound, ManagerTyped
  <2> QED
    BY <2>1, <2>2, NodeMoves, AccountsAreTyped DEF NonceInv, Typed
<1> QED
  BY <1>1, <1>2, <1>3, MineKeepsNonceInv, LosePoolKeepsNonceInv, ConnectKeepsNonceInv,
     ManagerStepsKeepNonceInv DEF Next

\* What the run checks follows from the invariant.
LEMMA NonceInvSuffices == NonceInv => NoncesAreKept
<1> SUFFICES ASSUME NonceInv
             PROVE  NoncesAreKept
  OBVIOUS
<1> USE DEF NonceInv, Typed
<1>1. height \in 0 .. MaxHeight /\ head \in 0 .. height /\ faults + losses \in 0 .. MaxTroubles
      /\ connected \in BOOLEAN
  BY ConstantsAssumption DEF NodeTyped, ManagerTyped
<1>2. /\ \A a \in pool : a.nonce >= Len(mined[a.from])
      /\ \A a, b \in pool : a.from = b.from /\ a.nonce = b.nonce => a = b
  BY DEF PoolIsSound
<1>3. DOMAIN accounts = 1 .. Len(accounts)
      /\ \A k \in DOMAIN accounts : accounts[k].lock \in Runs \cup {Nobody}
  BY AccountsAreTyped DEF AnAccount
<1>4. \A k \in DOMAIN available : available[k] \in DOMAIN accounts
  BY <1>3, ElementOfSeq DEF ManagerTyped
<1>5. ASSUME NEW r \in Runs
      PROVE  /\ call[r].at \in Steps
             /\ call[r].at \in {"send", "record"} <=> \E k \in DOMAIN accounts : accounts[k].lock = r
  BY <1>3 DEF RunsTyped, ACall, LocksAreHeld, Locking
<1> QED
  BY <1>1, <1>2, <1>3, <1>4, <1>5 DEF NoncesAreKept, TypeOK

THEOREM NonceInvHolds == Spec => []NonceInv
BY InitNonceInv, NextKeepsNonceInv, PTL DEF Spec

\* No managed account skips a nonce, and accounts, rows, pool and chain agree on them.
THEOREM NoncesAreNeverSkipped == Spec => []NoncesAreKept
BY NonceInvHolds, NonceInvSuffices, PTL

----------------------------------------------------------------------------
(* SafetyInv.                                                               *)

\* The chain and the head only grow.
Grows ==
    /\ \A a \in Address :
          /\ Len(mined[a]) <= Len(mined'[a])
          /\ \A i \in 1 .. Len(mined[a]) : mined'[a][i] = mined[a][i]
    /\ head <= head'

ABlock == [tx : AnAttempt, block : Nat]

LEMMA MinedIsTyped ==
    ASSUME NEW m \in [Address -> Seq([tx : AnAttempt, block : Nat])], NEW a \in Address
    PROVE  /\ m[a] \in Seq(ABlock) /\ Len(m[a]) \in Nat /\ DOMAIN m[a] = 1 .. Len(m[a])
           /\ \A i \in 1 .. Len(m[a]) : m[a][i] \in ABlock /\ m[a][i].block \in Nat
<1>1. m[a] \in Seq(ABlock)
  BY DEF ABlock
<1>2. Len(m[a]) \in Nat /\ DOMAIN m[a] = 1 .. Len(m[a])
  BY <1>1, LenProperties
<1>3. \A i \in 1 .. Len(m[a]) : m[a][i] \in ABlock
  BY <1>1, ElementOfSeq
<1>4. \A e \in ABlock : e.block \in Nat
  BY DEF ABlock
<1> QED
  BY <1>1, <1>2, <1>3, <1>4

LEMMA MineGrows ==
    ASSUME NonceInv, NonceInv', ChainIsOrdered, Mine
    PROVE  Grows /\ ChainIsOrdered'
<1> USE DEF NonceInv, Typed
<1>1. head' = head /\ height' = height + 1 /\ height \in Nat /\ head \in Nat
  BY DEF Mine, manager, NodeTyped, ManagerTyped
<1>2. CASE UNCHANGED mined
  <2>1. \A a \in Address : Len(mined[a]) \in Nat
                         /\ \A i \in 1 .. Len(mined[a]) : mined[a][i].block \in Nat
    BY MinedIsTyped DEF NodeTyped
  <2> QED
    BY <1>1, <1>2, <2>1 DEF Grows, ChainIsOrdered
<1>3. ASSUME NEW x \in pool, x.nonce = Len(mined[x.from]),
             mined' = [mined EXCEPT ![x.from] = Append(@, [tx |-> x, block |-> height + 1])]
      PROVE  Grows /\ ChainIsOrdered'
  <2> DEFINE m == [tx |-> x, block |-> height + 1]
  <2>1. x \in AnAttempt /\ x.from \in Address
    BY DEF NodeTyped, AnAttempt
  <2>2. ASSUME NEW a \in Address
        PROVE  /\ Len(mined[a]) \in Nat
               /\ \A i \in 1 .. Len(mined[a]) : mined'[a][i] = mined[a][i] /\ mined[a][i].block \in Nat
               /\ \/ mined'[a] = mined[a]
                  \/ /\ a = x.from /\ Len(mined'[a]) = Len(mined[a]) + 1
                     /\ mined'[a][Len(mined[a]) + 1] = m
    <3>1. /\ mined[a] \in Seq(ABlock) /\ Len(mined[a]) \in Nat
          /\ \A i \in 1 .. Len(mined[a]) : mined[a][i].block \in Nat
      BY MinedIsTyped DEF NodeTyped
    <3>2. m \in ABlock
      BY <1>1, <2>1 DEF ABlock
    <3>3. CASE a = x.from
      <4>1. mined'[a] = Append(mined[a], m)
        BY <1>3, <2>1, <3>3 DEF NodeTyped
      <4> HIDE DEF m
      <4>2. /\ Len(mined'[a]) = Len(mined[a]) + 1 /\ mined'[a][Len(mined[a]) + 1] = m
            /\ \A i \in 1 .. Len(mined[a]) : mined'[a][i] = mined[a][i]
        BY <3>1, <3>2, <4>1, AppendProperties
      <4> QED
        BY <3>1, <3>3, <4>2
    <3>4. CASE a # x.from
      <4>1. mined'[a] = mined[a]
        BY <1>3, <2>1, <3>4 DEF NodeTyped
      <4> QED
        BY <3>1, <4>1
    <3> QED
      BY <3>3, <3>4
  <2>3. Grows
    BY <1>1, <2>2 DEF Grows
  <2>4. m.tx = x /\ m.block = height + 1
    OBVIOUS
  <2> HIDE DEF m
  <2>5. ASSUME NEW a \in Address, NEW i \in 1 .. Len(mined'[a])
        PROVE  /\ mined'[a][i].tx.from = a /\ mined'[a][i].tx.nonce = i - 1
               /\ mined'[a][i].block <= height'
               /\ \A j \in 1 .. i : mined'[a][j].block <= mined'[a][i].block
    <3>1. CASE i \in 1 .. Len(mined[a])
      <4>1. /\ mined[a][i].tx.from = a /\ mined[a][i].tx.nonce = i - 1
            /\ mined[a][i].block <= height
            /\ \A j \in 1 .. i : mined[a][j].block <= mined[a][i].block
        BY <3>1 DEF ChainIsOrdered
      <4>2. mined'[a][i] = mined[a][i] /\ mined[a][i].block \in Nat
            /\ \A j \in 1 .. i : mined'[a][j] = mined[a][j]
        BY <2>2, <3>1
      <4>3. mined[a][i].block <= height'
        BY <1>1, <4>1, <4>2
      <4> QED
        BY <4>1, <4>2, <4>3, Zenon
    <3>2. CASE i \notin 1 .. Len(mined[a])
      <4>1. a = x.from /\ i = Len(mined[a]) + 1 /\ mined'[a][i] = m
        BY <2>2, <2>5, <3>2
      <4>2. ASSUME NEW j \in 1 .. Len(mined[a])
            PROVE  mined'[a][j].block <= height + 1
        <5>1. mined[a][j].block <= height /\ mined[a][j].block \in Nat /\ mined'[a][j] = mined[a][j]
          BY <2>2, <4>2 DEF ChainIsOrdered
        <5> QED
          BY <1>1, <5>1
      <4>3. i = x.nonce + 1 /\ x.nonce \in Nat
        BY <1>3, <2>1, <4>1 DEF AnAttempt
      <4>4. \A j \in 1 .. i : j \in 1 .. Len(mined[a]) \/ j = i
        BY <2>2, <4>1
      <4>5. \A j \in 1 .. i : mined'[a][j].block <= height + 1
        BY <1>1, <2>4, <4>1, <4>2, <4>4
      <4>6. mined'[a][i].tx = x /\ mined'[a][i].block = height + 1
        BY <2>4, <4>1
      <4>7. mined'[a][i].tx.from = a /\ mined'[a][i].tx.nonce = i - 1
        BY <4>1, <4>3, <4>6
      <4>8. mined'[a][i].block <= height'
        BY <1>1, <4>6
      <4> QED
        BY <4>5, <4>6, <4>7, <4>8, Zenon
    <3> QED
      BY <3>1, <3>2
  <2> QED
    BY <2>3, <2>5 DEF ChainIsOrdered
<1> QED
  BY <1>2, <1>3 DEF Mine

\* What is deep enough stays so, and a receipt stays.
LEMMA SafeStaysSafe ==
    ASSUME NonceInv, NonceInv', Grows
    PROVE  /\ \A a \in Address, n \in Nat : DeepEnough(a, n) => DeepEnough(a, n)'
           /\ \A x \in AnAttempt : BlockOf(x) # {} => BlockOf(x)' # {}
<1> USE DEF NonceInv, Typed
<1>1. ASSUME NEW a \in Address
      PROVE  /\ Len(mined[a]) \in Nat /\ DOMAIN mined[a] = 1 .. Len(mined[a])
             /\ Len(mined'[a]) \in Nat /\ DOMAIN mined'[a] = 1 .. Len(mined'[a])
             /\ \A i \in 1 .. Len(mined[a]) : mined[a][i].block \in Nat
  BY MinedIsTyped DEF NodeTyped
<1>2. ASSUME NEW a \in Address, NEW n \in Nat, DeepEnough(a, n)
      PROVE  DeepEnough(a, n)'
  <2>1. n + 1 \in 1 .. Len(mined[a]) /\ mined'[a][n + 1] = mined[a][n + 1]
    BY <1>1, <1>2 DEF DeepEnough, Grows
  <2>2. mined[a][n + 1].block \in Nat /\ head \in Nat /\ head' \in Nat /\ MinConfs \in Nat
    BY <1>1, <2>1, ConstantsAssumption DEF ManagerTyped
  <2> QED
    BY <1>1, <1>2, <2>1, <2>2 DEF DeepEnough, Grows
<1>3. ASSUME NEW x \in AnAttempt, BlockOf(x) # {}
      PROVE  BlockOf(x)' # {}
  <2>1. x.from \in Address
    BY DEF AnAttempt
  <2>2. PICK i \in 1 .. Len(mined[x.from]) : mined[x.from][i].tx = x
    BY <1>1, <1>3, <2>1 DEF BlockOf, ToSet
  <2>3. i \in DOMAIN mined'[x.from] /\ mined'[x.from][i].tx = x
    BY <1>1, <2>1, <2>2 DEF Grows
  <2> QED
    BY <2>3 DEF BlockOf, ToSet
<1> QED
  BY <1>2, <1>3

\* The accounts keep their addresses and last safe nonces.
SameSafe ==
    /\ Len(accounts') = Len(accounts)
    /\ \A k \in 1 .. Len(accounts) :
          accounts'[k].address = accounts[k].address /\ accounts'[k].lastSafe = accounts[k].lastSafe

\* Other runs stay where they are, and so do their rows.
OthersStay(r) == \A s \in Runs \ {r} : call'[s] = call[s] /\ txes'[s] = txes[s]

\* A step of a run that is not done, and which confirms nothing.
ConfirmsNothing(r) ==
    /\ UNCHANGED <<mined, height, head>> /\ SameSafe /\ OthersStay(r)
    /\ call[r].at \notin Done
    /\ call'[r].head \in {0, call[r].head, head}
    /\ txes'[r].confirmed => txes[r].confirmed

LEMMA OneAccountIsSafe ==
    ASSUME ManagerTyped, NEW k \in 1 .. Len(accounts), NEW b \in AnAccount,
           accounts' = [accounts EXCEPT ![k] = b],
           b.address = accounts[k].address, b.lastSafe = accounts[k].lastSafe
    PROVE  SameSafe
<1>1. accounts \in Seq(AnAccount)
  BY DEF ManagerTyped
<1>2. Len(accounts') = Len(accounts)
      /\ \A j \in 1 .. Len(accounts) : accounts'[j] = IF j = k THEN b ELSE accounts[j]
  BY <1>1, ExceptSeq
<1> QED
  BY <1>2 DEF SameSafe

LEMMA CreatingConfirmsNothing ==
    ASSUME NonceInv, NEW r \in Runs, CreateTx(r)
    PROVE  ConfirmsNothing(r)
<1> USE DEF NonceInv, Typed
<1>1. call[r] \in ACall /\ txes[r] \in ARow
  BY DEF RunsTyped
<1>2. UNCHANGED <<mined, height, head>>
  BY DEF CreateTx, NextAccount, WithdrawLINK, CreateTxWithEth, StoreTx, SendInitialTx, RecordAttempt,
         ReloadNonce, Resume, node, manager
<1>3. Ended(r, "watch").head = 0 /\ Ended(r, "failed").head = 0 /\ Idle.head = 0
  BY EndedIsTyped DEF Steps, Idle
<1>4. call[r].at \in Creating
  BY DEF CreateTx, NextAccount, WithdrawLINK, CreateTxWithEth, StoreTx, SendInitialTx, RecordAttempt,
         ReloadNonce, Resume, Creating
<1>5. call[r].at \notin Done
  BY <1>4 DEF Creating, Done
<1>6. UNCHANGED accounts => SameSafe
  BY DEF SameSafe
<1>7. CASE NextAccount(r, FALSE) \/ NextAccount(r, TRUE) \/ CreateTxWithEth(r)
  <2>1. PICK k \in ToSet(available), transfer \in BOOLEAN : Takes(r, k, transfer)
    BY <1>7 DEF NextAccount, CreateTxWithEth
  <2>2. UNCHANGED <<accounts, txes>>
    BY <1>7 DEF NextAccount, CreateTxWithEth
  <2>3. call'[r].head = 0
    BY <2>1 DEF Takes, RunsTyped, Idle
  <2> QED
    BY <1>2, <1>5, <1>6, <2>1, <2>2, <2>3 DEF ConfirmsNothing, OthersStay, Takes, RunsTyped
<1>8. CASE StoreTx(r)
  <2> DEFINE k == call[r].ma
  <2>1. k \in 1 .. Len(accounts) /\ accounts[k] \in AnAccount
    BY <1>8, AccountsAreTyped DEF LocksAreHeld, StoreTx
  <2>2. CASE UNCHANGED <<txes, accounts>> /\ Ends(r, "failed")
    BY <1>2, <1>3, <1>5, <1>6, <2>2 DEF ConfirmsNothing, OthersStay, Ends, RunsTyped
  <2>3. ASSUME NEW a, txes' = [txes EXCEPT ![r] = TxRow(r, a)],
               accounts' = [accounts EXCEPT ![k].lock = r],
               call' = [call EXCEPT ![r].at = "send", ![r].head = head]
        PROVE  ConfirmsNothing(r)
    <3> DEFINE b == [accounts[k] EXCEPT !.lock = r]
    <3>1. b \in AnAccount /\ b.address = accounts[k].address /\ b.lastSafe = accounts[k].lastSafe
      BY <2>1 DEF AnAccount
    <3>2. accounts' = [accounts EXCEPT ![k] = b]
      BY <2>1, <2>3, AccountsAreTyped
    <3> HIDE DEF b
    <3>3. SameSafe
      BY <2>1, <3>1, <3>2, OneAccountIsSafe
    <3>4. call'[r].head = head
      BY <1>1, <2>3 DEF RunsTyped, ACall
    <3>5. ~txes'[r].confirmed
      BY <2>3 DEF RunsTyped, TxRow
    <3> QED
      BY <1>2, <1>5, <2>3, <3>3, <3>4, <3>5 DEF ConfirmsNothing, OthersStay, RunsTyped
  <2> QED
    BY <1>8, <2>2, <2>3 DEF StoreTx
<1>9. CASE SendInitialTx(r) \/ RecordAttempt(r)
  <2> DEFINE k == call[r].ma
  <2>1. k \in 1 .. Len(accounts)
    BY <1>9 DEF LocksAreHeld, Locking, SendInitialTx, RecordAttempt
  <2>2. SameSafe
    <3>1. \A used \in BOOLEAN : accounts' = EndNonce(r, used) => SameSafe
      BY <2>1, EndNonceIsTyped, OneAccountIsSafe
    <3> QED
      BY <1>6, <1>9, <3>1 DEF SendInitialTx, RecordAttempt
  <2>3. call'[r].head \in {0, call[r].head, head}
        /\ \A s \in Runs \ {r} : call'[s] = call[s]
    <3>1. \/ \E at \in {"record", "reload"} : To(r, at)
          \/ \E at \in {"watch", "failed"} : Ends(r, at)
      BY <1>9 DEF SendInitialTx, RecordAttempt
    <3>2. CASE \E at \in {"record", "reload"} : To(r, at)
      BY <1>1, <3>2 DEF To, RunsTyped, ACall
    <3>3. CASE \E at \in {"watch", "failed"} : Ends(r, at)
      BY <1>3, <3>3 DEF Ends, RunsTyped
    <3> QED
      BY <3>1, <3>2, <3>3
  <2>4. (txes'[r].confirmed => txes[r].confirmed) /\ \A s \in Runs \ {r} : txes'[s] = txes[s]
    <3>1. CASE UNCHANGED txes
      BY <3>1
    <3>2. CASE txes' = AddTxAttempt(r, Attempt(r))
      BY <1>1, <3>2 DEF AddTxAttempt, RunsTyped, ARow
    <3> QED
      BY <1>9, <3>1, <3>2 DEF SendInitialTx, RecordAttempt
  <2> QED
    BY <1>2, <1>5, <2>2, <2>3, <2>4 DEF ConfirmsNothing, OthersStay
<1>10. CASE ReloadNonce(r)
  <2> DEFINE k == call[r].ma
  <2>1. k \in 1 .. Len(accounts) /\ accounts[k] \in AnAccount /\ accounts[k].address \in Address
    BY <1>10, AccountsAreTyped DEF LocksAreHeld, ReloadNonce
  <2>2. SameSafe
    <3>1. ASSUME accounts' = [accounts EXCEPT ![k].nonce = PendingNonce(accounts[k].address)]
          PROVE  SameSafe
      <4> DEFINE n == PendingNonce(accounts[k].address)
                 b == [accounts[k] EXCEPT !.nonce = n]
      <4>1. n \in Nat
        BY <2>1, PendingNonceIsFree
      <4>2. accounts' = [accounts EXCEPT ![k] = b]
        BY <2>1, <3>1, AccountsAreTyped
      <4> HIDE DEF n
      <4>3. b \in AnAccount /\ b.address = accounts[k].address /\ b.lastSafe = accounts[k].lastSafe
        BY <2>1, <4>1 DEF AnAccount
      <4> HIDE DEF b
      <4> QED
        BY <2>1, <4>2, <4>3, OneAccountIsSafe
    <3> QED
      BY <1>6, <1>10, <3>1 DEF ReloadNonce
  <2>3. call'[r].head = 0 /\ \A s \in Runs \ {r} : call'[s] = call[s]
    <3>1. CASE Ends(r, "failed")
      BY <1>3, <3>1 DEF Ends, RunsTyped
    <3>2. CASE call' = [call EXCEPT ![r] =
                 IF call[r].tries = retryLimit THEN Ended(r, "failed")
                 ELSE [call[r] EXCEPT !.at = "store", !.tries = @ + 1, !.head = 0]]
      BY <1>1, <1>3, <3>2 DEF RunsTyped, ACall
    <3> QED
      BY <1>10, <3>1, <3>2 DEF ReloadNonce
  <2> QED
    BY <1>2, <1>5, <1>10, <2>2, <2>3 DEF ConfirmsNothing, OthersStay, ReloadNonce
<1>11. CASE Resume(r)
  BY <1>2, <1>3, <1>5, <1>6, <1>11 DEF Resume, ConfirmsNothing, OthersStay, RunsTyped
<1> QED
  BY <1>7, <1>8, <1>9, <1>10, <1>11 DEF CreateTx, WithdrawLINK

\* A run that watches its transaction confirms nothing unless an attempt is safe, or
\* the account has overtaken it.
LEMMA WatchingConfirmsNothing ==
    ASSUME NonceInv, NEW r \in Runs, BumpGasUntilSafe(r)
    PROVE  \/ ConfirmsNothing(r)
           \/ /\ call[r].at = "check"
              /\ CheckAttempt(txes[r].attempts[call[r].i].tx, call[r].head) = "safe"
              /\ HandleSafe(r, txes[r].attempts[call[r].i].tx)
              /\ UNCHANGED <<mined, height, head>>
           \/ CheckAccount(r) /\ Overtaken(r) /\ Ends(r, "error")
<1> USE DEF NonceInv, Typed
<1> DEFINE c == call[r]
           n == Len(txes[r].attempts)
           a == txes[r].attempts[call[r].i].tx
<1>1. c \in ACall /\ txes[r] \in ARow
  BY DEF RunsTyped
<1>2. UNCHANGED <<mined, height, head>>
  BY DEF BumpGasUntilSafe, FindTx, ProcessAttempt, BumpGas, RecordBump, CheckAccount, node, manager
<1>3. c.at \notin Done
  BY DEF BumpGasUntilSafe, FindTx, ProcessAttempt, BumpGas, RecordBump, CheckAccount, Done
<1>4. UNCHANGED accounts => SameSafe
  BY DEF SameSafe
<1>5. n \in Nat
  BY <1>1 DEF ARow
<1>6. c.at \in Checking => Earlier(c).head \in {0, c.head} /\ Failed(c).head \in {0, c.head}
  BY <1>1, <1>5, EarlierIsTyped DEF AttemptsAreOfRow
<1>7. ASSUME call'[r].head \in {0, c.head, head}, \A s \in Runs \ {r} : call'[s] = call[s],
             UNCHANGED <<accounts, txes>>
      PROVE  ConfirmsNothing(r)
  BY <1>2, <1>3, <1>4, <1>7 DEF ConfirmsNothing, OthersStay
<1>8. CASE FindTx(r)
  <2> DEFINE d == [c EXCEPT !.at = "check", !.i = n, !.head = head, !.failed = FALSE]
  <2>1. call' = [call EXCEPT ![r] = d] /\ UNCHANGED <<accounts, txes>>
    BY <1>1, <1>8 DEF FindTx, RunsTyped, ACall
  <2>2. d.head = head
    BY <1>1 DEF ACall
  <2> HIDE DEF d
  <2>3. call'[r].head = head /\ \A s \in Runs \ {r} : call'[s] = call[s]
    BY <2>1, <2>2 DEF RunsTyped
  <2> QED
    BY <1>7, <2>1, <2>3
<1>9. CASE ProcessAttempt(r)
  <2>1. c.at = "check"
    BY <1>9 DEF ProcessAttempt
  <2> DEFINE up == [c EXCEPT !.at = "bump", !.price = BumpGasByIncrement(a.price)]
  <2>2. \/ CheckAttempt(a, c.head) = "safe" /\ HandleSafe(r, a)
        \/ /\ \E d \in {At("watch"), up, Earlier(c), Failed(c)} : call' = [call EXCEPT ![r] = d]
           /\ UNCHANGED <<accounts, txes>>
    BY <1>9, Zenon DEF ProcessAttempt
  <2>3. up.head = c.head /\ At("watch").head = 0
    BY <1>1 DEF ACall, At, Idle
  <2> HIDE DEF up, c, a
  <2>4. \A d \in {At("watch"), up, Earlier(c), Failed(c)} : d.head \in {0, c.head, head}
    BY <1>6, <2>1, <2>3 DEF Checking
  <2>5. CASE /\ \E d \in {At("watch"), up, Earlier(c), Failed(c)} : call' = [call EXCEPT ![r] = d]
             /\ UNCHANGED <<accounts, txes>>
    <3>1. call'[r].head \in {0, c.head, head} /\ \A s \in Runs \ {r} : call'[s] = call[s]
      BY <2>4, <2>5 DEF RunsTyped
    <3> QED
      BY <1>7, <2>5, <3>1
  <2>6. call[r].at = "check"
    BY <2>1 DEF c
  <2> QED
    BY <1>2, <2>2, <2>5, <2>6, Zenon DEF c, a
<1>10. CASE BumpGas(r)
  <2> DEFINE up == [c EXCEPT !.price = BumpGasByIncrement(c.price)]
             sent == [c EXCEPT !.at = "recordBump"]
  <2>1. c.at = "bump" /\ UNCHANGED <<accounts, txes>>
    BY <1>10 DEF BumpGas
  <2>2. PICK d \in {Failed(c), sent, up} : call' = [call EXCEPT ![r] = d]
    BY <1>1, <1>10 DEF BumpGas, ACall
  <2>3. up.head = c.head /\ sent.head = c.head
    BY <1>1 DEF ACall
  <2> HIDE DEF up, sent, c
  <2>4. call'[r].head \in {0, c.head, head} /\ \A s \in Runs \ {r} : call'[s] = call[s]
    BY <1>6, <2>1, <2>2, <2>3 DEF Checking, RunsTyped
  <2> QED
    BY <1>7, <2>1, <2>4
<1>11. CASE RecordBump(r)
  <2>1. UNCHANGED accounts /\ c.at = "recordBump"
    BY <1>11 DEF RecordBump
  <2>2. PICK d \in {Earlier(c), Failed(c)} : call' = [call EXCEPT ![r] = d]
    BY <1>11 DEF RecordBump
  <2>3. call'[r].head \in {0, c.head, head} /\ \A s \in Runs \ {r} : call'[s] = call[s]
    <3> HIDE DEF c
    <3> QED
      BY <1>6, <2>1, <2>2 DEF Checking, RunsTyped
  <2>4. (txes'[r].confirmed => txes[r].confirmed) /\ \A s \in Runs \ {r} : txes'[s] = txes[s]
    <3>1. CASE UNCHANGED txes
      BY <3>1
    <3>2. CASE txes' = AddTxAttempt(r, Bumped(r))
      BY <1>1, <3>2 DEF AddTxAttempt, RunsTyped, ARow
    <3> QED
      BY <1>11, <3>1, <3>2 DEF RecordBump
  <2> QED
    BY <1>2, <1>3, <1>4, <2>1, <2>3, <2>4 DEF ConfirmsNothing, OthersStay
<1>12. CASE CheckAccount(r)
  <2>1. CASE Ends(r, "watch") /\ UNCHANGED <<txes, accounts>>
    <3>1. Ended(r, "watch").head = 0
      BY EndedIsTyped DEF Steps
    <3>2. call'[r].head = 0 /\ \A s \in Runs \ {r} : call'[s] = call[s]
      BY <2>1, <3>1 DEF Ends, RunsTyped
    <3> QED
      BY <1>7, <2>1, <3>2
  <2> QED
    BY <1>12, <2>1 DEF CheckAccount
<1> QED
  BY <1>8, <1>9, <1>10, <1>11, <1>12 DEF BumpGasUntilSafe

LEMMA SameChainGrows ==
    ASSUME NonceInv, ChainIsOrdered, UNCHANGED <<mined, height>>, head <= head'
    PROVE  Grows /\ ChainIsOrdered'
<1>1. \A a \in Address : Len(mined[a]) \in Nat
  BY MinedIsTyped DEF NonceInv, Typed, NodeTyped
<1> QED
  BY <1>1 DEF Grows, ChainIsOrdered

\* A step keeps the invariant if what is new in the accounts and the rows is safe.
LEMMA SafetyMoves ==
    ASSUME SafetyInv, NonceInv', Grows, ChainIsOrdered',
           \A k \in 1 .. Len(accounts') : accounts'[k].lastSafe # 0 =>
              \/ /\ k \in 1 .. Len(accounts)
                 /\ accounts'[k].address = accounts[k].address
                 /\ accounts'[k].lastSafe = accounts[k].lastSafe
              \/ DeepEnough(accounts[k].address, accounts[k].lastSafe)',
           \A s \in Runs : call'[s].head <= head',
           \A s \in Runs : (txes'[s] = txes[s] /\ call'[s] = call[s]) \/ RowIsSafe(s)'
    PROVE  SafetyInv'
<1> USE DEF SafetyInv
<1>1. /\ \A a \in Address, n \in Nat : DeepEnough(a, n) => DeepEnough(a, n)'
      /\ \A x \in AnAttempt : BlockOf(x) # {} => BlockOf(x)' # {}
  BY SafeStaysSafe
<1>2. LastSafeIsSafe'
  <2>1. ASSUME NEW k \in 1 .. Len(accounts'), accounts'[k].lastSafe # 0
        PROVE  DeepEnough(accounts[k].address, accounts[k].lastSafe)'
    <3>1. CASE /\ k \in 1 .. Len(accounts)
               /\ accounts'[k].address = accounts[k].address
               /\ accounts'[k].lastSafe = accounts[k].lastSafe
      <4>1. accounts[k].address \in Address /\ accounts[k].lastSafe \in Nat
        BY <3>1, AccountsAreTyped DEF NonceInv, Typed, AnAccount
      <4>2. DeepEnough(accounts[k].address, accounts[k].lastSafe)
        BY <2>1, <3>1 DEF LastSafeIsSafe
      <4>3. DeepEnough(accounts[k].address, accounts[k].lastSafe)
            => (mined'[accounts[k].address][accounts[k].lastSafe + 1].block + MinConfs - 1 <= head'
                /\ accounts[k].lastSafe < Len(mined'[accounts[k].address]))
        BY <1>1, <4>1 DEF DeepEnough
      <4> QED
        BY <3>1, <4>2, <4>3 DEF DeepEnough
    <3> QED
      BY <2>1, <3>1
  <2> QED
    BY <2>1 DEF LastSafeIsSafe
<1>3. ASSUME NEW s \in Runs
      PROVE  RowIsSafe(s)'
  <2>1. CASE txes'[s] = txes[s] /\ call'[s] = call[s]
    <3>1. txes[s].from \in Address /\ txes[s].nonce \in Nat /\ txes[s].hash \subseteq AnAttempt
      BY DEF NonceInv, Typed, RunsTyped, ARow
    <3>2. RowIsSafe(s)
      OBVIOUS
    <3>3. DeepEnough(txes[s].from, txes[s].nonce)
            => (mined'[txes[s].from][txes[s].nonce + 1].block + MinConfs - 1 <= head'
                /\ txes[s].nonce < Len(mined'[txes[s].from]))
      BY <1>1, <3>1 DEF DeepEnough
    <3>4. txes[s].confirmed => \A x \in txes[s].hash : BlockOf(x)' # {}
      BY <1>1, <3>1, <3>2 DEF RowIsSafe
    <3> QED
      BY <2>1, <3>2, <3>3, <3>4 DEF RowIsSafe, DeepEnough
  <2> QED
    BY <2>1
<1> QED
  BY <1>2, <1>3

\* An attempt that is found safe is the transaction of its nonce, mined deep enough.
LEMMA SafeAttemptIsDeep ==
    ASSUME NonceInv, ChainIsOrdered, NEW a \in AnAttempt, NEW h \in Nat, h <= head,
           CheckAttempt(a, h) = "safe"
    PROVE  BlockOf(a) # {} /\ DeepEnough(a.from, a.nonce)
<1>1. BlockOf(a) # {} /\ ~(h < MinConfs + Min(BlockOf(a)) - 1)
  BY DEF CheckAttempt
<1>2. a.from \in Address /\ a.nonce \in Nat
  BY DEF AnAttempt
<1>3. /\ Len(mined[a.from]) \in Nat /\ DOMAIN mined[a.from] = 1 .. Len(mined[a.from])
      /\ \A i \in 1 .. Len(mined[a.from]) : mined[a.from][i].block \in Nat
  BY <1>2, MinedIsTyped DEF NonceInv, Typed, NodeTyped
<1> DEFINE b == mined[a.from][a.nonce + 1].block
<1>4. ASSUME NEW i \in 1 .. Len(mined[a.from]), mined[a.from][i].tx = a
      PROVE  i = a.nonce + 1
  BY <1>2, <1>4 DEF ChainIsOrdered
<1>5. BlockOf(a) = {b} /\ a.nonce + 1 \in 1 .. Len(mined[a.from])
  <2>1. \A y \in BlockOf(a) : y = b
    BY <1>3, <1>4 DEF BlockOf, ToSet
  <2>2. a.nonce + 1 \in 1 .. Len(mined[a.from])
    BY <1>1, <1>3, <1>4 DEF BlockOf, ToSet
  <2> HIDE DEF b
  <2> QED
    BY <1>1, <2>1, <2>2
<1>6. b \in Nat
  BY <1>3, <1>5
<1> HIDE DEF b
<1>7. Min(BlockOf(a)) = b
  BY <1>5, <1>6, MinIsLeast
<1>8. MinConfs \in Nat /\ head \in Nat
  BY ConstantsAssumption DEF NonceInv, Typed, ManagerTyped
<1>9. b + MinConfs - 1 <= head
  BY <1>1, <1>6, <1>7, <1>8
<1> QED
  BY <1>1, <1>2, <1>3, <1>5, <1>9 DEF DeepEnough, b

LEMMA ConfirmingNothingKeepsSafetyInv ==
    ASSUME SafetyInv, NonceInv', NEW r \in Runs, ConfirmsNothing(r)
    PROVE  SafetyInv'
<1> USE DEF SafetyInv
<1>1. head \in Nat /\ head' = head /\ UNCHANGED <<mined, height>>
  BY DEF ConfirmsNothing, NonceInv, Typed, ManagerTyped
<1>2. Grows /\ ChainIsOrdered'
  BY <1>1, SameChainGrows
<1>3. \A k \in 1 .. Len(accounts') :
          /\ k \in 1 .. Len(accounts)
          /\ accounts'[k].address = accounts[k].address
          /\ accounts'[k].lastSafe = accounts[k].lastSafe
  BY DEF ConfirmsNothing, SameSafe
<1>4. \A s \in Runs : call'[s].head <= head'
  BY <1>1 DEF ConfirmsNothing, OthersStay, LastSafeIsSafe
<1>5. RowIsSafe(r)'
  BY DEF RowIsSafe, ConfirmsNothing
<1>6. \A s \in Runs : (txes'[s] = txes[s] /\ call'[s] = call[s]) \/ RowIsSafe(s)'
  BY <1>5 DEF ConfirmsNothing, OthersStay
<1> QED
  BY <1>2, <1>3, <1>4, <1>6, SafetyMoves

LEMMA HandleSafeKeepsSafetyInv ==
    ASSUME SafetyInv, NonceInv', NEW r \in Runs, call[r].at = "check",
           NEW a \in AnAttempt, a.from = txes[r].from, a.nonce = txes[r].nonce,
           CheckAttempt(a, call[r].head) = "safe", HandleSafe(r, a),
           UNCHANGED <<mined, height, head>>
    PROVE  SafetyInv'
<1> USE DEF SafetyInv, NonceInv, Typed
<1>1. call[r] \in ACall /\ txes[r] \in ARow
  BY DEF RunsTyped
<1>2. a.from \in Address /\ a.nonce \in Nat
  BY DEF AnAttempt
<1>3. call[r].head \in Nat /\ call[r].head <= head /\ head \in Nat
  BY <1>1 DEF ACall, LastSafeIsSafe, ManagerTyped
<1>4. BlockOf(a) # {} /\ DeepEnough(a.from, a.nonce)
  BY <1>3, SafeAttemptIsDeep
<1>5. Grows /\ ChainIsOrdered'
  BY <1>3, SameChainGrows
<1>6. accounts' = UpdateLastSafeNonce(a.from, a.nonce)
  BY DEF HandleSafe
<1>7. /\ Len(accounts') = Len(accounts)
      /\ \A k \in 1 .. Len(accounts) :
            /\ accounts'[k].address = accounts[k].address
            /\ accounts'[k].lastSafe = accounts[k].lastSafe
               \/ (accounts'[k].lastSafe = a.nonce /\ accounts[k].address = a.from)
  BY <1>2, <1>6, UpdateIsTyped
<1>8. \A k \in 1 .. Len(accounts') : accounts'[k].lastSafe # 0 =>
          \/ /\ k \in 1 .. Len(accounts)
             /\ accounts'[k].address = accounts[k].address
             /\ accounts'[k].lastSafe = accounts[k].lastSafe
          \/ DeepEnough(accounts[k].address, accounts[k].lastSafe)'
  <2>1. a.nonce < Len(mined'[a.from]) /\ mined'[a.from][a.nonce + 1].block + MinConfs - 1 <= head'
    BY <1>4 DEF DeepEnough
  <2> QED
    BY <1>7, <2>1 DEF DeepEnough
<1>9. call' = [call EXCEPT ![r] = Ended(r, "safe")]
  BY DEF HandleSafe, Ends
<1>10. Ended(r, "safe").head = 0 /\ Ended(r, "safe").at \in Done
  BY EndedIsTyped DEF Steps, Done
<1>11. call'[r].head = 0 /\ call'[r].at \in Done /\ \A s \in Runs \ {r} : call'[s] = call[s]
  BY <1>9, <1>10 DEF RunsTyped
<1>12. \A s \in Runs : call'[s].head <= head'
  BY <1>3, <1>11 DEF LastSafeIsSafe
<1>13. (txes' = MarkTxSafe(r, a) \/ UNCHANGED txes) /\ \A s \in Runs \ {r} : txes'[s] = txes[s]
  BY DEF HandleSafe, MarkTxSafe, RunsTyped
<1>14. RowIsSafe(r)'
  <2>1. CASE UNCHANGED txes
    <3>1. ~txes[r].confirmed
      BY DEF RowIsSafe, Done
    <3> QED
      BY <2>1, <3>1 DEF RowIsSafe
  <2>2. CASE txes' = MarkTxSafe(r, a)
    <3>1. txes'[r].hash = {a} /\ txes'[r].from = a.from /\ txes'[r].nonce = a.nonce
      BY <1>1, <2>2 DEF MarkTxSafe, RunsTyped, ARow
    <3>2. a.nonce < Len(mined'[a.from]) /\ mined'[a.from][a.nonce + 1].block + MinConfs - 1 <= head'
      BY <1>4 DEF DeepEnough
    <3>3. BlockOf(a)' # {}
      BY <1>4 DEF BlockOf
    <3> QED
      BY <1>11, <3>1, <3>2, <3>3 DEF RowIsSafe, DeepEnough
  <2> QED
    BY <1>13, <2>1, <2>2
<1>15. \A s \in Runs : (txes'[s] = txes[s] /\ call'[s] = call[s]) \/ RowIsSafe(s)'
  BY <1>11, <1>13, <1>14
<1> QED
  BY <1>5, <1>8, <1>12, <1>15, SafetyMoves

\* A later nonce of the same account is deep enough, so this one is.
LEMMA OvertakenKeepsSafetyInv ==
    ASSUME SafetyInv, NonceInv', NEW r \in Runs, CheckAccount(r), Overtaken(r), Ends(r, "error")
    PROVE  SafetyInv'
<1> USE DEF SafetyInv, NonceInv, Typed
<1>1. txes[r] \in ARow /\ txes[r].from \in Address /\ txes[r].nonce \in Nat
  BY DEF RunsTyped, ARow
<1>2. head \in Nat /\ UNCHANGED <<mined, height, head, accounts>> /\ call[r].at = "account"
  BY DEF CheckAccount, node, manager, ManagerTyped
<1>3. Grows /\ ChainIsOrdered'
  BY <1>2, SameChainGrows
<1>4. DeepEnough(txes[r].from, txes[r].nonce)
  <2>1. PICK k \in AccountOf(txes[r].from) : accounts[k].lastSafe > txes[r].nonce
    BY DEF Overtaken
  <2>2. k \in 1 .. Len(accounts) /\ accounts[k].address = txes[r].from
    BY ElementOfSeq DEF AccountOf, ManagerTyped, ToSet
  <2> DEFINE n == txes[r].nonce
             m == accounts[k].lastSafe
             chain == mined[txes[r].from]
  <2>3. m \in Nat /\ n \in Nat /\ n < m
    BY <1>1, <2>1, <2>2, AccountsAreTyped DEF AnAccount
  <2>4. m < Len(chain) /\ chain[m + 1].block + MinConfs - 1 <= head
    <3>1. m # 0 => DeepEnough(accounts[k].address, m)
      BY <2>2 DEF LastSafeIsSafe
    <3> QED
      BY <2>2, <2>3, <3>1 DEF DeepEnough
  <2>5. Len(chain) \in Nat /\ \A i \in 1 .. Len(chain) : chain[i].block \in Nat
    BY <1>1, MinedIsTyped DEF NodeTyped
  <2>6. \A i \in 1 .. Len(chain) : \A j \in 1 .. i : chain[j].block <= chain[i].block
    BY <1>1 DEF ChainIsOrdered
  <2> HIDE DEF n, m, chain
  <2>7. n + 1 \in 1 .. m + 1 /\ m + 1 \in 1 .. Len(chain) /\ n + 1 \in 1 .. Len(chain)
    BY <2>3, <2>4, <2>5
  <2>8. chain[n + 1].block <= chain[m + 1].block
    BY <2>6, <2>7
  <2>9. MinConfs \in Nat
    BY ConstantsAssumption
  <2>10. n < Len(chain) /\ chain[n + 1].block + MinConfs - 1 <= head
    BY <1>2, <2>3, <2>4, <2>5, <2>7, <2>8, <2>9
  <2> QED
    BY <2>10 DEF DeepEnough, n, chain
<1>5. call' = [call EXCEPT ![r] = Ended(r, "error")]
  BY DEF Ends
<1>6. Ended(r, "error").head = 0 /\ Ended(r, "error").at \in Done
  BY EndedIsTyped DEF Steps, Done
<1>7. call'[r].head = 0 /\ call'[r].at \in Done /\ \A s \in Runs \ {r} : call'[s] = call[s]
  BY <1>5, <1>6 DEF RunsTyped
<1>8. \A s \in Runs : call'[s].head <= head'
  BY <1>2, <1>7 DEF LastSafeIsSafe
<1>9. \/ txes' = [txes EXCEPT ![r].confirmed = TRUE, ![r].hash = NoHash]
      \/ UNCHANGED txes
  BY <1>7 DEF CheckAccount
<1>10. RowIsSafe(r)'
  <2>1. CASE UNCHANGED txes
    <3>1. ~txes[r].confirmed
      BY <1>2 DEF RowIsSafe, Done
    <3> QED
      BY <2>1, <3>1 DEF RowIsSafe
  <2>2. CASE txes' = [txes EXCEPT ![r].confirmed = TRUE, ![r].hash = NoHash]
    <3>1. txes'[r].hash = {} /\ txes'[r].from = txes[r].from /\ txes'[r].nonce = txes[r].nonce
      BY <1>1, <2>2 DEF RunsTyped, ARow, NoHash
    <3>2. txes[r].nonce < Len(mined'[txes[r].from])
          /\ mined'[txes[r].from][txes[r].nonce + 1].block + MinConfs - 1 <= head'
      BY <1>2, <1>4 DEF DeepEnough
    <3> QED
      BY <1>7, <3>1, <3>2 DEF RowIsSafe, DeepEnough
  <2> QED
    BY <1>9, <2>1, <2>2
<1>11. \A s \in Runs : (txes'[s] = txes[s] /\ call'[s] = call[s]) \/ RowIsSafe(s)'
  BY <1>7, <1>9, <1>10 DEF RunsTyped
<1>12. \A k \in 1 .. Len(accounts') :
          /\ k \in 1 .. Len(accounts)
          /\ accounts'[k].address = accounts[k].address
          /\ accounts'[k].lastSafe = accounts[k].lastSafe
  BY <1>2
<1> QED
  BY <1>3, <1>8, <1>11, <1>12, SafetyMoves

\* A step of the node or the head tracker, in which the runs stay where they are.
LEMMA OtherStepsKeepSafetyInv ==
    ASSUME SafetyInv, NonceInv', UNCHANGED <<txes, call>>, Grows, ChainIsOrdered',
           UNCHANGED accounts \/ Connect
    PROVE  SafetyInv'
<1> USE DEF SafetyInv, NonceInv, Typed
<1>1. \A s \in Runs : call'[s].head <= head'
  BY DEF LastSafeIsSafe, Grows, ManagerTyped, RunsTyped, ACall
<1>2. ASSUME NEW k \in 1 .. Len(accounts'), accounts'[k].lastSafe # 0
      PROVE  /\ k \in 1 .. Len(accounts)
             /\ accounts'[k].address = accounts[k].address
             /\ accounts'[k].lastSafe = accounts[k].lastSafe
  <2>1. CASE UNCHANGED accounts
    BY <2>1
  <2>2. CASE Connect
    <3>0. PICK n \in 0 .. Len(Addresses) : \E active \in [1 .. n -> DOMAIN Addresses] :
             accounts' = accounts \o [i \in 1 .. n |-> ActivateAccount(Addresses[active[i]])]
      BY <2>2 DEF Connect
    <3>1. PICK active \in [1 .. n -> DOMAIN Addresses] :
             accounts' = accounts \o [i \in 1 .. n |-> ActivateAccount(Addresses[active[i]])]
      BY <3>0
    <3> DEFINE made == [i \in 1 .. n |-> ActivateAccount(Addresses[active[i]])]
    <3>2. \A i \in 1 .. n : made[i].lastSafe = 0
      BY DEF ActivateAccount
    <3>3. n \in Nat
      BY AddressesAreAddress
    <3>4. made \in [1 .. n -> Range(made)]
      BY DEF Range
    <3>5. made \in Seq(Range(made)) /\ Len(made) = n
      <4>1. DOMAIN made = 1 .. n
        OBVIOUS
      <4> HIDE DEF made
      <4>2. made \in Seq(Range(made))
        BY <3>3, <3>4
      <4> QED
        BY <3>3, <4>1, <4>2, LenProperties
    <3>6. accounts \in Seq(AnAccount) /\ Len(accounts) \in Nat
      BY AccountsAreTyped DEF ManagerTyped
    <3>7. accounts' = accounts \o made
      BY <3>1
    <3> HIDE DEF made
    <3>8. /\ accounts \in Seq(AnAccount \cup Range(made)) /\ made \in Seq(AnAccount \cup Range(made))
      BY <3>5, <3>6
    <3>9. /\ Len(accounts') = Len(accounts) + n
          /\ \A i \in 1 .. Len(accounts) + n :
                accounts'[i] = IF i <= Len(accounts) THEN accounts[i] ELSE made[i - Len(accounts)]
      BY <3>5, <3>7, <3>8, ConcatProperties
    <3>10. ASSUME k > Len(accounts)
           PROVE  FALSE
      <4>1. k - Len(accounts) \in 1 .. n /\ accounts'[k] = made[k - Len(accounts)]
        BY <3>3, <3>6, <3>9, <3>10
      <4> QED
        BY <1>2, <3>2, <4>1
    <3>11. k \in 1 .. Len(accounts) /\ accounts'[k] = accounts[k]
      BY <3>3, <3>6, <3>9, <3>10
    <3> QED
      BY <3>11
  <2> QED
    BY <2>1, <2>2
<1> QED
  BY <1>1, <1>2, SafetyMoves

LEMMA NextKeepsSafetyInv == SafetyInv /\ [Next]_vars => SafetyInv'
<1> SUFFICES ASSUME SafetyInv, [Next]_vars
             PROVE  SafetyInv'
  OBVIOUS
<1> USE DEF SafetyInv
<1>1. NonceInv'
  BY NextKeepsNonceInv
<1>2. head \in Nat /\ head <= head
  BY DEF NonceInv, Typed, ManagerTyped
<1>3. CASE Mine
  <2>1. UNCHANGED <<txes, call, accounts>>
    BY <1>3 DEF Mine
  <2> QED
    BY <1>1, <1>3, <2>1, MineGrows, OtherStepsKeepSafetyInv
<1>4. ASSUME UNCHANGED <<mined, height, txes, call>>, head <= head', UNCHANGED accounts \/ Connect
      PROVE  SafetyInv'
  BY <1>1, <1>4, SameChainGrows, OtherStepsKeepSafetyInv
<1>5. CASE LosePool \/ ReadUnconfirmed \/ ConnectReturns \/ Disconnect
           \/ (\E x \in resend.todo : SendAgain(x)) \/ UNCHANGED vars
  <2>1. UNCHANGED <<mined, height, txes, call, head, accounts>>
    BY <1>5 DEF LosePool, ReadUnconfirmed, ConnectReturns, Disconnect, SendAgain, vars, node, manager
  <2> QED
    BY <1>2, <1>4, <2>1
<1>6. CASE Connect
  <2>1. head' \in head .. height /\ UNCHANGED <<mined, height, txes, call>>
    BY <1>6 DEF Connect, node
  <2> QED
    BY <1>4, <1>6, <2>1
<1>7. CASE OnNewHead
  <2>1. head' \in head + 1 .. height /\ UNCHANGED <<mined, height, txes, call, accounts>>
    BY <1>7 DEF OnNewHead, node
  <2> QED
    BY <1>2, <1>4, <2>1
<1>8. ASSUME NEW r \in Runs, CreateTx(r)
      PROVE  SafetyInv'
  BY <1>1, <1>8, CreatingConfirmsNothing, ConfirmingNothingKeepsSafetyInv
<1>9. ASSUME NEW r \in Runs, BumpGasUntilSafe(r)
      PROVE  SafetyInv'
  <2>1. CASE ConfirmsNothing(r)
    BY <1>1, <2>1, ConfirmingNothingKeepsSafetyInv
  <2>2. CASE /\ call[r].at = "check"
             /\ CheckAttempt(txes[r].attempts[call[r].i].tx, call[r].head) = "safe"
             /\ HandleSafe(r, txes[r].attempts[call[r].i].tx)
             /\ UNCHANGED <<mined, height, head>>
    <3>1. call[r].i \in 1 .. Len(txes[r].attempts)
      BY <2>2 DEF NonceInv, AttemptsAreOfRow, Checking
    <3>2. txes[r].attempts[call[r].i] \in [tx : AnAttempt, sentAt : Nat]
      BY <3>1, AttemptIsTyped DEF NonceInv, Typed
    <3>3. PICK a \in AnAttempt : a = txes[r].attempts[call[r].i].tx
      BY <3>2
    <3>4. a.from = txes[r].from /\ a.nonce = txes[r].nonce
      BY <3>1, <3>3 DEF NonceInv, AttemptsAreOfRow
    <3>5. CheckAttempt(a, call[r].head) = "safe" /\ HandleSafe(r, a)
      BY <2>2, <3>3
    <3> QED
      BY <1>1, <2>2, <3>4, <3>5, HandleSafeKeepsSafetyInv
  <2>3. CASE CheckAccount(r) /\ Overtaken(r) /\ Ends(r, "error")
    BY <1>1, <2>3, OvertakenKeepsSafetyInv
  <2> QED
    BY <1>9, <2>1, <2>2, <2>3, WatchingConfirmsNothing
<1> QED
  BY <1>3, <1>5, <1>6, <1>7, <1>8, <1>9 DEF Next

LEMMA InitSafetyInv == Init => SafetyInv
<1> SUFFICES ASSUME Init
             PROVE  SafetyInv
  OBVIOUS
<1>1. NonceInv
  BY InitNonceInv
<1>2. ChainIsOrdered
  BY DEF Init, ChainIsOrdered, Address
<1>3. LastSafeIsSafe
  BY DEF Init, LastSafeIsSafe, Idle
<1>4. \A r \in Runs : RowIsSafe(r)
  BY DEF Init, RowIsSafe, NoTx
<1> QED
  BY <1>1, <1>2, <1>3, <1>4 DEF SafetyInv

LEMMA SafetyInvSuffices == SafetyInv => ConfirmedIsSafe
<1> SUFFICES ASSUME SafetyInv, NEW r \in Runs, txes[r].confirmed
             PROVE  /\ \E b \in MinedAt(r) : head >= b + MinConfs - 1
                    /\ \A a \in txes[r].hash : BlockOf(a) # {}
  BY DEF ConfirmedIsSafe
<1> USE DEF SafetyInv
<1> DEFINE from == txes[r].from
           n == txes[r].nonce
           b == mined[from][n + 1].block
<1>1. from \in Address /\ n \in Nat
  BY DEF NonceInv, Typed, RunsTyped, ARow
<1>2. DeepEnough(from, n) /\ \A a \in txes[r].hash : BlockOf(a) # {}
  BY DEF RowIsSafe
<1>3. /\ Len(mined[from]) \in Nat /\ DOMAIN mined[from] = 1 .. Len(mined[from])
      /\ \A i \in 1 .. Len(mined[from]) : mined[from][i].block \in Nat
  BY <1>1, MinedIsTyped DEF NonceInv, Typed, NodeTyped
<1>4. n + 1 \in 1 .. Len(mined[from])
  BY <1>1, <1>2, <1>3 DEF DeepEnough
<1>5. mined[from][n + 1].tx.nonce = n
  BY <1>1, <1>4 DEF ChainIsOrdered
<1>6. b \in MinedAt(r)
  BY <1>3, <1>4, <1>5 DEF MinedAt, ToSet
<1>7. b \in Nat /\ head \in Nat /\ MinConfs \in Nat
  BY <1>3, <1>4, ConstantsAssumption DEF NonceInv, Typed, ManagerTyped
<1>8. head >= b + MinConfs - 1
  <2>1. b + MinConfs - 1 <= head
    BY <1>2 DEF DeepEnough
  <2> HIDE DEF b
  <2> QED
    BY <1>7, <2>1
<1> QED
  BY <1>2, <1>6, <1>8

\* A transaction is confirmed in the database only when its nonce is mined deep enough.
THEOREM ConfirmedTransactionsAreSafe == Spec => []ConfirmedIsSafe
BY InitSafetyInv, NextKeepsSafetyInv, SafetyInvSuffices, PTL DEF Spec

----------------------------------------------------------------------------
(* ResendInv.                                                               *)

\* A nonce that is taken stays so, unless the node loses its pool.
LEMMA TakenStays ==
    ASSUME NonceInv, [Next]_vars, ~LosePool
    PROVE  \A b \in Address, n \in Nat : Taken(b, n) => Taken(b, n)'
<1> USE DEF NonceInv, Typed
<1>1. CASE UNCHANGED <<pool, mined>>
  BY <1>1 DEF Taken
<1>2. CASE Mine
  <2>1. ASSUME NEW a \in pool, a.nonce = Len(mined[a.from]),
               mined' = [mined EXCEPT ![a.from] = Append(@, [tx |-> a, block |-> height + 1])],
               pool' = pool \ {a}, NEW b \in Address, NEW n \in Nat, Taken(b, n)
        PROVE  Taken(b, n)'
    <3> DEFINE m == [tx |-> a, block |-> height + 1]
    <3>1. a \in AnAttempt /\ a.from \in Address /\ height + 1 \in Nat
      BY <2>1 DEF NodeTyped, AnAttempt
    <3>2. m \in ABlock
      BY <3>1 DEF ABlock
    <3> HIDE DEF m
    <3>3. mined[b] \in Seq(ABlock) /\ Len(mined[b]) \in Nat
      BY MinedIsTyped DEF NodeTyped
    <3>4. mined'[b] = IF b = a.from THEN Append(mined[b], m) ELSE mined[b]
      BY <2>1, <3>1 DEF NodeTyped, m
    <3>5. Len(mined'[b]) = IF b = a.from THEN Len(mined[b]) + 1 ELSE Len(mined[b])
      BY <3>2, <3>3, <3>4, AppendProperties
    <3>6. CASE n < Len(mined[b])
      BY <3>3, <3>5, <3>6 DEF Taken
    <3>7. CASE \E x \in pool : x.from = b /\ x.nonce = n
      BY <2>1, <3>3, <3>5, <3>7 DEF Taken
    <3> QED
      BY <2>1, <3>6, <3>7 DEF Taken
  <2> QED
    BY <1>1, <1>2, <2>1 DEF Mine
<1>3. ASSUME NEW a \in AnAttempt, NEW reply, SendRawTx(a, reply), UNCHANGED <<mined, height, losses>>
      PROVE  \A b \in Address, n \in Nat : Taken(b, n) => Taken(b, n)'
  BY <1>3, SendingIsSound
<1>4. ASSUME NEW x \in resend.todo, SendAgain(x)
      PROVE  \A b \in Address, n \in Nat : Taken(b, n) => Taken(b, n)'
  <2>1. x.tx \in AnAttempt
    BY DEF ManagerTyped, AResend
  <2>2. UNCHANGED <<mined, height, losses>>
        /\ (UNCHANGED pool \/ \E reply \in Replies : SendRawTx(x.tx, reply))
    BY <1>4 DEF SendAgain
  <2> QED
    BY <1>1, <1>3, <2>1, <2>2
<1>5. ASSUME NEW r \in Runs, SendInitialTx(r)
      PROVE  \A b \in Address, n \in Nat : Taken(b, n) => Taken(b, n)'
  <2>1. Attempt(r) \in AnAttempt
    BY DEF Attempt, AnAttempt, RunsTyped, ARow
  <2> QED
    BY <1>3, <1>5, <2>1 DEF SendInitialTx
<1>6. ASSUME NEW r \in Runs, BumpGas(r)
      PROVE  \A b \in Address, n \in Nat : Taken(b, n) => Taken(b, n)'
  <2>1. Bumped(r) \in AnAttempt
    BY DEF Bumped, AnAttempt, RunsTyped, ARow, ACall
  <2>2. UNCHANGED <<mined, height, losses>>
        /\ (UNCHANGED pool \/ \E reply \in Replies : SendRawTx(Bumped(r), reply))
    BY <1>6 DEF BumpGas
  <2> QED
    BY <1>1, <1>3, <2>1, <2>2
<1>7. ASSUME NEW r \in Runs, CreateTx(r)
      PROVE  UNCHANGED <<pool, mined>> \/ SendInitialTx(r)
  BY <1>7 DEF CreateTx, NextAccount, WithdrawLINK, CreateTxWithEth, StoreTx, RecordAttempt, ReloadNonce,
              Resume, node
<1>8. ASSUME NEW r \in Runs, BumpGasUntilSafe(r)
      PROVE  UNCHANGED <<pool, mined>> \/ BumpGas(r)
  BY <1>8 DEF BumpGasUntilSafe, FindTx, ProcessAttempt, RecordBump, CheckAccount, node
<1>9. CASE Connect \/ ReadUnconfirmed \/ ConnectReturns \/ Disconnect \/ OnNewHead \/ UNCHANGED vars
  <2>1. UNCHANGED <<pool, mined>>
    BY <1>9 DEF Connect, ReadUnconfirmed, ConnectReturns, Disconnect, OnNewHead, vars, node
  <2> QED
    BY <1>1, <2>1
<1> QED
  BY <1>1, <1>2, <1>4, <1>5, <1>6, <1>7, <1>8, <1>9 DEF Next

\* The accounts keep their addresses and nonces.
SameNonces ==
    /\ Len(accounts') = Len(accounts)
    /\ \A k \in 1 .. Len(accounts) :
          accounts'[k].address = accounts[k].address /\ accounts'[k].nonce = accounts[k].nonce

\* The steps of a run that count no nonce, nor have had one accepted.
LEMMA RunCountsNothing ==
    ASSUME NonceInv, NEW r \in Runs,
           \/ \E transfer \in BOOLEAN : NextAccount(r, transfer)
           \/ CreateTxWithEth(r) \/ StoreTx(r) \/ Resume(r) \/ BumpGasUntilSafe(r)
    PROVE  SameNonces /\ OthersStay(r) /\ call'[r].at # "record"
<1> USE DEF NonceInv, Typed
<1> DEFINE c == call[r]
           k == c.ma
<1>1. c \in ACall /\ txes[r] \in ARow
  BY DEF RunsTyped
<1>2. SameNonces
  <2>1. CASE UNCHANGED accounts
    BY <2>1 DEF SameNonces
  <2>2. CASE StoreTx(r) /\ accounts' = [accounts EXCEPT ![k].lock = r]
    <3>1. k \in 1 .. Len(accounts) /\ DOMAIN accounts = 1 .. Len(accounts)
          /\ \A j \in 1 .. Len(accounts) : accounts[j] \in AnAccount
      BY <2>2, AccountsAreTyped DEF LocksAreHeld, StoreTx
    <3> DEFINE b == [accounts[k] EXCEPT !.lock = r]
    <3>2. b \in AnAccount /\ b.address = accounts[k].address /\ b.nonce = accounts[k].nonce
      BY <3>1 DEF AnAccount
    <3>3. accounts' = [accounts EXCEPT ![k] = b]
      BY <2>2, <3>1
    <3> HIDE DEF b
    <3>4. accounts \in Seq(AnAccount)
      BY DEF ManagerTyped
    <3>5. Len(accounts') = Len(accounts)
          /\ \A j \in 1 .. Len(accounts) : accounts'[j] = IF j = k THEN b ELSE accounts[j]
      BY <3>1, <3>2, <3>3, <3>4, ExceptSeq
    <3> QED
      BY <3>2, <3>5 DEF SameNonces
  <2>3. CASE accounts' = UpdateLastSafeNonce(txes[r].from, txes[r].nonce)
    <3>1. txes[r].from \in Address /\ txes[r].nonce \in Nat
      BY <1>1 DEF ARow
    <3> QED
      BY <2>3, <3>1, UpdateIsTyped DEF SameNonces
  <2> QED
    BY <2>1, <2>2, <2>3 DEF NextAccount, CreateTxWithEth, StoreTx, Resume, BumpGasUntilSafe, FindTx,
       ProcessAttempt, HandleSafe, BumpGas, RecordBump, CheckAccount
<1>3. \A s \in Runs \ {r} : txes'[s] = txes[s]
  <2>1. UNCHANGED txes => \A s \in Runs \ {r} : txes'[s] = txes[s]
    OBVIOUS
  <2>2. StoreTx(r) => \A s \in Runs \ {r} : txes'[s] = txes[s]
    BY DEF StoreTx, RunsTyped
  <2>3. RecordBump(r) => \A s \in Runs \ {r} : txes'[s] = txes[s]
    BY DEF RecordBump, AddTxAttempt, RunsTyped
  <2>4. CheckAccount(r) => \A s \in Runs \ {r} : txes'[s] = txes[s]
    BY DEF CheckAccount, RunsTyped
  <2>5. ProcessAttempt(r) => \A s \in Runs \ {r} : txes'[s] = txes[s]
    BY DEF ProcessAttempt, HandleSafe, MarkTxSafe, RunsTyped
  <2> QED
    BY <2>1, <2>2, <2>3, <2>4, <2>5 DEF NextAccount, CreateTxWithEth, Resume, BumpGasUntilSafe, FindTx, BumpGas
<1>4. ASSUME NEW d, call' = [call EXCEPT ![r] = d], d.at # "record"
      PROVE  call'[r].at # "record" /\ \A s \in Runs \ {r} : call'[s] = call[s]
  BY <1>4 DEF RunsTyped
<1>5. c.at \in Checking => Earlier(c).at # "record" /\ Failed(c).at # "record"
  <2>1. Len(txes[r].attempts) \in Nat
    BY <1>1 DEF ARow
  <2> QED
    BY <1>1, <2>1, EarlierIsTyped DEF AttemptsAreOfRow
<1>6. \A at \in Steps \ {"record"} : Ends(r, at) =>
         call'[r].at # "record" /\ \A s \in Runs \ {r} : call'[s] = call[s]
  BY EndedIsTyped DEF Ends, RunsTyped
<1>7. call'[r].at # "record" /\ \A s \in Runs \ {r} : call'[s] = call[s]
  <2>1. CASE (\E transfer \in BOOLEAN : NextAccount(r, transfer)) \/ CreateTxWithEth(r)
    <3>1. PICK j \in ToSet(available), transfer \in BOOLEAN : Takes(r, j, transfer)
      BY <2>1 DEF NextAccount, CreateTxWithEth
    <3> QED
      BY <3>1 DEF Takes, RunsTyped, Idle
  <2>2. CASE StoreTx(r)
    <3>1. Ends(r, "failed") \/ call' = [call EXCEPT ![r].at = "send", ![r].head = head]
      BY <2>2 DEF StoreTx
    <3>2. CASE call' = [call EXCEPT ![r].at = "send", ![r].head = head]
      BY <1>1, <3>2 DEF RunsTyped, ACall
    <3> QED
      BY <1>6, <3>1, <3>2 DEF Steps
  <2>3. CASE Resume(r)
    BY <2>3 DEF Resume, RunsTyped, Idle
  <2>4. CASE FindTx(r)
    <3>1. call' = [call EXCEPT ![r].at = "check", ![r].i = Len(txes[r].attempts),
                               ![r].head = head, ![r].failed = FALSE]
      BY <2>4 DEF FindTx
    <3> QED
      BY <1>1, <3>1 DEF RunsTyped, ACall
  <2>5. CASE ProcessAttempt(r)
    <3> DEFINE a == txes[r].attempts[c.i].tx
               up == [c EXCEPT !.at = "bump", !.price = BumpGasByIncrement(a.price)]
    <3>1. \/ Ends(r, "safe")
          \/ \E d \in {At("watch"), up, Earlier(c), Failed(c)} : call' = [call EXCEPT ![r] = d]
      BY <2>5, Zenon DEF ProcessAttempt, HandleSafe
    <3>2. up.at = "bump" /\ At("watch").at = "watch"
      BY <1>1 DEF ACall, At, Idle
    <3>3. c.at = "check"
      BY <2>5 DEF ProcessAttempt
    <3> HIDE DEF up, a, c
    <3>4. \A d \in {At("watch"), up, Earlier(c), Failed(c)} : d.at # "record"
      BY <1>5, <3>2, <3>3 DEF Checking
    <3>5. CASE \E d \in {At("watch"), up, Earlier(c), Failed(c)} : call' = [call EXCEPT ![r] = d]
      BY <3>4, <3>5 DEF RunsTyped
    <3> QED
      BY <1>6, <3>1, <3>5 DEF Steps
  <2>6. CASE BumpGas(r)
    <3> DEFINE up == [c EXCEPT !.price = BumpGasByIncrement(c.price)]
               sent == [c EXCEPT !.at = "recordBump"]
    <3>1. c.at = "bump"
      BY <2>6 DEF BumpGas
    <3>2. PICK d \in {Failed(c), sent, up} : call' = [call EXCEPT ![r] = d]
      BY <1>1, <2>6 DEF BumpGas, ACall
    <3>3. up.at = c.at /\ sent.at = "recordBump"
      BY <1>1 DEF ACall
    <3> HIDE DEF up, sent, c
    <3> QED
      BY <1>5, <3>1, <3>2, <3>3 DEF Checking, RunsTyped
  <2>7. CASE RecordBump(r)
    <3>1. c.at = "recordBump"
      BY <2>7 DEF RecordBump
    <3>2. PICK d \in {Earlier(c), Failed(c)} : call' = [call EXCEPT ![r] = d]
      BY <2>7 DEF RecordBump
    <3> HIDE DEF c
    <3> QED
      BY <1>5, <3>1, <3>2 DEF Checking, RunsTyped
  <2>8. CASE CheckAccount(r)
    BY <1>6, <2>8 DEF CheckAccount, Steps
  <2> QED
    BY <2>1, <2>2, <2>3, <2>4, <2>5, <2>6, <2>7, <2>8 DEF BumpGasUntilSafe
<1> QED
  BY <1>2, <1>3, <1>7 DEF OthersStay

\* What Connect makes: an account for each address that it is told the nonce of.
LEMMA ConnectActivates ==
    ASSUME NonceInv, Connect
    PROVE  \E n \in 0 .. Len(Addresses) : \E active \in [1 .. n -> DOMAIN Addresses] :
              /\ \A k, l \in 1 .. n : k < l => active[k] < active[l]
              /\ faults' = faults + Len(Addresses) - n
              /\ \A k \in 1 .. n :
                    accounts'[Len(accounts) + k] = ActivateAccount(Addresses[active[k]])
              /\ ToSet(available') = {Len(accounts) + k : k \in 1 .. n}
<1> USE DEF NonceInv, Typed
<1>1. PICK n \in 0 .. Len(Addresses) :
         \E active \in [1 .. n -> DOMAIN Addresses] :
            /\ \A k, l \in 1 .. n : k < l => active[k] < active[l]
            /\ faults' = faults + Len(Addresses) - n
            /\ accounts' = accounts \o [k \in 1 .. n |-> ActivateAccount(Addresses[active[k]])]
            /\ available' = [k \in 1 .. n |-> Len(accounts) + k]
  BY DEF Connect
<1>2. PICK active \in [1 .. n -> DOMAIN Addresses] :
            /\ \A k, l \in 1 .. n : k < l => active[k] < active[l]
            /\ faults' = faults + Len(Addresses) - n
            /\ accounts' = accounts \o [k \in 1 .. n |-> ActivateAccount(Addresses[active[k]])]
            /\ available' = [k \in 1 .. n |-> Len(accounts) + k]
  BY <1>1
<1> DEFINE made == [k \in 1 .. n |-> ActivateAccount(Addresses[active[k]])]
<1>3. n \in Nat /\ Len(accounts) \in Nat /\ accounts \in Seq(AnAccount)
  BY AddressesAreAddress, AccountsAreTyped DEF ManagerTyped
<1>4. made \in Seq(Range(made)) /\ Len(made) = n
  <2>1. DOMAIN made = 1 .. n /\ made \in [1 .. n -> Range(made)]
    BY DEF Range
  <2> HIDE DEF made
  <2>2. made \in Seq(Range(made))
    BY <1>3, <2>1
  <2> QED
    BY <1>3, <2>1, <2>2, LenProperties
<1>5. accounts' = accounts \o made /\ \A k \in 1 .. n : made[k] = ActivateAccount(Addresses[active[k]])
  BY <1>2
<1> HIDE DEF made
<1>6. \A k \in 1 .. n : accounts'[Len(accounts) + k] = made[k]
  <2>1. accounts \in Seq(AnAccount \cup Range(made)) /\ made \in Seq(AnAccount \cup Range(made))
    BY <1>3, <1>4
  <2>2. \A i \in 1 .. Len(accounts) + n :
           accounts'[i] = IF i <= Len(accounts) THEN accounts[i] ELSE made[i - Len(accounts)]
    BY <1>4, <1>5, <2>1, ConcatProperties
  <2> QED
    BY <1>3, <2>2
<1>7. ToSet(available') = {Len(accounts) + k : k \in 1 .. n}
  BY <1>2 DEF ToSet
<1> QED
  BY <1>2, <1>5, <1>6, <1>7

LEMMA ConnectKeepsResendInv ==
    ASSUME ResendInv, NonceInv', Connect
    PROVE  NoneIsFree' /\ ResendIsSound'
<1> USE DEF ResendInv, NonceInv, Typed
<1>1. PICK n \in 0 .. Len(Addresses) :
         \E active \in [1 .. n -> DOMAIN Addresses] :
            /\ \A k, l \in 1 .. n : k < l => active[k] < active[l]
            /\ faults' = faults + Len(Addresses) - n
            /\ \A k \in 1 .. n : accounts'[Len(accounts) + k] = ActivateAccount(Addresses[active[k]])
            /\ ToSet(available') = {Len(accounts) + k : k \in 1 .. n}
  BY ConnectActivates
<1>2. PICK active \in [1 .. n -> DOMAIN Addresses] :
            /\ \A k, l \in 1 .. n : k < l => active[k] < active[l]
            /\ faults' = faults + Len(Addresses) - n
            /\ \A k \in 1 .. n : accounts'[Len(accounts) + k] = ActivateAccount(Addresses[active[k]])
            /\ ToSet(available') = {Len(accounts) + k : k \in 1 .. n}
  BY <1>1
<1>3. UNCHANGED <<node, txes, call>> /\ resend' = [at |-> "read", todo |-> {}] /\ connected' = TRUE
  BY DEF Connect
<1>4. n \in Nat /\ Len(accounts) \in Nat /\ Len(Addresses) \in Nat /\ DOMAIN Addresses = 1 .. Len(Addresses)
      /\ \A k \in 1 .. n : Addresses[active[k]] \in Address
  BY <1>1, <1>2, AddressesAreAddress, AccountsAreTyped
<1>5. ASSUME NEW k \in 1 .. n
      PROVE  /\ accounts'[Len(accounts) + k].address = Addresses[active[k]]
             /\ accounts'[Len(accounts) + k].nonce = PendingNonce(Addresses[active[k]])
  <2> DEFINE j == Len(accounts) + k
             a == Addresses[active[k]]
  <2>1. accounts'[j] = ActivateAccount(a)
    BY <1>2, <1>5
  <2> HIDE DEF j, a
  <2>2. accounts'[j].address = a /\ accounts'[j].nonce = PendingNonce(a)
    BY <2>1 DEF ActivateAccount
  <2> QED
    BY <2>2 DEF j, a
<1>6. NoneIsFree'
  <2>1. ASSUME NEW j \in ToSet(available'), NEW m \in 0 .. accounts'[j].nonce - 1
        PROVE  m < Len(mined'[accounts'[j].address])
               \/ \E x \in pool' : x.from = accounts'[j].address /\ x.nonce = m
    <3>1. PICK k \in 1 .. n : j = Len(accounts) + k
      BY <1>2, <2>1
    <3> DEFINE a == Addresses[active[k]]
    <3>2. a \in Address /\ accounts'[j].address = a /\ accounts'[j].nonce = PendingNonce(a)
      BY <1>4, <1>5, <3>1
    <3> HIDE DEF a
    <3>3. Taken(a, m)
      BY <2>1, <3>2, PendingNonceIsFree
    <3> QED
      BY <1>3, <3>2, <3>3 DEF Taken, node
  <2>2. ASSUME NEW j \in ToSet(available'), NEW r \in Runs
        PROVE  ~(call'[r].at = "record" /\ call'[r].ma = j)
    <3>1. j > Len(accounts)
      BY <1>2, <1>4, <2>2
    <3>2. call[r].at = "record" => call[r].ma \in 1 .. Len(accounts)
      BY DEF LocksAreHeld, Locking
    <3> QED
      BY <1>3, <1>4, <3>1, <3>2
  <2> QED
    BY <2>1, <2>2 DEF NoneIsFree, Taken
<1>7. ASSUME faults' = 0, NEW a \in Address
      PROVE  \E j \in ToSet(available') : accounts'[j].address = a
  <2>1. n = Len(Addresses)
    BY <1>2, <1>4, <1>7 DEF NodeTyped
  <2>2. active \in Injection(1 .. n, 1 .. n)
    <3>1. active \in [1 .. n -> 1 .. n]
      BY <1>4, <2>1
    <3>2. \A k \in 1 .. n : active[k] \in Nat
      BY <3>1
    <3>3. ASSUME NEW k \in 1 .. n, NEW l \in 1 .. n, active[k] = active[l]
          PROVE  k = l
      <4>1. ~(k < l) /\ ~(l < k)
        BY <1>2, <3>2, <3>3
      <4> QED
        BY <4>1
    <3>4. IsInjective(active)
      BY <3>1, <3>3, Zenon DEF IsInjective
    <3> QED
      BY <3>1, <3>4, Zenon DEF Injection
  <2>3. active \in Surjection(1 .. n, 1 .. n)
    BY <1>4, <2>2, FS_Interval, FS_Injection
  <2>4. PICK i \in 1 .. n : Addresses[i] = a
    BY <1>4, <2>1 DEF Address, ToSet
  <2>5. PICK k \in 1 .. n : active[k] = i
    BY <2>3 DEF Surjection
  <2>6. Len(accounts) + k \in ToSet(available')
    BY <1>2
  <2> QED
    BY <1>5, <2>4, <2>5, <2>6
<1>8. ResendIsSound'
  BY <1>3, <1>7 DEF ResendIsSound, AccountOf
<1> QED
  BY <1>6, <1>8

\* A step that makes no accounts keeps NoneIsFree if the nonces it counts are taken.
LEMMA NoneIsFreeMoves ==
    ASSUME NonceInv, NoneIsFree, NonceInv',
           \A b \in Address, n \in Nat : Taken(b, n) => Taken(b, n)',
           connected' => connected, UNCHANGED available,
           \A k \in 1 .. Len(accounts) :
              /\ accounts'[k].address = accounts[k].address
              /\ \/ accounts'[k].nonce = accounts[k].nonce
                 \/ \A n \in 0 .. accounts'[k].nonce - 1 : 
                       (\A m \in 0 .. accounts[k].nonce - 1 : Taken(accounts[k].address, m))
                          /\ connected /\ k \in ToSet(available)
                       => Taken(accounts[k].address, n),
           \A r \in Runs : call'[r].at = "record" =>
              /\ txes'[r] = txes[r] /\ call'[r].ma = call[r].ma
              /\ call[r].at = "record" \/ Taken(txes[r].from, txes[r].nonce)'
    PROVE  NoneIsFree'
<1> SUFFICES ASSUME connected', NEW k \in ToSet(available')
             PROVE  /\ \A n \in 0 .. accounts'[k].nonce - 1 : Taken(accounts[k].address, n)'
                    /\ \A r \in Runs : call'[r].at = "record" /\ call'[r].ma = k =>
                          Taken(txes[r].from, txes[r].nonce)'
  BY DEF NoneIsFree
<1> USE DEF NonceInv, Typed
<1>1. k \in ToSet(available) /\ k \in 1 .. Len(accounts) /\ connected
  BY ElementOfSeq DEF ManagerTyped, ToSet
<1>2. /\ accounts[k].address \in Address /\ accounts[k].nonce \in Nat
      /\ accounts'[k].address = accounts[k].address
  BY <1>1, AccountsAreTyped
<1>3. \A m \in 0 .. accounts[k].nonce - 1 : Taken(accounts[k].address, m)
  BY <1>1 DEF NoneIsFree
<1>4. ASSUME NEW n \in 0 .. accounts'[k].nonce - 1
      PROVE  Taken(accounts[k].address, n)'
  <2>1. Taken(accounts[k].address, n)
    BY <1>1, <1>3, <1>4
  <2>2. n \in Nat
    OBVIOUS
  <2> DEFINE a == accounts[k].address
  <2>3. PICK b \in Address : b = a
    BY <1>2
  <2>4. Taken(b, n)'
    BY <2>1, <2>2, <2>3
  <2> QED
    BY <1>2, <2>3, <2>4 DEF Taken
<1>5. ASSUME NEW r \in Runs, call'[r].at = "record", call'[r].ma = k
      PROVE  Taken(txes[r].from, txes[r].nonce)'
  <2>1. PICK b \in Address, n \in Nat : b = txes[r].from /\ n = txes[r].nonce
    BY DEF RunsTyped, ARow
  <2>2. CASE call[r].at = "record"
    <3>1. Taken(b, n)
      BY <1>1, <1>5, <2>1, <2>2 DEF NoneIsFree
    <3>2. Taken(b, n)'
      BY <3>1
    <3> QED
      BY <1>5, <2>1, <3>2 DEF Taken
  <2>3. CASE Taken(txes[r].from, txes[r].nonce)'
    BY <2>3
  <2> QED
    BY <1>5, <2>2, <2>3
<1> QED
  BY <1>4, <1>5

\* The steps in which a run has the lock, or counts a nonce.
LEMMA CountingKeepsNoneFree ==
    ASSUME ResendInv, NonceInv', NEW r \in Runs, [Next]_vars, ~LosePool,
           SendInitialTx(r) \/ RecordAttempt(r) \/ ReloadNonce(r)
    PROVE  NoneIsFree'
<1> USE DEF ResendInv, NonceInv, Typed
<1> DEFINE k == call[r].ma
<1>1. \A b \in Address, n \in Nat : Taken(b, n) => Taken(b, n)'
  BY TakenStays
<1>2. UNCHANGED <<connected, available>>
  BY DEF SendInitialTx, RecordAttempt, ReloadNonce, manager
<1>3. call[r] \in ACall /\ txes[r] \in ARow /\ k \in 1 .. Len(accounts)
  BY DEF RunsTyped, LocksAreHeld, Locking, SendInitialTx, RecordAttempt, ReloadNonce
<1>4. accounts[k] \in AnAccount /\ accounts[k].nonce \in Nat /\ accounts[k].address \in Address
      /\ DOMAIN accounts = 1 .. Len(accounts)
  BY <1>3, AccountsAreTyped
<1>5. OthersStay(r)
  BY CreatingConfirmsNothing DEF CreateTx, ConfirmsNothing
<1>6. Ended(r, "watch").at # "record" /\ Ended(r, "failed").at # "record"
  BY EndedIsTyped DEF Steps
<1>7. ASSUME NEW b \in AnAccount, accounts' = [accounts EXCEPT ![k] = b],
             b.address = accounts[k].address,
             \/ b.nonce = accounts[k].nonce
             \/ \A n \in 0 .. b.nonce - 1 : 
                   (\A m \in 0 .. accounts[k].nonce - 1 : Taken(accounts[k].address, m))
                      /\ connected /\ k \in ToSet(available)
                   => Taken(accounts[k].address, n),
             call'[r].at = "record" => 
                /\ txes'[r] = txes[r] /\ call'[r].ma = k /\ Taken(txes[r].from, txes[r].nonce)'
      PROVE  NoneIsFree'
  <2>1. \A j \in 1 .. Len(accounts) : accounts'[j] = IF j = k THEN b ELSE accounts[j]
    BY <1>3, <1>4, <1>7
  <2>2. \A j \in 1 .. Len(accounts) :
              /\ accounts'[j].address = accounts[j].address
              /\ \/ accounts'[j].nonce = accounts[j].nonce
                 \/ \A n \in 0 .. accounts'[j].nonce - 1 : 
                       (\A m \in 0 .. accounts[j].nonce - 1 : Taken(accounts[j].address, m))
                          /\ connected /\ j \in ToSet(available)
                       => Taken(accounts[j].address, n)
    BY <1>7, <2>1
  <2>3. \A s \in Runs : call'[s].at = "record" =>
              /\ txes'[s] = txes[s] /\ call'[s].ma = call[s].ma
              /\ call[s].at = "record" \/ Taken(txes[s].from, txes[s].nonce)'
    BY <1>5, <1>7 DEF OthersStay
  <2> QED
    BY <1>1, <1>2, <2>2, <2>3, NoneIsFreeMoves
<1>8. CASE SendInitialTx(r)
  <2>1. PICK reply \in Replies :
        /\ SendRawTx(Attempt(r), reply)
        /\ IF reply = "ok" THEN To(r, "record")
           ELSE IF reply \in TooLow THEN To(r, "reload") ELSE Ends(r, "failed")
        /\ accounts' = IF reply = "ok" THEN accounts ELSE EndNonce(r, FALSE)
    BY <1>8 DEF SendInitialTx
  <2>2. UNCHANGED <<mined, height, losses, txes>>
    BY <1>8 DEF SendInitialTx
  <2>3. Attempt(r) \in AnAttempt /\ Attempt(r).from = txes[r].from /\ Attempt(r).nonce = txes[r].nonce
    BY <1>3 DEF Attempt, AnAttempt, ARow
  <2>4. PICK a \in AnAttempt : a = Attempt(r)
    BY <2>3
  <2>5. reply = "ok" => Taken(a.from, a.nonce)'
    BY <2>1, <2>2, <2>4, SendingIsSound
  <2>6. reply = "ok" => Taken(txes[r].from, txes[r].nonce)'
    BY <2>2, <2>3, <2>4, <2>5 DEF Taken
  <2>7. CASE reply = "ok"
    <3>1. call'[r].ma = k
      BY <1>3, <2>1, <2>7 DEF To, RunsTyped, ACall
    <3>2. accounts' = [accounts EXCEPT ![k] = accounts[k]]
      BY <1>3, <1>4, <2>1, <2>7 DEF ManagerTyped
    <3> QED
      BY <1>4, <1>7, <2>2, <2>6, <2>7, <3>1, <3>2
  <2>8. CASE reply # "ok"
    <3>1. PICK b \in AnAccount : accounts' = [accounts EXCEPT ![k] = b]
                                 /\ b.address = accounts[k].address /\ b.nonce = accounts[k].nonce
      <4>1. accounts' = EndNonce(r, FALSE)
        BY <2>1, <2>8
      <4> QED
        BY <1>3, <4>1, EndNonceIsTyped
    <3>2. call'[r].at # "record"
      <4>1. To(r, "reload") \/ Ends(r, "failed")
        BY <2>1, <2>8
      <4>2. CASE To(r, "reload")
        BY <1>3, <4>2 DEF To, RunsTyped, ACall
      <4>3. CASE Ends(r, "failed")
        BY <1>6, <4>3 DEF Ends, RunsTyped
      <4> QED
        BY <4>1, <4>2, <4>3
    <3> QED
      BY <1>7, <3>1, <3>2
  <2> QED
    BY <2>7, <2>8
<1>9. CASE RecordAttempt(r)
  <2>1. PICK used \in BOOLEAN : accounts' = EndNonce(r, used)
    BY <1>9 DEF RecordAttempt
  <2>2. PICK b \in AnAccount : /\ accounts' = [accounts EXCEPT ![k] = b]
                              /\ b.address = accounts[k].address
                              /\ b.nonce = IF used THEN accounts[k].nonce + 1 ELSE accounts[k].nonce
    BY <1>3, <2>1, EndNonceIsTyped
  <2>3. call'[r].at # "record"
    <3>1. Ends(r, "watch") \/ Ends(r, "failed")
      BY <1>9 DEF RecordAttempt
    <3> QED
      BY <1>6, <3>1 DEF Ends, RunsTyped
  <2>4. connected /\ k \in ToSet(available) => Taken(accounts[k].address, accounts[k].nonce)
    <3>1. call[r].at = "record"
      BY <1>9 DEF RecordAttempt
    <3>2. txes[r].from = accounts[k].address /\ txes[r].nonce = accounts[k].nonce
      BY <3>1 DEF NonceIsHeld, Locking
    <3>3. connected /\ k \in ToSet(available) => Taken(txes[r].from, txes[r].nonce)
      BY <3>1 DEF NoneIsFree
    <3> QED
      BY <3>2, <3>3
  <2>5. ASSUME NEW n \in 0 .. b.nonce - 1, connected, k \in ToSet(available),
               \A m \in 0 .. accounts[k].nonce - 1 : Taken(accounts[k].address, m)
        PROVE  Taken(accounts[k].address, n)
    <3>1. n \in 0 .. accounts[k].nonce - 1 \/ n = accounts[k].nonce
      BY <1>4, <2>2
    <3> QED
      BY <2>4, <2>5, <3>1
  <2> QED
    BY <1>7, <2>2, <2>3, <2>5
<1>10. CASE ReloadNonce(r)
  <2>1. call'[r].at # "record"
    <3>1. CASE Ends(r, "failed")
      BY <1>6, <3>1 DEF Ends, RunsTyped
    <3>2. CASE call' = [call EXCEPT ![r] =
                 IF call[r].tries = retryLimit THEN Ended(r, "failed")
                 ELSE [call[r] EXCEPT !.at = "store", !.tries = @ + 1, !.head = 0]]
      BY <1>3, <1>6, <3>2 DEF RunsTyped, ACall
    <3> QED
      BY <1>10, <3>1, <3>2 DEF ReloadNonce
  <2>2. CASE UNCHANGED accounts
    <3>1. accounts' = [accounts EXCEPT ![k] = accounts[k]]
      BY <1>3, <1>4, <2>2 DEF ManagerTyped
    <3> QED
      BY <1>4, <1>7, <2>1, <3>1
  <2>3. CASE accounts' = [accounts EXCEPT ![k].nonce = PendingNonce(accounts[k].address)]
    <3> DEFINE n == PendingNonce(accounts[k].address)
               b == [accounts[k] EXCEPT !.nonce = n]
    <3>1. n \in Nat /\ \A m \in 0 .. n - 1 : Taken(accounts[k].address, m)
      BY <1>4, PendingNonceIsFree
    <3>2. accounts' = [accounts EXCEPT ![k] = b]
      BY <1>3, <1>4, <2>3
    <3> HIDE DEF n
    <3>3. b \in AnAccount /\ b.address = accounts[k].address /\ b.nonce = n
      BY <1>4, <3>1 DEF AnAccount
    <3> HIDE DEF b
    <3> QED
      BY <1>7, <2>1, <3>1, <3>2, <3>3
  <2> QED
    BY <1>10, <2>2, <2>3 DEF ReloadNonce
<1> QED
  BY <1>8, <1>9, <1>10

\* What all steps but Connect do: no account changes its address, and no failure is
\* forgotten.
LEMMA AddressesStay ==
    ASSUME NonceInv, [Next]_vars, ~Connect
    PROVE  /\ Len(accounts') = Len(accounts) /\ UNCHANGED available
           /\ \A k \in 1 .. Len(accounts) : accounts'[k].address = accounts[k].address
<1>1. UNCHANGED available
  <2>1. ASSUME NEW r \in Runs, CreateTx(r)
        PROVE  UNCHANGED available
    BY <2>1 DEF CreateTx, NextAccount, WithdrawLINK, CreateTxWithEth, StoreTx, SendInitialTx,
       RecordAttempt, ReloadNonce, Resume, manager
  <2>2. ASSUME NEW r \in Runs, BumpGasUntilSafe(r)
        PROVE  UNCHANGED available
    BY <2>2 DEF BumpGasUntilSafe, FindTx, ProcessAttempt, BumpGas, RecordBump, CheckAccount, manager
  <2>3. CASE Mine \/ LosePool \/ ReadUnconfirmed \/ ConnectReturns \/ Disconnect \/ OnNewHead
             \/ (\E x \in resend.todo : SendAgain(x)) \/ UNCHANGED vars
    BY <2>3 DEF Mine, LosePool, ReadUnconfirmed, ConnectReturns, Disconnect, OnNewHead, SendAgain,
       vars, manager
  <2> QED
    BY <2>1, <2>2, <2>3 DEF Next
<1>2. ASSUME NEW r \in Runs, CreateTx(r)
      PROVE  SameSafe
  BY <1>2, CreatingConfirmsNothing DEF ConfirmsNothing
<1>3. ASSUME NEW r \in Runs, BumpGasUntilSafe(r)
      PROVE  SameNonces
  BY <1>3, RunCountsNothing
<1>4. CASE UNCHANGED accounts
  BY <1>1, <1>4
<1>5. UNCHANGED accounts \/ \E r \in Runs : CreateTx(r) \/ BumpGasUntilSafe(r)
  BY DEF Next, Mine, LosePool, ReadUnconfirmed, ConnectReturns, Disconnect, OnNewHead, SendAgain, vars
<1> QED
  BY <1>1, <1>2, <1>3, <1>4, <1>5 DEF SameSafe, SameNonces

LEMMA FaultsStay ==
    ASSUME NonceInv, [Next]_vars, faults' = 0
    PROVE  faults = 0
<1>1. faults \in Nat /\ Len(Addresses) \in Nat
  BY AddressesAreAddress DEF NonceInv, Typed, NodeTyped
<1>2. CASE Connect
  <2>1. PICK n \in 0 .. Len(Addresses) : faults' = faults + Len(Addresses) - n
    BY <1>2 DEF Connect
  <2> QED
    BY <1>1, <2>1
<1>3. CASE UNCHANGED faults \/ faults' = faults + 1
  BY <1>1, <1>3
<1>4. ASSUME NEW r \in Runs, CreateTx(r) \/ BumpGasUntilSafe(r)
      PROVE  UNCHANGED faults \/ faults' = faults + 1
  BY <1>4 DEF CreateTx, NextAccount, WithdrawLINK, CreateTxWithEth, StoreTx, SendInitialTx, RecordAttempt,
         ReloadNonce, Resume, BumpGasUntilSafe, FindTx, ProcessAttempt, HandleSafe, BumpGas, RecordBump,
         CheckAccount, Fault, SendRawTx
<1>5. ASSUME NEW x \in resend.todo, SendAgain(x)
      PROVE  UNCHANGED faults \/ faults' = faults + 1
  BY <1>5 DEF SendAgain, SendRawTx
<1>6. CASE Mine \/ LosePool \/ ReadUnconfirmed \/ ConnectReturns \/ Disconnect \/ OnNewHead
           \/ UNCHANGED vars
  <2>1. UNCHANGED faults \/ faults' = faults + 1
    BY <1>6 DEF Mine, LosePool, ReadUnconfirmed, ConnectReturns, Disconnect, OnNewHead, Fault, vars
  <2> QED
    BY <1>3, <2>1
<1> QED
  BY <1>2, <1>3, <1>4, <1>5, <1>6 DEF Next

LEMMA NextKeepsNoneFree ==
    ASSUME ResendInv, [Next]_vars, NonceInv', ~Connect
    PROVE  NoneIsFree'
<1> USE DEF ResendInv
<1>1. CASE LosePool \/ Disconnect
  <2>1. ~connected'
    BY <1>1 DEF LosePool, Disconnect, manager
  <2> QED
    BY <2>1 DEF NoneIsFree
<1>2. ASSUME NEW r \in Runs, SendInitialTx(r) \/ RecordAttempt(r) \/ ReloadNonce(r)
      PROVE  NoneIsFree'
  BY <1>1, <1>2, CountingKeepsNoneFree
<1>3. ASSUME ~LosePool, SameNonces, connected' => connected,
             \A s \in Runs : call'[s].at = "record" => call'[s] = call[s] /\ txes'[s] = txes[s]
      PROVE  NoneIsFree'
  <2>1. UNCHANGED available
    BY AddressesStay
  <2>2. \A k \in 1 .. Len(accounts) :
           accounts'[k].address = accounts[k].address /\ accounts'[k].nonce = accounts[k].nonce
    BY <1>3 DEF SameNonces
  <2>3. \A b \in Address, n \in Nat : Taken(b, n) => Taken(b, n)'
    BY <1>3, TakenStays
  <2> QED
    BY <1>3, <2>1, <2>2, <2>3, NoneIsFreeMoves
<1>4. ASSUME NEW r \in Runs, ~LosePool,
             \/ \E transfer \in BOOLEAN : NextAccount(r, transfer)
             \/ CreateTxWithEth(r) \/ StoreTx(r) \/ Resume(r) \/ BumpGasUntilSafe(r)
      PROVE  NoneIsFree'
  <2>1. SameNonces /\ OthersStay(r) /\ call'[r].at # "record"
    BY <1>4, RunCountsNothing
  <2>2. UNCHANGED connected
    BY <1>4 DEF NextAccount, CreateTxWithEth, StoreTx, Resume, BumpGasUntilSafe, FindTx, ProcessAttempt,
       BumpGas, RecordBump, CheckAccount, manager
  <2> QED
    BY <1>3, <1>4, <2>1, <2>2 DEF OthersStay
<1>5. CASE Mine \/ ReadUnconfirmed \/ ConnectReturns \/ OnNewHead
           \/ (\E x \in resend.todo : SendAgain(x)) \/ UNCHANGED vars
  <2>1. UNCHANGED <<connected, accounts, txes, call>>
    BY <1>5 DEF Mine, ReadUnconfirmed, ConnectReturns, OnNewHead, SendAgain, vars, manager
  <2> QED
    BY <1>1, <1>3, <2>1 DEF SameNonces
<1> QED
  BY <1>1, <1>2, <1>4, <1>5 DEF Next, CreateTx, WithdrawLINK

LEMMA NextKeepsResendSound ==
    ASSUME ResendInv, [Next]_vars, ~Connect
    PROVE  ResendIsSound'
<1> USE DEF ResendInv
<1>1. resend'.at # "off" => connected'
  <2>1. CASE UNCHANGED resend /\ (UNCHANGED connected \/ resend = Resent)
    BY <2>1 DEF ResendIsSound, Resent
  <2>2. CASE UNCHANGED connected /\ resend.at # "off"
    BY <2>2 DEF ResendIsSound
  <2>3. ASSUME NEW r \in Runs, CreateTx(r) \/ BumpGasUntilSafe(r)
        PROVE  UNCHANGED <<resend, connected>>
    BY <2>3 DEF CreateTx, NextAccount, WithdrawLINK, CreateTxWithEth, StoreTx, SendInitialTx,
       RecordAttempt, ReloadNonce, Resume, BumpGasUntilSafe, FindTx, ProcessAttempt, BumpGas, RecordBump,
       CheckAccount, manager
  <2>4. CASE Mine \/ LosePool \/ Disconnect \/ OnNewHead \/ UNCHANGED vars
    BY <2>1, <2>4 DEF Mine, LosePool, Disconnect, OnNewHead, vars, manager
  <2>5. CASE ReadUnconfirmed \/ ConnectReturns \/ \E x \in resend.todo : SendAgain(x)
    BY <2>2, <2>5 DEF ReadUnconfirmed, ConnectReturns, SendAgain, manager
  <2> QED
    BY <2>1, <2>3, <2>4, <2>5 DEF Next
<1>2. (resend'.at # "send" => resend'.todo = {})
      /\ \A x \in resend'.todo : x.tx.from = x.from /\ x.tx.nonce = x.nonce
  <2>1. CASE UNCHANGED resend
    BY <2>1 DEF ResendIsSound
  <2>2. ASSUME NEW x \in resend.todo, SendAgain(x)
        PROVE  (resend'.at # "send" => resend'.todo = {})
               /\ \A y \in resend'.todo : y.tx.from = y.from /\ y.tx.nonce = y.nonce
    <3>1. resend' = [resend EXCEPT !.todo = @ \ {x}] /\ resend.at = "send" /\ resend \in AResend
      BY <2>2 DEF SendAgain, NonceInv, Typed, ManagerTyped
    <3>2. resend'.at = "send" /\ resend'.todo \subseteq resend.todo
      BY <3>1 DEF AResend
    <3> QED
      BY <3>2 DEF ResendIsSound
  <2>3. CASE ConnectReturns
    BY <2>3 DEF ConnectReturns, Resent
  <2>4. CASE ReadUnconfirmed
    <3>1. \A x \in resend'.todo : x.tx.from = x.from /\ x.tx.nonce = x.nonce
      BY <2>4, ResendIsTyped
    <3>2. resend'.at = "send" \/ resend' = Resent
      BY <2>4 DEF ReadUnconfirmed
    <3> QED
      BY <3>1, <3>2 DEF Resent
  <2>5. ASSUME NEW r \in Runs, CreateTx(r) \/ BumpGasUntilSafe(r)
        PROVE  UNCHANGED resend
    BY <2>5 DEF CreateTx, NextAccount, WithdrawLINK, CreateTxWithEth, StoreTx, SendInitialTx,
       RecordAttempt, ReloadNonce, Resume, BumpGasUntilSafe, FindTx, ProcessAttempt, BumpGas, RecordBump,
       CheckAccount
  <2>6. CASE Mine \/ LosePool \/ Disconnect \/ OnNewHead \/ UNCHANGED vars
    BY <2>1, <2>6 DEF Mine, LosePool, Disconnect, OnNewHead, vars
  <2> QED
    BY <2>1, <2>2, <2>3, <2>4, <2>5, <2>6 DEF Next
<1>3. ASSUME connected', faults' = 0, NEW a \in Address
      PROVE  AccountOf(a)' # {}
  <2>1. connected
    <3>1. ASSUME NEW r \in Runs, CreateTx(r) \/ BumpGasUntilSafe(r)
          PROVE  UNCHANGED connected
      BY <3>1 DEF CreateTx, NextAccount, WithdrawLINK, CreateTxWithEth, StoreTx, SendInitialTx,
         RecordAttempt, ReloadNonce, Resume, BumpGasUntilSafe, FindTx, ProcessAttempt, BumpGas, RecordBump,
         CheckAccount, manager
    <3> QED
      BY <1>3, <3>1 DEF Next, Mine, LosePool, ReadUnconfirmed, ConnectReturns, Disconnect, OnNewHead,
         SendAgain, vars, manager
  <2>2. faults = 0
    BY <1>3, FaultsStay
  <2>3. PICK k \in ToSet(available) : accounts[k].address = a
    BY <1>3, <2>1, <2>2 DEF ResendIsSound, AccountOf
  <2>4. k \in 1 .. Len(accounts)
    BY ElementOfSeq DEF NonceInv, Typed, ManagerTyped, ToSet
  <2> QED
    BY <2>3, <2>4, AddressesStay DEF AccountOf
<1> QED
  BY <1>1, <1>2, <1>3 DEF ResendIsSound

LEMMA NextKeepsResendInv == ResendInv /\ [Next]_vars => ResendInv'
<1> SUFFICES ASSUME ResendInv, [Next]_vars
             PROVE  ResendInv'
  OBVIOUS
<1>1. NonceInv'
  BY NextKeepsNonceInv DEF ResendInv
<1> QED
  BY <1>1, ConnectKeepsResendInv, NextKeepsNoneFree, NextKeepsResendSound DEF ResendInv

LEMMA InitResendInv == Init => ResendInv
BY InitNonceInv DEF Init, ResendInv, NoneIsFree, ResendIsSound, Resent

\* Connect has dealt with a transaction: its attempt was sent again, or was in the pool or
\* on the chain; or the account has gone past its nonce, behind which none is free.
LEMMA SendAgainLosesNone ==
    ASSUME ResendInv, NEW x \in resend.todo, SendAgain(x), faults' = 0
    PROVE  \/ x.nonce < Len(mined'[x.from])
           \/ \E a \in pool' : a.from = x.from /\ a.nonce = x.nonce
<1> USE DEF ResendInv, NonceInv, Typed
<1>1. resend \in AResend /\ resend.at = "send" /\ UNCHANGED <<mined, height, losses>>
  BY DEF SendAgain, ManagerTyped
<1>2. /\ x.tx \in AnAttempt /\ x.from \in Address /\ x.nonce \in Nat
      /\ x.tx.from = x.from /\ x.tx.nonce = x.nonce
  BY <1>1 DEF AResend, ResendIsSound
<1>3. ASSUME NEW reply \in Replies, SendRawTx(x.tx, reply)
      PROVE  \/ x.nonce < Len(mined'[x.from])
             \/ \E a \in pool' : a.from = x.from /\ a.nonce = x.nonce
  <2>1. reply = Verdict(x.tx)
    BY <1>1, <1>2, <1>3, SendingIsSound
  <2>2. CASE reply = "ok"
    <3>1. PICK a \in AnAttempt : a = x.tx
      BY <1>2
    <3>2. Taken(a.from, a.nonce)'
      BY <1>1, <1>3, <2>2, <3>1, SendingIsSound
    <3> QED
      BY <1>2, <3>1, <3>2 DEF Taken
  <2>3. CASE reply # "ok"
    <3>1. \/ x.tx.nonce < Len(mined[x.tx.from])
          \/ x.tx \in pool
          \/ \E b \in SameNonce(x.tx) : TRUE
      BY <2>1, <2>3 DEF Verdict
    <3>2. UNCHANGED pool
      <4>1. reply # "failed"
        BY <2>1 DEF Verdict
      <4> QED
        BY <1>3, <2>3, <4>1 DEF SendRawTx
    <3> QED
      BY <1>1, <1>2, <3>1, <3>2 DEF SameNonce
  <2> QED
    BY <2>2, <2>3
<1>4. CASE ~\E k \in AccountOf(x.from) : accounts[k].nonce <= x.nonce
  <2>1. UNCHANGED <<pool, faults>> /\ connected
    BY <1>1, <1>4 DEF SendAgain, ResendIsSound
  <2>2. PICK k \in AccountOf(x.from) : ~(accounts[k].nonce <= x.nonce)
    BY <1>2, <1>4, <2>1 DEF ResendIsSound
  <2>3. k \in ToSet(available) /\ k \in 1 .. Len(accounts) /\ accounts[k].address = x.from
    BY <2>2, ElementOfSeq DEF AccountOf, ManagerTyped, ToSet
  <2>4. accounts[k].nonce \in Nat
    BY <2>3, AccountsAreTyped
  <2>5. x.nonce \in 0 .. accounts[k].nonce - 1
    BY <1>2, <2>2, <2>4
  <2>6. Taken(x.from, x.nonce)
    BY <2>1, <2>3, <2>5 DEF NoneIsFree
  <2> QED
    BY <1>1, <2>1, <2>6 DEF Taken
<1> QED
  BY <1>3, <1>4 DEF SendAgain

LEMMA StepLosesNone ==
    ASSUME ResendInv, [Next]_vars
    PROVE  [\A x \in resend.todo \ resend'.todo : faults' = 0 =>
              \/ x.nonce < Len(mined'[x.from])
              \/ \E a \in pool' : a.from = x.from /\ a.nonce = x.nonce]_vars
<1> SUFFICES ASSUME NEW x \in resend.todo, x \notin resend'.todo, faults' = 0
             PROVE  \/ x.nonce < Len(mined'[x.from])
                    \/ \E a \in pool' : a.from = x.from /\ a.nonce = x.nonce
  OBVIOUS
<1>1. SendAgain(x)
  <2>1. resend.at = "send" /\ resend \in AResend
    BY DEF ResendInv, ResendIsSound, NonceInv, Typed, ManagerTyped
  <2>2. ASSUME NEW y \in resend.todo, SendAgain(y)
        PROVE  y = x
    <3>1. resend' = [resend EXCEPT !.todo = @ \ {y}]
      BY <2>2 DEF SendAgain
    <3>2. resend'.todo = resend.todo \ {y}
      BY <2>1, <3>1 DEF AResend
    <3> QED
      BY <3>2
  <2>3. connected
    BY <2>1 DEF ResendInv, ResendIsSound
  <2>4. ~UNCHANGED resend
    OBVIOUS
  <2>5. ASSUME NEW r \in Runs, CreateTx(r) \/ BumpGasUntilSafe(r)
        PROVE  UNCHANGED resend
    BY <2>5 DEF CreateTx, NextAccount, WithdrawLINK, CreateTxWithEth, StoreTx, SendInitialTx,
       RecordAttempt, ReloadNonce, Resume, BumpGasUntilSafe, FindTx, ProcessAttempt, BumpGas, RecordBump,
       CheckAccount
  <2>6. ~Connect /\ ~ReadUnconfirmed /\ ~ConnectReturns
    BY <2>1, <2>3 DEF Connect, ReadUnconfirmed, ConnectReturns
  <2>7. ~Mine /\ ~LosePool /\ ~Disconnect /\ ~OnNewHead /\ ~UNCHANGED vars
    BY <2>4 DEF Mine, LosePool, Disconnect, OnNewHead, vars
  <2>8. \E y \in resend.todo : SendAgain(y)
    BY <2>4, <2>5, <2>6, <2>7 DEF Next
  <2> QED
    BY <2>2, <2>8
<1> QED
  BY <1>1, SendAgainLosesNone

\* Connect passes over no transaction whose nonce is free, unless a call has failed.
THEOREM RebroadcastPassesOverNone == Spec => RebroadcastLosesNone
<1>1. Spec => []ResendInv
  BY InitResendInv, NextKeepsResendInv, PTL DEF Spec
<1> QED
  BY <1>1, StepLosesNone, PTL DEF Spec, RebroadcastLosesNone
=============================================================================
