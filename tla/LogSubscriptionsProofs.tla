------------------------ MODULE LogSubscriptionsProofs ------------------------
(****************************************************************************)
(* Proofs about LogSubscriptions, for any number of jobs, initiators,       *)
(* blocks and subscriptions, and any configuration.                         *)
(****************************************************************************)
EXTENDS LogSubscriptions, FiniteSetTheorems, SequenceTheorems, WellFoundedInduction, TLAPS

----------------------------------------------------------------------------
(* The inductive invariants.                                                *)

\* May a subscription run block b, made with the head and the configuration it was?
Ahead(x, b) == b > x.bn \/ (Replay > 0 /\ Replay <= b)

\* What a subscription is through with: it will not take block b again.
Over(x, b) == b \notin x.todo /\ (b \in x.pending => b \in x.seen)

\* A subscription x, the chain being at height h: a block in its hands is one that
\* it may run, and what it has run, or is about to run, it is through with.
Sound(x, h) ==
    /\ x.from = NextHead(x.bn)
    /\ x.bn <= h
    /\ x.live => ~x.closed
    /\ x.closed => x.pending = {}
    /\ x.todo \subseteq x.seen
    /\ \A b \in x.pending \cup x.seen : b <= h /\ Ahead(x, b)
    /\ x.at = "backfill" => x.seen = {} /\ \A b \in Blocks : x.runs[b] = 0
    /\ x.at = "create" => /\ x.log \in Blocks /\ x.log <= h /\ Ahead(x, x.log)
                          /\ Over(x, x.log) /\ x.runs[x.log] = 0
    /\ \A b \in Blocks : x.runs[b] # 0 =>
          x.runs[b] = 1 /\ b <= h /\ Ahead(x, b) /\ Over(x, b)

RunInv ==
    /\ TypeOK
    /\ conn.bn <= height
    /\ conn.ids \subseteq DOMAIN subs
    /\ \A s \in DOMAIN subs : Sound(subs[s], height)

\* What is in hand for a job is of the job, and the API has something in hand only
\* between its steps.
InHandIsOfJob ==
    /\ \A j \in Jobs : \A s \in InHand(j) : JobOf[subs[s].initr] = j
    /\ \A j \in Jobs : held[j] # {} => api[j] \in {"insert", "unsubscribe"}
    /\ \A s \in conn.ids : JobOf[subs[s].initr] \in conn.todo

\* What the API inserts it has made without a head; what the table holds with a head
\* is of the connection that there is, which is done with the job.
WhoMadeWhat ==
    /\ \A j \in Jobs : api[j] = "insert" =>
          held[j] # {} /\ \A s \in held[j] : subs[s].bn = 0
    /\ \A j \in Jobs : \A s \in table[j] : subs[s].bn # 0 => conn.at # "off" /\ j \notin conn.todo
    /\ conn.at = "off" => conn.todo = {}
    /\ conn.at = "on" => conn.todo = {}

LossInv == RunInv /\ InHandIsOfJob /\ WhoMadeWhat /\ NoneIsLost

----------------------------------------------------------------------------
(* Sets and sequences.                                                      *)

LEMMA MinIsInSet ==
    ASSUME NEW S \in SUBSET Nat, S # {}
    PROVE  Min(S) \in S
<1>1. PICK i \in S : \A j \in S : <<j, i>> \notin OpToRel(<, Nat)
  BY WFMin, NatLessThanWellFounded, Zenon
<1>2. \A j \in S : ~(j < i)
  BY <1>1, Zenon DEF OpToRel
<1>3. \A j \in S : i <= j
  BY <1>2
<1> QED
  BY <1>3 DEF Min

LEMMA FunctionIsSeq ==
    ASSUME NEW S, NEW n \in Nat, NEW f \in [1 .. n -> S]
    PROVE  f \in Seq(S) /\ Len(f) = n
<1>1. f \in Seq(S)
  OBVIOUS
<1>2. DOMAIN f = 1 .. n /\ DOMAIN f = 1 .. Len(f) /\ Len(f) \in Nat
  BY <1>1, LenProperties
<1> QED
  BY <1>1, <1>2

\* A set, put into a sequence.
LEMMA SetToSeqIsSeq ==
    ASSUME NEW S, IsFiniteSet(S)
    PROVE  /\ SetToSeq(S) \in Seq(S)
           /\ Len(SetToSeq(S)) = Cardinality(S)
           /\ Cardinality(S) \in Nat
<1>1. Cardinality(S) \in Nat /\ ExistsBijection(1 .. Cardinality(S), S)
  BY FS_CardinalityType
<1>2. PICK f \in [1 .. Cardinality(S) -> S] : IsInjective(f)
  BY <1>1 DEF ExistsBijection, Bijection, Injection
<1>3. SetToSeq(S) \in [1 .. Cardinality(S) -> S]
  BY <1>2 DEF SetToSeq
<1> QED
  BY <1>1, <1>3, FunctionIsSeq

----------------------------------------------------------------------------
(* Subscribing.                                                             *)

Heads == 0 .. MaxBlock

LEMMA NewSubscriptionIsSound ==
    ASSUME NEW i \in Initiators, NEW bn \in Heads, NEW h \in Nat, bn <= h
    PROVE  /\ NewSubscription(i, bn) \in Subscriptions
           /\ NewSubscription(i, bn).initr = i /\ NewSubscription(i, bn).bn = bn
           /\ ~NewSubscription(i, bn).closed
           /\ Sound(NewSubscription(i, bn), h)
<1>1. NextHead(bn) \in Nat /\ 0 \in 0 .. MaxBlock
  BY ConstantsAssumption DEF NextHead, Heads
<1>2. NewSubscription(i, bn) \in Subscriptions
  BY <1>1 DEF NewSubscription, Subscriptions, Heads
<1>3. Sound(NewSubscription(i, bn), h)
  BY DEF NewSubscription, Sound
<1> QED
  BY <1>2, <1>3 DEF NewSubscription

LEMMA OneForEach ==
    ASSUME NEW made \in SUBSET Initiators, NEW bn \in Heads
    PROVE  /\ IsFiniteSet({NewSubscription(i, bn) : i \in made})
           /\ Cardinality({NewSubscription(i, bn) : i \in made}) = Cardinality(made)
           /\ Cardinality(made) \in Nat
<1> DEFINE new == {NewSubscription(i, bn) : i \in made}
           f == [i \in made |-> NewSubscription(i, bn)]
<1>1. IsFiniteSet(made) /\ Cardinality(made) \in Nat
  BY ConstantsAssumption, FS_Subset, FS_CardinalityType
<1>2. f \in [made -> new] /\ \A n \in new : \E i \in made : f[i] = n
  OBVIOUS
<1>3. \A i, k \in made : f[i] = f[k] => i = k
  BY DEF NewSubscription
<1>4. DOMAIN f = made
  OBVIOUS
<1> HIDE DEF f, new
<1>5. IsInjective(f)
  BY <1>3, <1>4, Zenon DEF IsInjective
<1>6. f \in Bijection(made, new)
  BY <1>2, <1>5, Zenon DEF Bijection, Injection, Surjection
<1>7. IsFiniteSet(new) /\ Cardinality(new) = Cardinality(made)
  BY <1>1, <1>6, FS_Bijection DEF ExistsBijection
<1> QED
  BY <1>1, <1>7 DEF new

\* The subscriptions that Subscribe adds, for those that it had before.
LEMMA SubscribeAdds ==
    ASSUME subs \in Seq(Subscriptions), NEW made \in SUBSET Initiators, NEW bn \in Heads,
           Subscribe(made, bn)
    PROVE  /\ Cardinality(made) \in Nat /\ Len(subs) \in Nat
           /\ subs' \in Seq(Subscriptions)
           /\ Len(subs') = Len(subs) + Cardinality(made) /\ Len(subs') <= MaxSubs
           /\ DOMAIN subs = 1 .. Len(subs) /\ DOMAIN subs' = 1 .. Len(subs')
           /\ \A s \in 1 .. Len(subs) : subs'[s] = subs[s]
           /\ \A s \in Len(subs) + 1 .. Len(subs') : \E i \in made : subs'[s] = NewSubscription(i, bn)
<1> DEFINE new == {NewSubscription(i, bn) : i \in made}
           opened == SetToSeq(new)
<1>1. /\ opened \in Seq(new) /\ Len(opened) = Cardinality(made)
      /\ Cardinality(made) \in Nat
  BY OneForEach, SetToSeqIsSeq
<1>2. subs' = subs \o opened /\ Len(subs) + Len(opened) <= MaxSubs
  BY DEF Subscribe
<1>3. new \subseteq Subscriptions
  BY NewSubscriptionIsSound DEF Heads
<1>4. \A n \in new : \E i \in made : n = NewSubscription(i, bn)
  OBVIOUS
<1> HIDE DEF new, opened
<1>5. opened \in Seq(Subscriptions) /\ \A k \in 1 .. Len(opened) : opened[k] \in new
  BY <1>1, <1>3, SeqMonotonic, ElementOfSeq
<1>6. /\ subs' \in Seq(Subscriptions) /\ Len(subs') = Len(subs) + Len(opened)
      /\ \A s \in 1 .. Len(subs) + Len(opened) :
            subs'[s] = IF s <= Len(subs) THEN subs[s] ELSE opened[s - Len(subs)]
  BY <1>2, <1>5, ConcatProperties
<1>7. Len(subs) \in Nat /\ DOMAIN subs = 1 .. Len(subs) /\ DOMAIN subs' = 1 .. Len(subs')
  BY <1>6, LenProperties
<1>8. \A s \in 1 .. Len(subs) : subs'[s] = subs[s]
  BY <1>1, <1>6, <1>7
<1>9. ASSUME NEW s \in Len(subs) + 1 .. Len(subs')
      PROVE  \E i \in made : subs'[s] = NewSubscription(i, bn)
  <2>1. s - Len(subs) \in 1 .. Len(opened) /\ subs'[s] = opened[s - Len(subs)]
    BY <1>1, <1>6, <1>7
  <2> QED
    BY <1>4, <1>5, <2>1
<1> QED
  BY <1>1, <1>2, <1>6, <1>7, <1>8, <1>9

LEMMA KeptIsMade ==
    ASSUME NEW j \in Jobs, NEW made \in SUBSET InitiatorsFor(j), Len(subs) \in Nat,
           Cardinality(made) \in Nat
    PROVE  /\ made \in SUBSET Initiators
           /\ Kept(j, made) \subseteq Len(subs) + 1 .. Len(subs) + Cardinality(made)
BY DEF InitiatorsFor, Kept

----------------------------------------------------------------------------
(* What may happen to a subscription.                                       *)

\* It stays what it was, and is not opened again.
Same(x, y) == y.initr = x.initr /\ y.bn = x.bn /\ (x.closed => y.closed)

\* The steps of the goroutine of a subscription, and those of others on it.
Backfilled(x, known) == [x EXCEPT !.at = "listen", !.seen = known, !.todo = known]
Unfilled(x) == [x EXCEPT !.at = "listen"]
CreatedRun(x) == [x EXCEPT !.at = "listen", !.log = 0, !.runs[x.log] = @ + 1]
Ended(x) == [x EXCEPT !.at = "done", !.seen = {}]
Closed(x) == [x EXCEPT !.live = FALSE, !.closed = TRUE, !.pending = {}]
Sent(x, b) == [x EXCEPT !.pending = @ \cup {b}]
Broken(x) == [x EXCEPT !.live = FALSE]
Crashed(x) == [x EXCEPT !.live = FALSE, !.closed = TRUE, !.at = "done", !.log = 0,
                        !.pending = {}, !.seen = {}, !.todo = {}]

LEMMA SoundGrows ==
    ASSUME NEW x \in Subscriptions, NEW h \in Nat, NEW k \in Nat, h <= k, Sound(x, h)
    PROVE  Sound(x, k)
BY DEF Sound, Subscriptions, Blocks

LEMMA BackfillIsSound ==
    ASSUME NEW x \in Subscriptions, NEW h \in Heads, Sound(x, h), x.at = "backfill",
           NEW known, known = {b \in Blocks : x.from # 0 /\ x.from <= b /\ b <= h}
    PROVE  /\ Backfilled(x, known) \in Subscriptions /\ Same(x, Backfilled(x, known))
           /\ Sound(Backfilled(x, known), h)
<1> DEFINE y == Backfilled(x, known)
<1>1. /\ y \in Subscriptions /\ y.from = x.from /\ y.bn = x.bn /\ y.live = x.live
      /\ y.closed = x.closed /\ y.initr = x.initr /\ y.pending = x.pending /\ y.seen = known /\ y.todo = known
      /\ y.at = "listen" /\ y.runs = x.runs
  BY DEF Backfilled, Subscriptions
<1>2. \A b \in known : Ahead(x, b)
  BY ConstantsAssumption DEF Sound, Ahead, NextHead, Blocks, Subscriptions
<1> HIDE DEF y
<1>3. Sound(y, h)
  BY <1>1, <1>2 DEF Sound, Ahead
<1> QED
  BY <1>1, <1>3 DEF y, Same

LEMMA UnfilledIsSound ==
    ASSUME NEW x \in Subscriptions, NEW h \in Heads, Sound(x, h), x.at = "backfill"
    PROVE  Unfilled(x) \in Subscriptions /\ Same(x, Unfilled(x)) /\ Sound(Unfilled(x), h)
<1> DEFINE y == Unfilled(x)
<1>1. /\ y \in Subscriptions /\ y.from = x.from /\ y.bn = x.bn /\ y.live = x.live
      /\ y.closed = x.closed /\ y.initr = x.initr /\ y.pending = x.pending /\ y.seen = x.seen /\ y.todo = x.todo
      /\ y.at = "listen" /\ y.runs = x.runs
  BY DEF Unfilled, Subscriptions
<1> HIDE DEF y
<1>2. Sound(y, h)
  BY <1>1 DEF Sound, Ahead, Over
<1> QED
  BY <1>1, <1>2 DEF y, Same

\* A subscription that has taken block b out of its hands, and knows that it is
\* through with it, may run it.
LEMMA ToRunIsSound ==
    ASSUME NEW x \in Subscriptions, NEW h \in Heads, NEW b \in Blocks, Sound(x, h), x.at = "listen",
           b <= h, Ahead(x, b), Over(x, b), x.runs[b] = 0
    PROVE  ToRun(x, b) \in Subscriptions /\ Same(x, ToRun(x, b)) /\ Sound(ToRun(x, b), h)
<1> DEFINE y == [x EXCEPT !.at = "create", !.log = b]
<1>0. b \in 0 .. MaxBlock
  BY DEF Blocks
<1>1. /\ y \in Subscriptions /\ y.from = x.from /\ y.bn = x.bn /\ y.live = x.live
      /\ y.closed = x.closed /\ y.initr = x.initr /\ y.pending = x.pending /\ y.seen = x.seen /\ y.todo = x.todo
      /\ y.at = "create" /\ y.log = b /\ y.runs = x.runs
  BY <1>0 DEF Subscriptions
<1> HIDE DEF y
<1>2. Sound(y, h)
  BY <1>1 DEF Sound, Ahead, Over
<1>3. ToRun(x, b) = y \/ ToRun(x, b) = x
  BY DEF ToRun, y
<1> QED
  BY <1>1, <1>2, <1>3 DEF Same

LEMMA TakeBackfilledIsSound ==
    ASSUME NEW x \in Subscriptions, NEW h \in Heads, Sound(x, h), x.at = "listen", NEW b \in x.todo
    PROVE  LET y == ToRun([x EXCEPT !.todo = @ \ {b}], b)
           IN  y \in Subscriptions /\ Same(x, y) /\ Sound(y, h)
<1> DEFINE w == [x EXCEPT !.todo = @ \ {b}]
<1>1. /\ w \in Subscriptions /\ w.from = x.from /\ w.bn = x.bn /\ w.live = x.live
      /\ w.closed = x.closed /\ w.initr = x.initr /\ w.pending = x.pending /\ w.seen = x.seen
      /\ w.todo = x.todo \ {b} /\ w.at = "listen" /\ w.runs = x.runs
  BY DEF Subscriptions
<1>2. b \in Blocks /\ b \in x.seen /\ x.runs[b] = 0
  BY DEF Subscriptions, Sound, Over
<1> HIDE DEF w
<1>3. Sound(w, h) /\ b <= h /\ Ahead(w, b) /\ Over(w, b) /\ w.runs[b] = 0
  BY <1>1, <1>2 DEF Sound, Ahead, Over
<1>4. ToRun(w, b) \in Subscriptions /\ Same(w, ToRun(w, b)) /\ Sound(ToRun(w, b), h)
  BY <1>1, <1>2, <1>3, ToRunIsSound
<1> QED
  BY <1>1, <1>4 DEF w, Same

LEMMA TakeLogIsSound ==
    ASSUME NEW x \in Subscriptions, NEW h \in Heads, Sound(x, h), x.at = "listen", x.todo = {},
           NEW b \in x.pending
    PROVE  LET taken == [x EXCEPT !.pending = @ \ {b}]
               y == IF b \in taken.seen THEN taken ELSE ToRun(taken, b)
           IN  y \in Subscriptions /\ Same(x, y) /\ Sound(y, h)
<1> DEFINE w == [x EXCEPT !.pending = @ \ {b}]
<1>1. /\ w \in Subscriptions /\ w.from = x.from /\ w.bn = x.bn /\ w.live = x.live
      /\ w.closed = x.closed /\ w.initr = x.initr /\ w.pending = x.pending \ {b} /\ w.seen = x.seen
      /\ w.todo = {} /\ w.at = "listen" /\ w.runs = x.runs
  BY DEF Subscriptions
<1>2. b \in Blocks
  BY DEF Subscriptions
<1> HIDE DEF w
<1>3. Sound(w, h) /\ b <= h /\ Ahead(w, b) /\ Over(w, b)
  BY <1>1, <1>2 DEF Sound, Ahead, Over
<1>4. ASSUME b \notin x.seen
      PROVE  ToRun(w, b) \in Subscriptions /\ Same(w, ToRun(w, b)) /\ Sound(ToRun(w, b), h)
  <2>1. w.runs[b] = 0
    BY <1>1, <1>2, <1>4 DEF Sound, Over
  <2> QED
    BY <1>1, <1>2, <1>3, <2>1, ToRunIsSound
<1> QED
  BY <1>1, <1>3, <1>4 DEF w, Same

LEMMA CreateRunIsSound ==
    ASSUME NEW x \in Subscriptions, NEW h \in Heads, Sound(x, h), x.at = "create"
    PROVE  CreatedRun(x) \in Subscriptions /\ Same(x, CreatedRun(x)) /\ Sound(CreatedRun(x), h)
<1> DEFINE y == CreatedRun(x)
           runs == [x.runs EXCEPT ![x.log] = @ + 1]
<1>1. x.log \in Blocks /\ x.runs \in [Blocks -> Nat]
  BY DEF Subscriptions, Sound
<1>2. runs \in [Blocks -> Nat] /\ \A b \in Blocks : runs[b] = IF b = x.log THEN x.runs[b] + 1 ELSE x.runs[b]
  BY <1>1
<1>3. y = [x EXCEPT !.at = "listen", !.log = 0, !.runs = runs] /\ 0 \in 0 .. MaxBlock
  BY ConstantsAssumption DEF CreatedRun, Subscriptions
<1> HIDE DEF y, runs
<1>4. /\ y \in Subscriptions /\ y.from = x.from /\ y.bn = x.bn /\ y.live = x.live
      /\ y.closed = x.closed /\ y.initr = x.initr /\ y.pending = x.pending /\ y.seen = x.seen
      /\ y.todo = x.todo /\ y.at = "listen" /\ y.runs = runs
  BY <1>2, <1>3 DEF Subscriptions
<1>5. \A b \in Blocks : y.runs[b] # 0 => y.runs[b] = 1 /\ b <= h /\ Ahead(y, b) /\ Over(y, b)
  <2> SUFFICES ASSUME NEW b \in Blocks, y.runs[b] # 0
               PROVE  y.runs[b] = 1 /\ b <= h /\ Ahead(y, b) /\ Over(y, b)
    OBVIOUS
  <2>1. (Ahead(x, b) => Ahead(y, b)) /\ (Over(x, b) => Over(y, b))
    BY <1>4 DEF Ahead, Over
  <2>2. CASE b = x.log
    <3>1. x.runs[b] = 0 /\ b <= h /\ Ahead(x, b) /\ Over(x, b)
      BY <2>2 DEF Sound
    <3> QED
      BY <1>2, <1>4, <2>1, <2>2, <3>1
  <2>3. CASE b # x.log
    <3>1. y.runs[b] = x.runs[b]
      BY <1>2, <1>4, <2>3
    <3> QED
      BY <2>1, <3>1 DEF Sound
  <2> QED
    BY <2>2, <2>3
<1>6. \A b \in y.pending \cup y.seen : b <= h /\ Ahead(y, b)
  BY <1>4 DEF Sound, Ahead
<1>7. Sound(y, h)
  BY <1>4, <1>5, <1>6 DEF Sound
<1> QED
  BY <1>4, <1>7 DEF y, Same

LEMMA EndedIsSound ==
    ASSUME NEW x \in Subscriptions, NEW h \in Heads, Sound(x, h), x.at = "listen", x.todo = {}, x.closed
    PROVE  Ended(x) \in Subscriptions /\ Same(x, Ended(x)) /\ Sound(Ended(x), h)
<1> DEFINE y == Ended(x)
<1>1. /\ y \in Subscriptions /\ y.from = x.from /\ y.bn = x.bn /\ y.live = x.live
      /\ y.closed = x.closed /\ y.initr = x.initr /\ y.pending = x.pending /\ y.seen = {}
      /\ y.todo = {} /\ y.at = "done" /\ y.runs = x.runs
  BY DEF Ended, Subscriptions
<1> HIDE DEF y
<1>2. Sound(y, h)
  BY <1>1 DEF Sound, Ahead, Over
<1> QED
  BY <1>1, <1>2 DEF y, Same

LEMMA ClosedIsSound ==
    ASSUME NEW x \in Subscriptions, NEW h \in Heads, Sound(x, h)
    PROVE  /\ Closed(x) \in Subscriptions /\ Same(x, Closed(x)) /\ Sound(Closed(x), h)
           /\ Closed(x).closed
<1> DEFINE y == Closed(x)
<1>1. /\ y \in Subscriptions /\ y.from = x.from /\ y.bn = x.bn /\ ~y.live
      /\ y.closed /\ y.initr = x.initr /\ y.pending = {} /\ y.seen = x.seen
      /\ y.todo = x.todo /\ y.at = x.at /\ y.log = x.log /\ y.runs = x.runs
  BY DEF Closed, Subscriptions
<1> HIDE DEF y
<1>2. Sound(y, h)
  BY <1>1 DEF Sound, Ahead, Over
<1> QED
  BY <1>1, <1>2 DEF y, Same

\* A block that has just been mined is one that nobody has seen.
LEMMA SentIsSound ==
    ASSUME NEW x \in Subscriptions, NEW h \in Heads, h < MaxBlock, Sound(x, h), x.live
    PROVE  /\ Sent(x, h + 1) \in Subscriptions /\ Same(x, Sent(x, h + 1))
           /\ Sound(Sent(x, h + 1), h + 1)
<1> DEFINE y == Sent(x, h + 1)
<1>1. h + 1 \in Blocks /\ h \in Nat /\ x.bn \in Nat
  BY ConstantsAssumption DEF Blocks, Heads, Subscriptions
<1>2. /\ y \in Subscriptions /\ y.from = x.from /\ y.bn = x.bn /\ y.live /\ y.closed = x.closed
      /\ y.initr = x.initr /\ y.pending = x.pending \cup {h + 1} /\ y.seen = x.seen
      /\ y.todo = x.todo /\ y.at = x.at /\ y.log = x.log /\ y.runs = x.runs
  BY <1>1 DEF Sent, Subscriptions
<1> HIDE DEF y
<1>3. \A b \in Blocks : (Ahead(y, b) <=> Ahead(x, b)) /\ (b <= h => (Over(x, b) => Over(y, b)))
  BY <1>1, <1>2 DEF Ahead, Over, Blocks
<1>4. x.bn <= h /\ Ahead(y, h + 1)
  BY <1>1, <1>2 DEF Ahead, Sound
<1>5. x.pending \cup x.seen \subseteq Blocks /\ x.log \in Nat
  BY DEF Subscriptions, Heads
<1>6. \A b \in y.pending \cup y.seen : b <= h + 1 /\ Ahead(y, b)
  BY <1>1, <1>2, <1>3, <1>4, <1>5 DEF Sound, Blocks
<1>7. y.at = "create" => /\ y.log \in Blocks /\ y.log <= h + 1 /\ Ahead(y, y.log)
                         /\ Over(y, y.log) /\ y.runs[y.log] = 0
  BY <1>1, <1>2, <1>3, <1>5 DEF Sound
<1>8. \A b \in Blocks : y.runs[b] # 0 => y.runs[b] = 1 /\ b <= h + 1 /\ Ahead(y, b) /\ Over(y, b)
  BY <1>1, <1>2, <1>3 DEF Sound, Blocks
<1>9. Sound(y, h + 1)
  BY <1>1, <1>2, <1>4, <1>6, <1>7, <1>8 DEF Sound
<1> QED
  BY <1>2, <1>9 DEF y, Same

LEMMA BrokenIsSound ==
    ASSUME NEW x \in Subscriptions, NEW h \in Heads, Sound(x, h)
    PROVE  Broken(x) \in Subscriptions /\ Same(x, Broken(x)) /\ Sound(Broken(x), h)
<1> DEFINE y == Broken(x)
<1>1. /\ y \in Subscriptions /\ y.from = x.from /\ y.bn = x.bn /\ ~y.live
      /\ y.closed = x.closed /\ y.initr = x.initr /\ y.pending = x.pending /\ y.seen = x.seen
      /\ y.todo = x.todo /\ y.at = x.at /\ y.log = x.log /\ y.runs = x.runs
  BY DEF Broken, Subscriptions
<1> HIDE DEF y
<1>2. Sound(y, h)
  BY <1>1 DEF Sound, Ahead, Over
<1> QED
  BY <1>1, <1>2 DEF y, Same

LEMMA CrashedIsSound ==
    ASSUME NEW x \in Subscriptions, NEW h \in Heads, Sound(x, h)
    PROVE  /\ Crashed(x) \in Subscriptions /\ Same(x, Crashed(x)) /\ Sound(Crashed(x), h)
           /\ Crashed(x).closed
<1> DEFINE y == Crashed(x)
<1>0. 0 \in 0 .. MaxBlock /\ {} \in SUBSET Blocks
  BY ConstantsAssumption
<1>1. /\ y \in Subscriptions /\ y.from = x.from /\ y.bn = x.bn /\ ~y.live
      /\ y.closed /\ y.initr = x.initr /\ y.pending = {} /\ y.seen = {}
      /\ y.todo = {} /\ y.at = "done" /\ y.runs = x.runs
  BY <1>0 DEF Crashed, Subscriptions
<1> HIDE DEF y
<1>2. Sound(y, h)
  BY <1>1 DEF Sound, Ahead, Over
<1> QED
  BY <1>1, <1>2 DEF y, Same

----------------------------------------------------------------------------
(* What a step does to the subscriptions.                                   *)

\* None is added, and each stays sound and what it was.
Evolve ==
    /\ subs' \in Seq(Subscriptions)
    /\ Len(subs') = Len(subs)
    /\ \A s \in DOMAIN subs : Same(subs[s], subs'[s]) /\ Sound(subs'[s], height')

LEMMA Domains ==
    ASSUME RunInv
    PROVE  /\ Len(subs) \in Nat /\ DOMAIN subs = 1 .. Len(subs)
           /\ height \in Heads /\ height \in Nat
           /\ \A s \in DOMAIN subs : subs[s] \in Subscriptions /\ Sound(subs[s], height)
<1>1. subs \in Seq(Subscriptions) /\ height \in Heads
  BY DEF RunInv, TypeOK, Heads
<1>2. \A s \in 1 .. Len(subs) : subs[s] \in Subscriptions
  BY <1>1, ElementOfSeq
<1> QED
  BY <1>1, <1>2, LenProperties, ConstantsAssumption DEF RunInv, Heads

\* One of them is replaced.
LEMMA OneEvolves ==
    ASSUME RunInv, height' = height, NEW s \in DOMAIN subs, NEW y \in Subscriptions,
           Same(subs[s], y), Sound(y, height), subs' = [subs EXCEPT ![s] = y]
    PROVE  Evolve
<1>1. subs \in Seq(Subscriptions) /\ s \in 1 .. Len(subs)
  BY Domains DEF RunInv, TypeOK
<1>2. subs' \in Seq(Subscriptions) /\ Len(subs') = Len(subs)
      /\ \A r \in 1 .. Len(subs) : subs'[r] = IF r = s THEN y ELSE subs[r]
  BY <1>1, ExceptSeq
<1>3. \A r \in DOMAIN subs : Same(subs[r], subs[r]) /\ Sound(subs[r], height)
  BY Domains DEF Same
<1> QED
  BY <1>2, <1>3, Domains DEF Evolve

\* Each of them is.
LEMMA AllEvolve ==
    ASSUME RunInv, NEW f \in [DOMAIN subs -> Subscriptions], subs' = f,
           \A s \in DOMAIN subs : Same(subs[s], f[s]) /\ Sound(f[s], height')
    PROVE  Evolve
<1>1. f \in [1 .. Len(subs) -> Subscriptions] /\ Len(subs) \in Nat
  BY Domains
<1>2. f \in Seq(Subscriptions) /\ Len(f) = Len(subs)
  BY <1>1, FunctionIsSeq
<1> QED
  BY <1>2 DEF Evolve

LEMMA SameIsSame == ASSUME NEW x PROVE Same(x, x)
BY DEF Same

\* The goroutine of subscription s takes a step.
LEMMA ListeningEvolves ==
    ASSUME RunInv, NEW s \in DOMAIN subs, Listening(s)
    PROVE  Evolve /\ UNCHANGED <<height, head, reachable, tracking, conn, table, api, held>>
<1>1. /\ subs[s] \in Subscriptions /\ height \in Heads /\ Sound(subs[s], height)
  BY Domains
<1>2. CASE Backfill(s)
  <2>1. subs[s].at = "backfill" /\ height' = height
    BY <1>2 DEF Backfill
  <2>2. subs' = [subs EXCEPT ![s] = Backfilled(subs[s], Known(s))]
    BY <1>2 DEF Backfill, Backfilled
  <2>3. Known(s) = {b \in Blocks : subs[s].from # 0 /\ subs[s].from <= b /\ b <= height}
    BY DEF Known
  <2>4. /\ Backfilled(subs[s], Known(s)) \in Subscriptions
        /\ Same(subs[s], Backfilled(subs[s], Known(s)))
        /\ Sound(Backfilled(subs[s], Known(s)), height)
    BY <1>1, <2>1, <2>3, BackfillIsSound
  <2> QED
    BY <1>2, <2>1, <2>2, <2>4, OneEvolves DEF Backfill
<1>3. CASE BackfillFails(s)
  <2>1. subs[s].at = "backfill" /\ height' = height
    BY <1>3 DEF BackfillFails
  <2>2. subs' = [subs EXCEPT ![s] = Unfilled(subs[s])]
    BY <1>3 DEF BackfillFails, Unfilled
  <2>3. /\ Unfilled(subs[s]) \in Subscriptions /\ Same(subs[s], Unfilled(subs[s]))
        /\ Sound(Unfilled(subs[s]), height)
    BY <1>1, <2>1, UnfilledIsSound
  <2> QED
    BY <1>3, <2>1, <2>2, <2>3, OneEvolves DEF BackfillFails
<1>4. CASE TakeBackfilled(s)
  <2> DEFINE b == Min(subs[s].todo)
             y == ToRun([subs[s] EXCEPT !.todo = @ \ {b}], b)
  <2>1. subs[s].at = "listen" /\ height' = height /\ subs[s].todo # {}
    BY <1>4 DEF TakeBackfilled
  <2>2. subs' = [subs EXCEPT ![s] = y]
    BY <1>4 DEF TakeBackfilled
  <2>3. subs[s].todo \in SUBSET Nat
    BY <1>1 DEF Subscriptions, Blocks
  <2>4. b \in subs[s].todo
    BY <2>1, <2>3, MinIsInSet
  <2> HIDE DEF b
  <2>5. y \in Subscriptions /\ Same(subs[s], y) /\ Sound(y, height)
    BY <1>1, <2>1, <2>4, TakeBackfilledIsSound
  <2> QED
    BY <1>4, <2>1, <2>2, <2>5, OneEvolves DEF TakeBackfilled
<1>5. CASE TakeLog(s)
  <2> DEFINE b == Min(subs[s].pending)
             taken == [subs[s] EXCEPT !.pending = @ \ {b}]
             y == IF b \in taken.seen THEN taken ELSE ToRun(taken, b)
  <2>1. subs[s].at = "listen" /\ height' = height /\ subs[s].todo = {} /\ subs[s].pending # {}
    BY <1>5 DEF TakeLog
  <2>2. subs' = [subs EXCEPT ![s] = y]
    BY <1>5 DEF TakeLog
  <2>3. subs[s].pending \in SUBSET Nat
    BY <1>1 DEF Subscriptions, Blocks
  <2>4. b \in subs[s].pending
    BY <2>1, <2>3, MinIsInSet
  <2> HIDE DEF b
  <2>5. y \in Subscriptions /\ Same(subs[s], y) /\ Sound(y, height)
    BY <1>1, <2>1, <2>4, TakeLogIsSound
  <2> QED
    BY <1>5, <2>1, <2>2, <2>5, OneEvolves DEF TakeLog
<1>6. CASE CreateRun(s)
  <2>1. subs[s].at = "create" /\ height' = height
    BY <1>6 DEF CreateRun
  <2>2. subs' = [subs EXCEPT ![s] = CreatedRun(subs[s])]
    BY <1>6 DEF CreateRun, CreatedRun
  <2>3. /\ CreatedRun(subs[s]) \in Subscriptions /\ Same(subs[s], CreatedRun(subs[s]))
        /\ Sound(CreatedRun(subs[s]), height)
    BY <1>1, <2>1, CreateRunIsSound
  <2> QED
    BY <1>6, <2>1, <2>2, <2>3, OneEvolves DEF CreateRun
<1>7. CASE EndListening(s)
  <2>1. subs[s].at = "listen" /\ subs[s].todo = {} /\ subs[s].closed /\ height' = height
    BY <1>7 DEF EndListening
  <2>2. subs' = [subs EXCEPT ![s] = Ended(subs[s])]
    BY <1>7 DEF EndListening, Ended
  <2>3. /\ Ended(subs[s]) \in Subscriptions /\ Same(subs[s], Ended(subs[s]))
        /\ Sound(Ended(subs[s]), height)
    BY <1>1, <2>1, EndedIsSound
  <2> QED
    BY <1>7, <2>1, <2>2, <2>3, OneEvolves DEF EndListening
<1> QED
  BY <1>2, <1>3, <1>4, <1>5, <1>6, <1>7 DEF Listening

\* Unsubscribe on each of ids.
LEMMA UnsubscribedEvolve ==
    ASSUME RunInv, height' = height, NEW ids, subs' = Unsubscribed(ids)
    PROVE  Evolve /\ \A s \in DOMAIN subs : s \in ids => subs'[s].closed
<1> DEFINE f == [s \in DOMAIN subs |-> IF s \in ids THEN Closed(subs[s]) ELSE subs[s]]
<1>1. subs' = f
  BY Zenon DEF Unsubscribed, Closed
<1>2. ASSUME NEW s \in DOMAIN subs
      PROVE  /\ f[s] \in Subscriptions /\ Same(subs[s], f[s]) /\ Sound(f[s], height)
             /\ s \in ids => f[s].closed
  BY Domains, ClosedIsSound, SameIsSame
<1> HIDE DEF f
<1>3. f \in [DOMAIN subs -> Subscriptions]
  BY <1>2 DEF f
<1> QED
  BY <1>1, <1>2, <1>3, AllEvolve

LEMMA MineEvolves ==
    ASSUME RunInv, Mine
    PROVE  Evolve /\ height' \in Heads /\ height <= height'
<1> DEFINE f == [s \in DOMAIN subs |-> IF subs[s].live THEN Sent(subs[s], height + 1) ELSE subs[s]]
<1>1. subs' = f
  BY Zenon DEF Mine, Sent
<1>2. height < MaxBlock /\ height' = height + 1 /\ height \in Heads /\ height' \in Heads /\ height' \in Nat
  BY Domains, ConstantsAssumption DEF Mine, Heads
<1>3. ASSUME NEW s \in DOMAIN subs
      PROVE  f[s] \in Subscriptions /\ Same(subs[s], f[s]) /\ Sound(f[s], height')
  <2>1. CASE subs[s].live
    BY <1>2, <2>1, Domains, SentIsSound
  <2>2. CASE ~subs[s].live
    BY <1>2, <2>2, Domains, SoundGrows, SameIsSame DEF Heads
  <2> QED
    BY <2>1, <2>2
<1> HIDE DEF f
<1>4. f \in [DOMAIN subs -> Subscriptions]
  BY <1>3 DEF f
<1> QED
  BY <1>1, <1>2, <1>3, <1>4, AllEvolve DEF Heads

LEMMA LoseConnectionEvolves ==
    ASSUME RunInv, LoseConnection
    PROVE  Evolve
<1> DEFINE f == [s \in DOMAIN subs |-> Broken(subs[s])]
<1>1. subs' = f /\ height' = height
  BY Zenon DEF LoseConnection, Broken
<1>2. \A s \in DOMAIN subs : f[s] \in Subscriptions /\ Same(subs[s], f[s]) /\ Sound(f[s], height)
  BY Domains, BrokenIsSound
<1> HIDE DEF f
<1>3. f \in [DOMAIN subs -> Subscriptions]
  BY <1>2 DEF f
<1> QED
  BY <1>1, <1>2, <1>3, AllEvolve

LEMMA CrashEvolves ==
    ASSUME RunInv, Crash
    PROVE  Evolve /\ \A s \in DOMAIN subs : subs'[s].closed
<1> DEFINE f == [s \in DOMAIN subs |-> Crashed(subs[s])]
<1>1. subs' = f /\ height' = height
  BY Zenon DEF Crash, Crashed
<1>2. \A s \in DOMAIN subs :
          f[s] \in Subscriptions /\ Same(subs[s], f[s]) /\ Sound(f[s], height) /\ f[s].closed
  BY Domains, CrashedIsSound
<1> HIDE DEF f
<1>3. f \in [DOMAIN subs -> Subscriptions]
  BY <1>2 DEF f
<1> QED
  BY <1>1, <1>2, <1>3, AllEvolve

\* Nothing is done to them.
LEMMA QuietEvolves ==
    ASSUME RunInv, subs' = subs, height' = height
    PROVE  Evolve
BY Domains, SameIsSame DEF Evolve, RunInv, TypeOK

----------------------------------------------------------------------------
(* The first invariant, step by step.                                       *)

\* The listener of the head tracker, with n subscriptions made, at height h.
ConnOK(c, n, h) ==
    /\ c \in Connections
    /\ c.at = "insert" <=> c.ids # {}
    /\ c.bn <= h
    /\ c.ids \subseteq 1 .. n

TableOK(t, n) == t \in [Jobs -> SUBSET (1 .. n)]

LEMMA Parts ==
    ASSUME RunInv
    PROVE  /\ height \in Heads /\ head \in 0 .. height /\ head \in Heads
           /\ reachable \in BOOLEAN /\ tracking \in BOOLEAN
           /\ ConnOK(conn, Len(subs), height)
           /\ TableOK(table, Len(subs)) /\ TableOK(held, Len(subs)) /\ api \in [Jobs -> ApiSteps]
<1>1. head \in Heads
  BY ConstantsAssumption DEF RunInv, TypeOK, Heads
<1> QED
  BY <1>1, Domains DEF RunInv, TypeOK, ConnOK, TableOK, Heads

LEMMA RunInvAfter ==
    ASSUME subs' \in Seq(Subscriptions), height' \in Heads, head' \in 0 .. height',
           \A s \in DOMAIN subs' : Sound(subs'[s], height'),
           reachable' \in BOOLEAN, tracking' \in BOOLEAN, ConnOK(conn', Len(subs'), height'),
           TableOK(table', Len(subs')), TableOK(held', Len(subs')), api' \in [Jobs -> ApiSteps]
    PROVE  RunInv'
<1>1. DOMAIN subs' = 1 .. Len(subs')
  BY LenProperties
<1> QED
  BY <1>1 DEF RunInv, TypeOK, ConnOK, TableOK, Heads

LEMMA EvolveKeeps ==
    ASSUME RunInv, Evolve, height' \in Heads, head' \in 0 .. height',
           reachable' \in BOOLEAN, tracking' \in BOOLEAN, ConnOK(conn', Len(subs), height'),
           TableOK(table', Len(subs)), TableOK(held', Len(subs)), api' \in [Jobs -> ApiSteps]
    PROVE  RunInv'
<1>1. Len(subs') = Len(subs) /\ subs' \in Seq(Subscriptions)
  BY DEF Evolve
<1>2. DOMAIN subs' = DOMAIN subs
  BY <1>1, Domains, LenProperties
<1>3. \A s \in DOMAIN subs' : Sound(subs'[s], height')
  BY <1>2 DEF Evolve
<1> QED
  BY <1>1, <1>3, RunInvAfter

LEMMA OffIsOK ==
    ASSUME NEW n \in Nat, NEW h \in Heads
    PROVE  ConnOK(Off, n, h)
<1>1. 0 \in 0 .. MaxBlock
  BY ConstantsAssumption
<1>2. Off \in Connections
  BY <1>1 DEF Off, Connections
<1> QED
  BY <1>2 DEF Off, ConnOK, Heads

LEMMA NoneIsOK ==
    ASSUME NEW n \in Nat
    PROVE  TableOK([j \in Jobs |-> {}], n)
BY DEF TableOK

LEMMA UpdateIsOK ==
    ASSUME NEW n \in Nat, NEW t, TableOK(t, n), NEW j \in Jobs, NEW ids \in SUBSET (1 .. n)
    PROVE  TableOK([t EXCEPT ![j] = ids], n)
BY DEF TableOK

\* Subscriptions have been added.
LEMMA GrowthKeeps ==
    ASSUME RunInv, NEW made \in SUBSET Initiators, NEW bn \in Heads, bn <= height,
           Subscribe(made, bn), UNCHANGED <<height, head, reachable, tracking, table>>,
           ConnOK(conn', Len(subs'), height), TableOK(held', Len(subs')), api' \in [Jobs -> ApiSteps]
    PROVE  RunInv'
<1>1. /\ Len(subs) \in Nat /\ DOMAIN subs = 1 .. Len(subs) /\ height \in Nat
      /\ \A s \in DOMAIN subs : subs[s] \in Subscriptions /\ Sound(subs[s], height)
      /\ subs \in Seq(Subscriptions)
  BY Domains DEF RunInv, TypeOK
<1>2. /\ subs' \in Seq(Subscriptions) /\ Cardinality(made) \in Nat
      /\ Len(subs') = Len(subs) + Cardinality(made)
      /\ DOMAIN subs' = 1 .. Len(subs')
      /\ \A s \in 1 .. Len(subs) : subs'[s] = subs[s]
      /\ \A s \in Len(subs) + 1 .. Len(subs') : \E i \in made : subs'[s] = NewSubscription(i, bn)
  BY <1>1, SubscribeAdds
<1>3. ASSUME NEW s \in DOMAIN subs'
      PROVE  Sound(subs'[s], height)
  <2>1. CASE s \in 1 .. Len(subs)
    BY <1>1, <1>2, <2>1
  <2>2. CASE s \notin 1 .. Len(subs)
    <3>1. s \in Len(subs) + 1 .. Len(subs')
      BY <1>1, <1>2, <2>2
    <3>2. PICK i \in made : subs'[s] = NewSubscription(i, bn)
      BY <1>2, <3>1
    <3> QED
      BY <1>1, <3>2, NewSubscriptionIsSound
  <2> QED
    BY <2>1, <2>2
<1>4. 1 .. Len(subs) \subseteq 1 .. Len(subs')
  BY <1>1, <1>2
<1>5. TableOK(table', Len(subs'))
  BY <1>4, Parts DEF TableOK
<1> QED
  BY <1>2, <1>3, <1>5, Parts, RunInvAfter

LEMMA RunStep ==
    ASSUME RunInv, [Next]_vars
    PROVE  RunInv'
<1> USE Domains, Parts
<1>1. CASE Connect
  <2>1. ConnOK(conn', Len(subs), height)
    <3> DEFINE c == [at |-> "walk", bn |-> head, todo |-> {j \in Jobs : InDb(j)}, ids |-> {}]
    <3>1. c \in Connections /\ c.bn = head /\ c.at = "walk" /\ c.ids = {}
      BY DEF Connections, Heads
    <3> HIDE DEF c
    <3>2. ConnOK(c, Len(subs), height)
      BY <3>1 DEF ConnOK
    <3> QED
      BY <1>1, <3>2 DEF Connect, c
  <2> QED
    BY <1>1, <2>1, QuietEvolves, EvolveKeeps DEF Connect
<1>2. ASSUME NEW j \in Jobs, ConnectSubscribes(j)
      PROVE  RunInv'
  <2>1. PICK made \in SUBSET InitiatorsFor(j) :
            /\ Subscribe(made, conn.bn)
            /\ conn' = IF Kept(j, made) = {}
                       THEN [conn EXCEPT !.todo = @ \ {j}]
                       ELSE [conn EXCEPT !.at = "insert", !.ids = Kept(j, made)]
    BY <1>2 DEF ConnectSubscribes
  <2>2. conn.bn \in Heads /\ conn.bn <= height /\ conn \in Connections /\ conn.at = "walk" /\ conn.ids = {}
        /\ conn.bn \in 0 .. MaxBlock
    BY <1>2 DEF ConnOK, Connections, Heads, ConnectSubscribes
  <2>3. made \in SUBSET Initiators
    BY DEF InitiatorsFor
  <2>4. /\ Cardinality(made) \in Nat /\ Len(subs') = Len(subs) + Cardinality(made) /\ Len(subs') <= MaxSubs
    BY <2>1, <2>2, <2>3, SubscribeAdds DEF RunInv, TypeOK
  <2>5. Kept(j, made) \subseteq 1 .. Len(subs')
    BY <2>4, KeptIsMade
  <2>6. 1 .. Len(subs') \subseteq Ids
    BY <2>4, ConstantsAssumption DEF Ids
  <2>7. ConnOK(conn', Len(subs'), height)
    <3>1. CASE Kept(j, made) = {}
      <4>1. conn' = [conn EXCEPT !.todo = @ \ {j}]
        BY <2>1, <3>1
      <4>2. conn' \in Connections /\ conn'.at = "walk" /\ conn'.ids = {} /\ conn'.bn = conn.bn
        BY <2>2, <4>1 DEF Connections
      <4> QED
        BY <2>2, <4>2 DEF ConnOK
    <3>2. CASE Kept(j, made) # {}
      <4>1. conn' = [conn EXCEPT !.at = "insert", !.ids = Kept(j, made)] /\ Kept(j, made) \subseteq Ids
        BY <2>1, <2>5, <2>6, <3>2
      <4>2. conn' \in Connections /\ conn'.at = "insert" /\ conn'.ids = Kept(j, made) /\ conn'.bn = conn.bn
        BY <2>2, <4>1 DEF Connections
      <4> QED
        BY <2>2, <2>5, <3>2, <4>2 DEF ConnOK
    <3> QED
      BY <3>1, <3>2
  <2>8. TableOK(held', Len(subs')) /\ api' = api
    BY <1>2, <2>4 DEF TableOK, ConnectSubscribes
  <2> QED
    BY <1>2, <2>1, <2>2, <2>3, <2>7, <2>8, GrowthKeeps DEF ConnectSubscribes
<1>3. ASSUME NEW j \in Jobs, ConnectInserts(j)
      PROVE  RunInv'
  <2>1. ConnOK(conn', Len(subs), height) /\ conn.ids \subseteq 1 .. Len(subs)
    <3>1. conn \in Connections /\ conn' = [conn EXCEPT !.at = "walk", !.todo = @ \ {j}, !.ids = {}]
      BY <1>3 DEF ConnOK, ConnectInserts
    <3>2. conn' \in Connections /\ conn'.at = "walk" /\ conn'.ids = {} /\ conn'.bn = conn.bn
      BY <3>1 DEF Connections
    <3> QED
      BY <3>2 DEF ConnOK
  <2>2. TableOK(table', Len(subs))
    BY <1>3, <2>1, UpdateIsOK DEF ConnectInserts
  <2> QED
    BY <1>3, <2>1, <2>2, QuietEvolves, EvolveKeeps DEF ConnectInserts
<1>4. CASE ConnectReturns
  <2>1. ConnOK(conn', Len(subs), height)
    <3>1. conn \in Connections /\ conn' = [conn EXCEPT !.at = "on"] /\ conn.at = "walk"
      BY <1>4 DEF ConnOK, ConnectReturns
    <3>2. conn' \in Connections /\ conn'.at = "on" /\ conn'.ids = conn.ids /\ conn'.bn = conn.bn
      BY <3>1 DEF Connections
    <3> QED
      BY <3>1, <3>2 DEF ConnOK
  <2> QED
    BY <1>4, <2>1, QuietEvolves, EvolveKeeps DEF ConnectReturns
<1>5. CASE Disconnect
  <2>1. Evolve
    BY <1>5, UnsubscribedEvolve DEF Disconnect
  <2> QED
    BY <1>5, <2>1, OffIsOK, NoneIsOK, EvolveKeeps DEF Disconnect
<1>6. ASSUME NEW n \in Blocks, HeadArrives(n)
      PROVE  RunInv'
  <2>1. head' \in 0 .. height
    BY <1>6 DEF HeadArrives, Heads
  <2> QED
    BY <1>6, <2>1, QuietEvolves, EvolveKeeps DEF HeadArrives
<1>7. ASSUME NEW j \in Jobs, Api(j)
      PROVE  RunInv'
  <2>1. CASE CreateJob(j)
    <3>1. api' \in [Jobs -> ApiSteps]
      BY <2>1 DEF CreateJob, ApiSteps
    <3> QED
      BY <2>1, <3>1, QuietEvolves, EvolveKeeps DEF CreateJob
  <2>2. CASE ApiSubscribes(j)
    <3>1. PICK made \in SUBSET InitiatorsFor(j) :
              /\ Subscribe(made, 0)
              /\ held' = [held EXCEPT ![j] = Kept(j, made)]
              /\ api' = [api EXCEPT ![j] = IF Kept(j, made) = {} THEN "ready" ELSE "insert"]
      BY <2>2 DEF ApiSubscribes
    <3>2. 0 \in Heads /\ 0 <= height /\ made \in SUBSET Initiators
      BY ConstantsAssumption DEF InitiatorsFor, Heads
    <3>3. Cardinality(made) \in Nat /\ Len(subs') = Len(subs) + Cardinality(made)
      BY <3>1, <3>2, SubscribeAdds DEF RunInv, TypeOK
    <3>4. Kept(j, made) \subseteq 1 .. Len(subs') /\ Len(subs') \in Nat /\ 1 .. Len(subs) \subseteq 1 .. Len(subs')
      BY <3>3, KeptIsMade
    <3>5. TableOK(held, Len(subs')) /\ ConnOK(conn, Len(subs'), height)
      BY <3>4 DEF TableOK, ConnOK
    <3>6. TableOK(held', Len(subs'))
      BY <3>1, <3>4, <3>5, UpdateIsOK
    <3>7. api' \in [Jobs -> ApiSteps]
      BY <3>1 DEF ApiSteps
    <3> QED
      BY <2>2, <3>1, <3>2, <3>5, <3>6, <3>7, GrowthKeeps DEF ApiSubscribes
  <2>3. CASE ApiInserts(j)
    <3>1. api' \in [Jobs -> ApiSteps]
      BY <2>3 DEF ApiInserts, ApiSteps
    <3>2. held[j] \in SUBSET (1 .. Len(subs))
      BY DEF TableOK
    <3>3. TableOK(table', Len(subs)) /\ TableOK(held', Len(subs))
      BY <2>3, <3>2, UpdateIsOK DEF ApiInserts
    <3> QED
      BY <2>3, <3>1, <3>3, QuietEvolves, EvolveKeeps DEF ApiInserts
  <2>4. CASE RemoveJob(j)
    <3>1. api' \in [Jobs -> ApiSteps]
      BY <2>4 DEF RemoveJob, ApiSteps
    <3>2. table[j] \in SUBSET (1 .. Len(subs))
      BY DEF TableOK
    <3>3. TableOK(table', Len(subs)) /\ TableOK(held', Len(subs))
      BY <2>4, <3>2, UpdateIsOK DEF RemoveJob
    <3> QED
      BY <2>4, <3>1, <3>3, QuietEvolves, EvolveKeeps DEF RemoveJob
  <2>5. CASE UnsubscribeRemoved(j)
    <3>1. api' \in [Jobs -> ApiSteps]
      BY <2>5 DEF UnsubscribeRemoved, ApiSteps
    <3>2. TableOK(held', Len(subs))
      BY <2>5, UpdateIsOK DEF UnsubscribeRemoved
    <3>3. Evolve
      BY <2>5, UnsubscribedEvolve DEF UnsubscribeRemoved
    <3> QED
      BY <2>5, <3>1, <3>2, <3>3, EvolveKeeps DEF UnsubscribeRemoved
  <2>6. CASE ArchiveJob(j)
    <3>1. api' \in [Jobs -> ApiSteps]
      BY <2>6 DEF ArchiveJob, ApiSteps
    <3> QED
      BY <2>6, <3>1, QuietEvolves, EvolveKeeps DEF ArchiveJob
  <2> QED
    BY <1>7, <2>1, <2>2, <2>3, <2>4, <2>5, <2>6 DEF Api
<1>8. ASSUME NEW s \in DOMAIN subs, Listening(s)
      PROVE  RunInv'
  BY <1>8, ListeningEvolves, EvolveKeeps
<1>9. CASE Mine
  <2>1. Evolve /\ height' \in Heads /\ height <= height'
    BY <1>9, MineEvolves
  <2>2. ConnOK(conn, Len(subs), height') /\ head \in 0 .. height'
    BY <2>1, ConstantsAssumption DEF ConnOK, Heads, Connections
  <2> QED
    BY <1>9, <2>1, <2>2, EvolveKeeps DEF Mine
<1>10. CASE LoseConnection
  BY <1>10, LoseConnectionEvolves, EvolveKeeps DEF LoseConnection
<1>11. CASE RegainConnection
  BY <1>11, QuietEvolves, EvolveKeeps DEF RegainConnection
<1>12. CASE Crash
  <2>1. Evolve
    BY <1>12, CrashEvolves
  <2>2. api' \in [Jobs -> ApiSteps]
    BY <1>12 DEF Crash, ApiSteps
  <2> QED
    BY <1>12, <2>1, <2>2, OffIsOK, NoneIsOK, EvolveKeeps DEF Crash
<1>13. CASE UNCHANGED vars
  BY <1>13, QuietEvolves, EvolveKeeps DEF vars
<1> QED
  BY <1>1, <1>2, <1>3, <1>4, <1>5, <1>6, <1>7, <1>8, <1>9, <1>10, <1>11, <1>12, <1>13 DEF Next

----------------------------------------------------------------------------
(* Once each.                                                               *)

LEMMA RunInit ==
    ASSUME Init
    PROVE  RunInv
<1>1. subs \in Seq(Subscriptions) /\ Len(subs) = 0 /\ DOMAIN subs = {}
  BY EmptySeq DEF Init
<1>2. ConnOK(conn, 0, height) /\ TableOK(table, 0) /\ TableOK(held, 0)
  BY ConstantsAssumption, OffIsOK, NoneIsOK DEF Init, Heads
<1>3. api \in [Jobs -> ApiSteps] /\ height \in 0 .. MaxBlock /\ head \in 0 .. height
  BY ConstantsAssumption DEF Init, ApiSteps
<1>4. reachable \in BOOLEAN /\ tracking \in BOOLEAN
  BY Zenon DEF Init
<1> QED
  BY <1>1, <1>2, <1>3, <1>4 DEF RunInv, TypeOK, ConnOK, TableOK

LEMMA SoundIsRunOnce ==
    ASSUME RunInv
    PROVE  LogsAreRunOnce
<1>1. \A s \in DOMAIN subs : subs[s] \in Subscriptions /\ Sound(subs[s], height)
  BY Domains
<1>2. ASSUME NEW s \in DOMAIN subs, NEW b \in Blocks
      PROVE  subs[s].runs[b] \in Nat /\ (subs[s].runs[b] # 0 => subs[s].runs[b] = 1 /\ Ahead(subs[s], b))
  BY <1>1 DEF Sound, Subscriptions
<1>3. NoDoubleDispatch
  BY <1>2 DEF NoDoubleDispatch
<1>4. RunAgainOnlyAhead
  BY <1>2 DEF RunAgainOnlyAhead, Ahead
<1> QED
  BY <1>3, <1>4 DEF LogsAreRunOnce, RunInv

\* Each subscription runs a log at most once, and a later one of the same initiator
\* runs it again only ahead of the head that it was made with, or as far back as the
\* operator has asked for (LogsAreRunOnce), in whatever order heads, logs and
\* backfills come, connections break and jobs come and go.
THEOREM LogsRunTheJobOnce == Spec => []LogsAreRunOnce
<1>1. Init => RunInv
  BY RunInit
<1>2. RunInv /\ [Next]_vars => RunInv'
  BY RunStep
<1>3. RunInv => LogsAreRunOnce
  BY SoundIsRunOnce
<1> QED
  BY <1>1, <1>2, <1>3, PTL DEF Spec

----------------------------------------------------------------------------
(* None is lost.                                                            *)

LEMMA EvolveFacts ==
    ASSUME RunInv, Evolve
    PROVE  /\ DOMAIN subs' = DOMAIN subs
           /\ \A s \in DOMAIN subs : Same(subs[s], subs'[s])
BY Domains, LenProperties DEF Evolve

\* Another subscription stands for s: one of the two has been made without a head.
Doubled(s) ==
    \E r \in DOMAIN subs \ {s} : subs[r].initr = subs[s].initr /\ 0 \in {subs[r].bn, subs[s].bn}

\* The subscriptions that were in hand before the step still are, or are closed, or doubled.
LEMMA NoneIsLostNow ==
    ASSUME RunInv, Evolve, NoneIsLost,
           \A s \in DOMAIN subs :
              s \in conn.ids \/ s \in InHand(JobOf[subs[s].initr]) =>
                 \/ subs'[s].closed
                 \/ s \in conn'.ids
                 \/ s \in table'[JobOf[subs[s].initr]] \cup held'[JobOf[subs[s].initr]]
                 \/ Doubled(s)
    PROVE  NoneIsLost'
<1> SUFFICES ASSUME NEW s \in DOMAIN subs
             PROVE  \/ subs'[s].closed
                    \/ s \in conn'.ids
                    \/ s \in table'[JobOf[subs'[s].initr]] \cup held'[JobOf[subs'[s].initr]]
                    \/ \E r \in DOMAIN subs \ {s} :
                          subs'[r].initr = subs'[s].initr /\ 0 \in {subs'[r].bn, subs'[s].bn}
  BY EvolveFacts DEF NoneIsLost, InHand
<1>1. \A r \in DOMAIN subs : subs'[r].initr = subs[r].initr /\ subs'[r].bn = subs[r].bn
                             /\ (subs[r].closed => subs'[r].closed)
  BY EvolveFacts DEF Same
<1>2. subs[s].closed \/ s \in conn.ids \/ s \in InHand(JobOf[subs[s].initr]) \/ Doubled(s)
  BY DEF NoneIsLost, Doubled
<1>3. CASE Doubled(s)
  BY <1>1, <1>3 DEF Doubled
<1> QED
  BY <1>1, <1>2, <1>3

\* Steps that leave what is in hand alone.
LEMMA LossKept ==
    ASSUME LossInv, Evolve, UNCHANGED <<conn, table, api, held>>
    PROVE  InHandIsOfJob' /\ WhoMadeWhat' /\ NoneIsLost'
<1>1. \A r \in DOMAIN subs : subs'[r].initr = subs[r].initr /\ subs'[r].bn = subs[r].bn
  BY EvolveFacts DEF Same, LossInv
<1>2. /\ conn.ids \subseteq DOMAIN subs
      /\ \A j \in Jobs : table[j] \subseteq DOMAIN subs /\ held[j] \subseteq DOMAIN subs
  BY Domains, Parts DEF LossInv, ConnOK, TableOK
<1>3. InHandIsOfJob'
  BY <1>1, <1>2 DEF LossInv, InHandIsOfJob, InHand
<1>4. WhoMadeWhat'
  BY <1>1, <1>2 DEF LossInv, WhoMadeWhat
<1>5. NoneIsLost'
  BY NoneIsLostNow DEF LossInv, InHand
<1> QED
  BY <1>3, <1>4, <1>5

LEMMA HandsHold ==
    ASSUME RunInv
    PROVE  /\ conn \in Connections /\ (conn.at # "insert" => conn.ids = {})
           /\ conn.ids \subseteq DOMAIN subs
           /\ DOMAIN table = Jobs /\ DOMAIN held = Jobs /\ DOMAIN api = Jobs
           /\ \A j \in Jobs : table[j] \subseteq DOMAIN subs /\ held[j] \subseteq DOMAIN subs
           /\ \A s \in DOMAIN subs : subs[s].initr \in Initiators /\ JobOf[subs[s].initr] \in Jobs
           /\ \A s \in DOMAIN subs : subs[s].bn \in Nat
<1>1. \A s \in DOMAIN subs : subs[s].initr \in Initiators /\ subs[s].bn \in Nat
  BY Domains DEF Subscriptions
<1> QED
  BY <1>1, Domains, Parts, ConstantsAssumption DEF ConnOK, TableOK

\* The listener and the tables change, and no subscription.
LEMMA ConnectKeeps ==
    ASSUME LossInv, Connect
    PROVE  InHandIsOfJob' /\ WhoMadeWhat' /\ NoneIsLost'
<1>1. /\ conn.at = "off" /\ conn'.at = "walk" /\ conn'.ids = {}
      /\ UNCHANGED <<table, api, held, subs, height>>
  BY DEF Connect
<1>2. conn.ids = {}
  BY <1>1, HandsHold DEF LossInv
<1>3. InHandIsOfJob'
  BY <1>1 DEF LossInv, InHandIsOfJob, InHand
<1>4. WhoMadeWhat'
  BY <1>1 DEF LossInv, WhoMadeWhat
<1>5. NoneIsLost'
  BY <1>1, <1>2, QuietEvolves, NoneIsLostNow DEF LossInv, InHand
<1> QED
  BY <1>3, <1>4, <1>5

LEMMA ConnectReturnsKeeps ==
    ASSUME LossInv, ConnectReturns
    PROVE  InHandIsOfJob' /\ WhoMadeWhat' /\ NoneIsLost'
<1>1. /\ conn.at = "walk" /\ conn.todo = {}
      /\ conn'.at = "on" /\ conn'.ids = conn.ids /\ conn'.todo = conn.todo
      /\ UNCHANGED <<table, api, held, subs, height>>
  BY HandsHold DEF ConnectReturns, LossInv, Connections
<1>2. InHandIsOfJob'
  BY <1>1 DEF LossInv, InHandIsOfJob, InHand
<1>3. WhoMadeWhat'
  BY <1>1 DEF LossInv, WhoMadeWhat
<1>4. NoneIsLost'
  BY <1>1, QuietEvolves, NoneIsLostNow DEF LossInv, InHand
<1> QED
  BY <1>2, <1>3, <1>4

LEMMA DisconnectKeeps ==
    ASSUME LossInv, Disconnect
    PROVE  InHandIsOfJob' /\ WhoMadeWhat' /\ NoneIsLost'
<1> DEFINE ids == UNION {table[j] : j \in Jobs}
<1>1. /\ conn.at = "on" /\ conn'.at = "off" /\ conn'.ids = {} /\ conn'.todo = {}
      /\ subs' = Unsubscribed(ids) /\ height' = height
      /\ \A j \in Jobs : table'[j] = {}
      /\ UNCHANGED <<api, held>>
  BY DEF Disconnect, Off
<1>2. \A j \in Jobs : table[j] \subseteq ids
  OBVIOUS
<1> HIDE DEF ids
<1>3. Evolve /\ \A s \in DOMAIN subs : s \in ids => subs'[s].closed
  BY <1>1, UnsubscribedEvolve DEF LossInv
<1>4. \A r \in DOMAIN subs : subs'[r].initr = subs[r].initr /\ subs'[r].bn = subs[r].bn
  BY <1>3, EvolveFacts DEF Same, LossInv
<1>5. InHandIsOfJob'
  BY <1>1, <1>4, HandsHold DEF LossInv, InHandIsOfJob, InHand
<1>6. WhoMadeWhat'
  BY <1>1, <1>4, HandsHold DEF LossInv, WhoMadeWhat
<1>7. NoneIsLost'
  BY <1>1, <1>2, <1>3, HandsHold, NoneIsLostNow DEF LossInv, InHand
<1> QED
  BY <1>5, <1>6, <1>7

LEMMA CrashKeeps ==
    ASSUME LossInv, Crash
    PROVE  InHandIsOfJob' /\ WhoMadeWhat' /\ NoneIsLost'
<1>1. /\ conn'.at = "off" /\ conn'.ids = {} /\ conn'.todo = {}
      /\ \A j \in Jobs : table'[j] = {} /\ held'[j] = {}
      /\ \A j \in Jobs : api'[j] = IF InDb(j) THEN "ready" ELSE api[j]
  BY DEF Crash, Off
<1>2. \A j \in Jobs : api'[j] # "insert"
  BY <1>1 DEF InDb
<1>3. InHandIsOfJob'
  BY <1>1 DEF InHandIsOfJob, InHand
<1>4. WhoMadeWhat'
  BY <1>1, <1>2 DEF WhoMadeWhat
<1>5. NoneIsLost'
  BY CrashEvolves, NoneIsLostNow DEF LossInv
<1> QED
  BY <1>3, <1>4, <1>5

\* An API step that has nothing in hand, before or after.
LEMMA ApiStepKeeps ==
    ASSUME LossInv, NEW j \in Jobs, CreateJob(j) \/ ArchiveJob(j)
    PROVE  InHandIsOfJob' /\ WhoMadeWhat' /\ NoneIsLost'
<1>1. /\ api[j] \notin {"insert", "unsubscribe"} /\ api'[j] # "insert"
      /\ \A k \in Jobs \ {j} : api'[k] = api[k]
      /\ UNCHANGED <<conn, table, held, subs, height>>
  BY HandsHold DEF CreateJob, ArchiveJob, LossInv
<1>2. held[j] = {}
  BY <1>1 DEF LossInv, InHandIsOfJob
<1>3. InHandIsOfJob'
  BY <1>1, <1>2 DEF LossInv, InHandIsOfJob, InHand
<1>4. WhoMadeWhat'
  BY <1>1 DEF LossInv, WhoMadeWhat
<1>5. NoneIsLost'
  BY <1>1, QuietEvolves, NoneIsLostNow DEF LossInv, InHand
<1> QED
  BY <1>3, <1>4, <1>5

LEMMA RemoveJobKeeps ==
    ASSUME LossInv, NEW j \in Jobs, RemoveJob(j)
    PROVE  InHandIsOfJob' /\ WhoMadeWhat' /\ NoneIsLost'
<1>1. /\ api[j] = "ready" /\ api'[j] = "unsubscribe"
      /\ \A k \in Jobs \ {j} : api'[k] = api[k] /\ held'[k] = held[k] /\ table'[k] = table[k]
      /\ held'[j] = table[j] /\ table'[j] = {}
      /\ UNCHANGED <<conn, subs, height>>
  BY HandsHold DEF RemoveJob, LossInv
<1>2. held[j] = {}
  BY <1>1 DEF LossInv, InHandIsOfJob
<1>3. InHandIsOfJob'
  BY <1>1 DEF LossInv, InHandIsOfJob, InHand
<1>4. WhoMadeWhat'
  BY <1>1 DEF LossInv, WhoMadeWhat
<1>5. NoneIsLost'
  BY <1>1, <1>2, QuietEvolves, HandsHold, NoneIsLostNow DEF LossInv, InHand
<1> QED
  BY <1>3, <1>4, <1>5

LEMMA UnsubscribeRemovedKeeps ==
    ASSUME LossInv, NEW j \in Jobs, UnsubscribeRemoved(j)
    PROVE  InHandIsOfJob' /\ WhoMadeWhat' /\ NoneIsLost'
<1>1. /\ api'[j] = "archive" /\ held'[j] = {}
      /\ \A k \in Jobs \ {j} : api'[k] = api[k] /\ held'[k] = held[k]
      /\ subs' = Unsubscribed(held[j])
      /\ UNCHANGED <<conn, table, height>>
  BY HandsHold DEF UnsubscribeRemoved, LossInv
<1>2. Evolve /\ \A s \in DOMAIN subs : s \in held[j] => subs'[s].closed
  BY <1>1, UnsubscribedEvolve DEF LossInv
<1>3. \A r \in DOMAIN subs : subs'[r].initr = subs[r].initr /\ subs'[r].bn = subs[r].bn
  BY <1>2, EvolveFacts DEF Same, LossInv
<1>4. InHandIsOfJob'
  BY <1>1, <1>3, HandsHold DEF LossInv, InHandIsOfJob, InHand
<1>5. WhoMadeWhat'
  BY <1>1, <1>3, HandsHold DEF LossInv, WhoMadeWhat
<1>6. NoneIsLost'
  BY <1>1, <1>2, HandsHold, NoneIsLostNow DEF LossInv, InHand
<1> QED
  BY <1>4, <1>5, <1>6

\* Of the initiators, one for each job, both s and r have the one of job j.
LEMMA OneOfJob ==
    ASSUME OneInitiatorEach, RunInv, NEW s \in DOMAIN subs, NEW r \in DOMAIN subs, s # r,
           JobOf[subs[s].initr] = JobOf[subs[r].initr], subs[s].bn = 0 \/ subs[r].bn = 0
    PROVE  Doubled(s)
BY HandsHold DEF OneInitiatorEach, Doubled

LEMMA ConnectInsertsKeeps ==
    ASSUME LossInv, OneInitiatorEach, NEW j \in Jobs, ConnectInserts(j)
    PROVE  InHandIsOfJob' /\ WhoMadeWhat' /\ NoneIsLost'
<1>1. /\ conn.at = "insert" /\ \A s \in conn.ids : JobOf[subs[s].initr] = j
      /\ table'[j] = conn.ids /\ \A k \in Jobs \ {j} : table'[k] = table[k]
      /\ conn'.at = "walk" /\ conn'.todo = conn.todo \ {j} /\ conn'.ids = {}
      /\ UNCHANGED <<api, held, subs, height>>
  BY HandsHold DEF ConnectInserts, LossInv, Connections
<1>2. conn.ids # {} /\ j \in conn.todo /\ conn.ids \subseteq DOMAIN subs
  BY <1>1, HandsHold, Parts DEF LossInv, InHandIsOfJob, ConnOK
<1>3. InHandIsOfJob'
  BY <1>1 DEF LossInv, InHandIsOfJob, InHand
<1>4. WhoMadeWhat'
  BY <1>1 DEF LossInv, WhoMadeWhat
<1>5. ASSUME NEW s \in DOMAIN subs, s \in table[j], s \notin conn.ids
      PROVE  Doubled(s)
  <2>1. PICK r \in conn.ids : TRUE
    BY <1>2
  <2>2. r \in DOMAIN subs /\ r # s /\ JobOf[subs[r].initr] = j
    BY <1>1, <1>2, <1>5, <2>1
  <2>3. JobOf[subs[s].initr] = j /\ subs[s].bn = 0
    BY <1>2, <1>5 DEF LossInv, InHandIsOfJob, InHand, WhoMadeWhat
  <2> QED
    BY <2>2, <2>3, OneOfJob DEF LossInv
<1>6. NoneIsLost'
  BY <1>1, <1>2, <1>5, QuietEvolves, HandsHold, NoneIsLostNow DEF LossInv, InHand
<1> QED
  BY <1>3, <1>4, <1>6

LEMMA ApiInsertsKeeps ==
    ASSUME LossInv, OneInitiatorEach, NEW j \in Jobs, ApiInserts(j)
    PROVE  InHandIsOfJob' /\ WhoMadeWhat' /\ NoneIsLost'
<1>1. /\ api[j] = "insert" /\ api'[j] = "ready"
      /\ \A k \in Jobs \ {j} : api'[k] = api[k] /\ held'[k] = held[k] /\ table'[k] = table[k]
      /\ table'[j] = held[j] /\ held'[j] = {}
      /\ UNCHANGED <<conn, subs, height>>
  BY HandsHold DEF ApiInserts, LossInv
<1>2. held[j] # {} /\ held[j] \subseteq DOMAIN subs /\ \A s \in held[j] : subs[s].bn = 0
  BY <1>1, HandsHold DEF LossInv, WhoMadeWhat
<1>3. InHandIsOfJob'
  BY <1>1 DEF LossInv, InHandIsOfJob, InHand
<1>4. WhoMadeWhat'
  BY <1>1, <1>2 DEF LossInv, WhoMadeWhat
<1>5. ASSUME NEW s \in DOMAIN subs, s \in table[j], s \notin held[j]
      PROVE  Doubled(s)
  <2>1. PICK r \in held[j] : TRUE
    BY <1>2
  <2>2. r \in DOMAIN subs /\ r # s /\ JobOf[subs[r].initr] = j /\ subs[r].bn = 0
    BY <1>2, <1>5, <2>1 DEF LossInv, InHandIsOfJob, InHand
  <2>3. JobOf[subs[s].initr] = j
    BY <1>5 DEF LossInv, InHandIsOfJob, InHand
  <2> QED
    BY <2>2, <2>3, OneOfJob DEF LossInv
<1>6. NoneIsLost'
  BY <1>1, <1>5, QuietEvolves, HandsHold, NoneIsLostNow DEF LossInv, InHand
<1> QED
  BY <1>3, <1>4, <1>6

\* What is made of a job that has one initiator is kept.
LEMMA AllAreKept ==
    ASSUME OneInitiatorEach, RunInv, NEW j \in Jobs, NEW made \in SUBSET InitiatorsFor(j),
           NEW bn \in Heads, Subscribe(made, bn)
    PROVE  /\ DOMAIN subs \subseteq DOMAIN subs' /\ \A s \in DOMAIN subs : subs'[s] = subs[s]
           /\ DOMAIN subs' = DOMAIN subs \cup Kept(j, made)
           /\ Kept(j, made) \cap DOMAIN subs = {}
           /\ \A s \in Kept(j, made) : JobOf[subs'[s].initr] = j /\ subs'[s].bn = bn
<1>1. made \in SUBSET Initiators /\ \A i \in made : JobOf[i] = j
  BY DEF InitiatorsFor
<1>2. /\ Cardinality(made) \in Nat /\ Len(subs) \in Nat
      /\ Len(subs') = Len(subs) + Cardinality(made)
      /\ DOMAIN subs = 1 .. Len(subs) /\ DOMAIN subs' = 1 .. Len(subs')
      /\ \A s \in 1 .. Len(subs) : subs'[s] = subs[s]
      /\ \A s \in Len(subs) + 1 .. Len(subs') : \E i \in made : subs'[s] = NewSubscription(i, bn)
  BY <1>1, SubscribeAdds DEF RunInv, TypeOK
<1>3. Kept(j, made) = Len(subs) + 1 .. Len(subs')
  <2>1. CASE made = InitiatorsFor(j)
    BY <1>2, <2>1 DEF Kept
  <2>2. CASE made # InitiatorsFor(j)
    <3>1. PICK k \in InitiatorsFor(j) : k \notin made
      BY <2>2
    <3>2. made = {}
      BY <1>1, <3>1, Zenon DEF OneInitiatorEach, InitiatorsFor
    <3>3. Cardinality(made) = 0
      BY <3>2, FS_EmptySet
    <3> QED
      BY <1>2, <2>2, <3>3 DEF Kept
  <2> QED
    BY <2>1, <2>2
<1>4. ASSUME NEW s \in Kept(j, made)
      PROVE  JobOf[subs'[s].initr] = j /\ subs'[s].bn = bn
  <2>1. PICK i \in made : subs'[s] = NewSubscription(i, bn)
    BY <1>2, <1>3
  <2> QED
    BY <1>1, <2>1 DEF NewSubscription
<1> QED
  BY <1>2, <1>3, <1>4

\* Those that were there before are what they were.
LEMMA NoneIsLostInGrowth ==
    ASSUME RunInv, NoneIsLost, DOMAIN subs \subseteq DOMAIN subs',
           \A s \in DOMAIN subs : subs'[s] = subs[s],
           \A s \in DOMAIN subs : s \in conn.ids \/ s \in InHand(JobOf[subs[s].initr]) =>
              s \in conn'.ids \/ s \in table'[JobOf[subs[s].initr]] \cup held'[JobOf[subs[s].initr]],
           \A s \in DOMAIN subs' \ DOMAIN subs :
              s \in conn'.ids \/ s \in table'[JobOf[subs'[s].initr]] \cup held'[JobOf[subs'[s].initr]]
    PROVE  NoneIsLost'
<1> SUFFICES ASSUME NEW s \in DOMAIN subs'
             PROVE  \/ subs'[s].closed
                    \/ s \in conn'.ids
                    \/ s \in table'[JobOf[subs'[s].initr]] \cup held'[JobOf[subs'[s].initr]]
                    \/ \E r \in DOMAIN subs' \ {s} :
                          subs'[r].initr = subs'[s].initr /\ 0 \in {subs'[r].bn, subs'[s].bn}
  BY DEF NoneIsLost, InHand
<1>1. CASE s \in DOMAIN subs
  <2>1. subs[s].closed \/ s \in conn.ids \/ s \in InHand(JobOf[subs[s].initr]) \/ Doubled(s)
    BY <1>1 DEF NoneIsLost, Doubled
  <2>2. CASE Doubled(s)
    <3>1. PICK r \in DOMAIN subs \ {s} : subs[r].initr = subs[s].initr /\ 0 \in {subs[r].bn, subs[s].bn}
      BY <2>2 DEF Doubled
    <3>2. r \in DOMAIN subs' \ {s} /\ subs'[r] = subs[r] /\ subs'[s] = subs[s]
      BY <1>1
    <3> QED
      BY <3>1, <3>2
  <2> QED
    BY <1>1, <2>1, <2>2
<1>2. CASE s \notin DOMAIN subs
  BY <1>2
<1> QED
  BY <1>1, <1>2

LEMMA ConnectSubscribesKeeps ==
    ASSUME LossInv, OneInitiatorEach, NEW j \in Jobs, ConnectSubscribes(j)
    PROVE  InHandIsOfJob' /\ WhoMadeWhat' /\ NoneIsLost'
<1>1. PICK made \in SUBSET InitiatorsFor(j) :
          /\ Subscribe(made, conn.bn)
          /\ conn' = IF Kept(j, made) = {}
                     THEN [conn EXCEPT !.todo = @ \ {j}]
                     ELSE [conn EXCEPT !.at = "insert", !.ids = Kept(j, made)]
  BY DEF ConnectSubscribes
<1> DEFINE kept == Kept(j, made)
<1>2. conn \in Connections /\ conn.bn \in Heads /\ conn.at = "walk" /\ conn.ids = {} /\ j \in conn.todo
      /\ UNCHANGED <<table, api, held>>
  BY HandsHold DEF ConnectSubscribes, LossInv, Connections, Heads
<1>3. /\ DOMAIN subs \subseteq DOMAIN subs' /\ \A s \in DOMAIN subs : subs'[s] = subs[s]
      /\ DOMAIN subs' = DOMAIN subs \cup kept
      /\ \A s \in kept : JobOf[subs'[s].initr] = j
  BY <1>1, <1>2, AllAreKept DEF LossInv
<1> HIDE DEF kept
<1>4. conn'.ids = kept /\ conn'.at # "off" /\ conn'.at # "on"
      /\ conn'.todo = IF kept = {} THEN conn.todo \ {j} ELSE conn.todo
  <2>1. CASE kept = {}
    <3>1. conn' = [conn EXCEPT !.todo = @ \ {j}]
      BY <1>1, <2>1 DEF kept
    <3> QED
      BY <1>2, <2>1, <3>1 DEF Connections
  <2>2. CASE kept # {}
    <3>1. conn' = [conn EXCEPT !.at = "insert", !.ids = kept]
      BY <1>1, <2>2 DEF kept
    <3> QED
      BY <1>2, <2>2, <3>1 DEF Connections
  <2> QED
    BY <2>1, <2>2
<1>5. InHandIsOfJob'
  BY <1>2, <1>3, <1>4, HandsHold DEF LossInv, InHandIsOfJob, InHand
<1>6. WhoMadeWhat'
  BY <1>2, <1>3, <1>4, HandsHold DEF LossInv, WhoMadeWhat
<1>7. NoneIsLost'
  BY <1>2, <1>3, <1>4, NoneIsLostInGrowth DEF LossInv, InHand
<1> QED
  BY <1>5, <1>6, <1>7

LEMMA ApiSubscribesKeeps ==
    ASSUME LossInv, OneInitiatorEach, NEW j \in Jobs, ApiSubscribes(j)
    PROVE  InHandIsOfJob' /\ WhoMadeWhat' /\ NoneIsLost'
<1>1. PICK made \in SUBSET InitiatorsFor(j) :
          /\ Subscribe(made, 0)
          /\ held' = [held EXCEPT ![j] = Kept(j, made)]
          /\ api' = [api EXCEPT ![j] = IF Kept(j, made) = {} THEN "ready" ELSE "insert"]
  BY DEF ApiSubscribes
<1> DEFINE kept == Kept(j, made)
<1>2. 0 \in Heads
  BY ConstantsAssumption DEF Heads
<1>3. /\ DOMAIN subs \subseteq DOMAIN subs' /\ \A s \in DOMAIN subs : subs'[s] = subs[s]
      /\ DOMAIN subs' = DOMAIN subs \cup kept
      /\ \A s \in kept : JobOf[subs'[s].initr] = j /\ subs'[s].bn = 0
  BY <1>1, <1>2, AllAreKept DEF LossInv
<1> HIDE DEF kept
<1>4. /\ api[j] = "subscribe" /\ UNCHANGED <<conn, table>>
      /\ held'[j] = kept /\ api'[j] = (IF kept = {} THEN "ready" ELSE "insert")
      /\ \A k \in Jobs \ {j} : api'[k] = api[k] /\ held'[k] = held[k]
  BY <1>1, HandsHold DEF ApiSubscribes, LossInv, kept
<1>5. held[j] = {}
  BY <1>4 DEF LossInv, InHandIsOfJob
<1>6. InHandIsOfJob'
  BY <1>3, <1>4, HandsHold DEF LossInv, InHandIsOfJob, InHand
<1>7. WhoMadeWhat'
  BY <1>3, <1>4, HandsHold DEF LossInv, WhoMadeWhat
<1>8. NoneIsLost'
  <2>1. ASSUME NEW s \in DOMAIN subs, s \in conn.ids \/ s \in InHand(JobOf[subs[s].initr])
        PROVE  s \in conn'.ids \/ s \in table'[JobOf[subs[s].initr]] \cup held'[JobOf[subs[s].initr]]
    BY <1>4, <1>5, <2>1, HandsHold DEF LossInv, InHand
  <2> QED
    BY <1>3, <1>4, <2>1, NoneIsLostInGrowth DEF LossInv
<1> QED
  BY <1>6, <1>7, <1>8

LEMMA LossInit ==
    ASSUME Init
    PROVE  LossInv
<1>1. RunInv /\ subs = <<>> /\ conn = Off /\ (\A j \in Jobs : table[j] = {} /\ held[j] = {})
      /\ api \in [Jobs -> {"absent", "ready"}]
  BY RunInit DEF Init
<1>2. DOMAIN subs = {} /\ conn.ids = {} /\ conn.at = "off" /\ conn.todo = {}
  BY <1>1, EmptySeq DEF Off
<1> QED
  BY <1>1, <1>2 DEF LossInv, InHandIsOfJob, WhoMadeWhat, NoneIsLost, InHand

LEMMA LossStep ==
    ASSUME LossInv, OneInitiatorEach, [Next]_vars
    PROVE  LossInv'
<1>1. RunInv /\ RunInv'
  BY RunStep DEF LossInv
<1>2. CASE Connect
  BY <1>2, <1>1, ConnectKeeps DEF LossInv
<1>3. ASSUME NEW j \in Jobs, ConnectSubscribes(j) \/ ConnectInserts(j)
      PROVE  LossInv'
  BY <1>3, <1>1, ConnectSubscribesKeeps, ConnectInsertsKeeps DEF LossInv
<1>4. CASE ConnectReturns
  BY <1>4, <1>1, ConnectReturnsKeeps DEF LossInv
<1>5. CASE Disconnect
  BY <1>5, <1>1, DisconnectKeeps DEF LossInv
<1>6. ASSUME NEW n \in Blocks, HeadArrives(n)
      PROVE  LossInv'
  BY <1>6, <1>1, QuietEvolves, LossKept DEF LossInv, HeadArrives
<1>7. ASSUME NEW j \in Jobs, Api(j)
      PROVE  LossInv'
  BY <1>7, <1>1, ApiStepKeeps, ApiSubscribesKeeps, ApiInsertsKeeps, RemoveJobKeeps,
     UnsubscribeRemovedKeeps DEF LossInv, Api
<1>8. ASSUME NEW s \in DOMAIN subs, Listening(s)
      PROVE  LossInv'
  BY <1>8, <1>1, ListeningEvolves, LossKept DEF LossInv
<1>9. CASE Mine
  BY <1>9, <1>1, MineEvolves, LossKept DEF LossInv, Mine
<1>10. CASE LoseConnection
  BY <1>10, <1>1, LoseConnectionEvolves, LossKept DEF LossInv, LoseConnection
<1>11. CASE RegainConnection
  BY <1>11, <1>1, QuietEvolves, LossKept DEF LossInv, RegainConnection
<1>12. CASE Crash
  BY <1>12, <1>1, CrashKeeps DEF LossInv
<1>13. CASE UNCHANGED vars
  BY <1>13, <1>1, QuietEvolves, LossKept DEF LossInv, vars
<1> QED
  BY <1>2, <1>3, <1>4, <1>5, <1>6, <1>7, <1>8, <1>9, <1>10, <1>11, <1>12, <1>13 DEF Next

\* Where each job has one log initiator, every subscription that is open is one the
\* table holds, or in the hands of whoever has made or removed it, or of a job that
\* has been subscribed a second time without a head (NoneIsLost): Connect, Disconnect
\* and the steps of AddJob and ArchiveJob may come in any order.
THEOREM NoSubscriptionIsLost ==
    ASSUME OneInitiatorEach
    PROVE  Spec => []NoneIsLost
<1>1. Init => LossInv
  BY LossInit
<1>2. LossInv /\ [Next]_vars => LossInv'
  BY LossStep
<1>3. LossInv => NoneIsLost
  BY DEF LossInv
<1> QED
  BY <1>1, <1>2, <1>3, PTL DEF Spec
=============================================================================
