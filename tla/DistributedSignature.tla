-------------------------- MODULE DistributedSignature --------------------------
(****************************************************************************)
(* The Schnorr signature that Threshold of some participants make together  *)
(* (core/services/signatures/ethdss, ethschnorr): each signs with its share *)
(* of the long-term key and of the nonce, and sends that to the others.     *)
(* Partial signatures arrive in any order, more than once, and from another *)
(* session of the same key.                                                 *)
(****************************************************************************)
EXTENDS Secp256k1, FiniteSets
LOCAL INSTANCE FiniteSetsExt
LOCAL INSTANCE SequencesExt

CONSTANTS
    HashSalt,       \* the hash
    Secrets,        \* the secret of each participant, by its index + 1
    Threshold,      \* T, how many make a signature
    LongKeys,       \* the polynomials the long-term key may be shared by, their
                    \* coefficients in order
    NonceKey,       \* the polynomial of the nonce
    OldNonceKey,    \* that of an earlier session
    Messages        \* what a participant may have been given to sign

VARIABLES
    longKey,        \* the polynomial of the long-term key
    message,        \* the message of each participant
    dss,            \* each participant's: the partial signatures it holds, the indices it
                    \* has taken, and whether it has signed
    network         \* the partial signatures that were sent

dssVars == <<longKey, message, dss, network>>

Participants == 0 .. Len(Secrets) - 1

Public(i) == Mul(Secrets[i + 1], Generator)

----------------------------------------------------------------------------
(* Sharing of a secret by a polynomial, of kyber.                           *)

Eval(key, i) == modG(MapThenSumSet(LAMBDA k : key[k] * (i + 1)^(k - 1), DOMAIN key))
PubShare(key, i) == Mul(Eval(key, i), Generator)
Commitments(key) == [k \in DOMAIN key |-> Mul(key[k], Generator)]

Coefficient(i, indices) ==
    FoldSet(LAMBDA j, c : modG(c * Div(j + 1, j - i)), 1, indices \ {i})

\* The shares of the lowest indices, T of them, give the secret.
RecoverSecret(shares) ==
    LET indices == {share[1] : share \in ToSet(shares)}
        lowest == {i \in indices : Cardinality({j \in indices : j < i}) < Threshold}
        Value(i) == (CHOOSE share \in ToSet(shares) : share[1] = i)[2]
    IN IF Cardinality(lowest) < Threshold THEN None
       ELSE modG(MapThenSumSet(LAMBDA i : Value(i) * Coefficient(i, lowest), lowest))

----------------------------------------------------------------------------
(* ethschnorr: the signature of one.                                        *)

Address(p) == EthereumAddress(HashSalt, p)

ChallengeHash(public, rAddress, msg) ==
    modG(Keccak(HashSalt, MarshalBinary(public) \o <<msg, rAddress>>))

\* r is the secret of the commitment, a random scalar.
Sign(private, msg, r) ==
    LET rAddress == Address(Mul(r, Generator)) IN
    [commitmentPublicAddress |-> rAddress,
     signature |-> modG(r - private * ChallengeHash(Mul(private, Generator), rAddress, msg))]

ValidSignature(s) == s.signature \in 0 .. GroupOrder - 1

VerifySignature(public, msg, s) ==
    /\ ValidSignature(s)
    /\ ValidPublicKey(public)
    /\ LET challenge == ChallengeHash(public, s.commitmentPublicAddress, msg) IN
       s.commitmentPublicAddress = Address(AddPoints(Mul(s.signature, Generator), Mul(challenge, public)))

----------------------------------------------------------------------------
(* ethdss.                                                                  *)

sessionID(nonceKey) ==
    Keccak(HashSalt, FlattenSeq([k \in DOMAIN longKey |-> MarshalBinary(Commitments(longKey)[k])]
                                \o [k \in DOMAIN nonceKey |-> MarshalBinary(Commitments(nonceKey)[k])]))

hashSig(nonceKey, msg) ==
    ChallengeHash(Commitments(longKey)[1], Address(Commitments(nonceKey)[1]), msg)

\* What is signed of a partial signature.
Hash(i, v, session) == Keccak(HashSalt, <<v, i, session>>)

\* gamma_i of the paper, beta_i - alpha_i * h, signed by the participant.
NewPartialSig(i, nonceKey, msg, r) ==
    LET v == modG(Eval(nonceKey, i) - hashSig(nonceKey, msg) * Eval(longKey, i))
        session == sessionID(nonceKey)
    IN [i |-> i, v |-> v, session |-> session,
        signature |-> Sign(Secrets[i + 1], Hash(i, v, session), r)]

DssInit ==
    /\ longKey \in LongKeys
    /\ message \in [Participants -> Messages]
    /\ dss = [i \in Participants |-> [partials |-> <<>>, partialsIdx |-> {}, signed |-> FALSE]]
    /\ network = {NewPartialSig(i, OldNonceKey, message[i], 2) : i \in Participants}

\* PartialSig, which takes its own; asked again, it only makes the same once more.
PartialSig(i) ==
    /\ ~dss[i].signed
    /\ LET ps == NewPartialSig(i, NonceKey, message[i], 2) IN
       /\ network' = network \cup {ps}
       /\ dss' = [dss EXCEPT ![i].signed = TRUE,
                             ![i].partialsIdx = @ \cup {i},
                             ![i].partials = Append(@, <<i, ps.v>>)]
    /\ UNCHANGED <<longKey, message>>

IsNew(i, ps) == ps.i \notin dss[i].partialsIdx

\* Mutant: what the partial signature is of is not checked.
IsShare_Unchecked(i, ps) == TRUE

\* Equation (3) of the paper.
IsShare(i, ps) ==
    Mul(ps.v, Generator) = Sub(PubShare(NonceKey, ps.i),
                               Mul(hashSig(NonceKey, message[i]), PubShare(longKey, ps.i)))

ProcessPartialSig(i, ps) ==
    /\ ps.i \in Participants
    /\ IsNew(i, ps)
    /\ ps.session = sessionID(NonceKey)
    /\ VerifySignature(Public(ps.i), Hash(ps.i, ps.v, ps.session), ps.signature)
    /\ IsShare(i, ps)
    /\ dss' = [dss EXCEPT ![i].partialsIdx = @ \cup {ps.i},
                          ![i].partials = Append(@, <<ps.i, ps.v>>)]
    /\ UNCHANGED <<longKey, message, network>>

EnoughPartialSig(i) == Len(dss[i].partials) >= Threshold

Signature(i) ==
    [commitmentPublicAddress |-> Address(Commitments(NonceKey)[1]),
     signature |-> RecoverSecret(dss[i].partials)]

DssNext ==
    \E i \in Participants :
        \/ PartialSig(i)
        \/ \E ps \in network : ProcessPartialSig(i, ps)

----------------------------------------------------------------------------
(* Properties.                                                              *)

\* Whoever holds enough partial signatures has the signature of its message by the
\* long-term key, whichever participants signed and whatever else was sent.
EnoughIsASignature ==
    \A i \in Participants :
        EnoughPartialSig(i) => VerifySignature(Mul(longKey[1], Generator), message[i], Signature(i))
=============================================================================
