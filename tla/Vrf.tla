---------------------------------- MODULE Vrf ----------------------------------
(****************************************************************************)
(* The verifiable random function (core/services/vrf, adapters/random.go):  *)
(* from a request, a seed and a key, to the proof that the node sends and   *)
(* to its check by the rules of the contract.                               *)
(****************************************************************************)
EXTENDS Secp256k1, FiniteSets

CONSTANTS
    Salts,          \* the hashes
    SecretKeys,     \* the keys of the node
    Seeds,          \* the seeds of requests, words
    MaxProofs       \* bound on the requests

VARIABLES
    salt,           \* which hash there is
    proving,        \* the request in work
    outputs         \* history: key, seed and output of each proof that was accepted

vrfVars == <<salt, proving, outputs>>

----------------------------------------------------------------------------
(* vrf.go.                                                                  *)

\* Euler's criterion.
IsSquare(x) == Exp(x, (FieldSize - 1) \div 2) = 1

IsCurveXOrdinate(x) == IsSquare(rightHandSide(x))

\* The hash is taken until it is below the size of the field.
hashesBelow(s) ==
    LET below[rv \in 0 .. WordSize - 1] ==
            IF rv < FieldSize THEN rv ELSE below[Keccak(s, <<rv>>)]
    IN below

fieldHash(s, msg) == hashesBelow(s)[Keccak(s, msg)]

\* Of the two points with an x ordinate, the one with the even y.
EvenPoint ==
    [x \in 0 .. FieldSize - 1 |->
        LET y == Exp(rightHandSide(x), SqrtPower) IN
        IF isEven(y) THEN <<x, y>> ELSE Neg(<<x, y>>)]

\* The hash is taken until it is the x ordinate of a point.
ordinates(s) ==
    LET ordinate[x \in 0 .. FieldSize - 1] ==
            IF IsCurveXOrdinate(x) THEN x ELSE ordinate[fieldHash(s, <<x>>)]
    IN ordinate

HashToCurve(p, input) == EvenPoint[ordinates(salt)[fieldHash(salt, <<1>> \o p \o <<input>>)]]

ScalarFromCurvePoints(hash, pk, gamma, uWitness, v) ==
    Keccak(salt, <<2>> \o hash \o pk \o gamma \o v \o <<uWitness>>)

linearCombination(c, p1, s, p2) == AddPoints(Mul(c, p1), Mul(s, p2))

Output(gamma) == Keccak(salt, <<3>> \o gamma)

CGammaEqualsSHash(p, hash) == Mul(p.c, p.gamma) = Mul(p.s, hash)

\* VerifyVRFProof, which panics when v is at infinity.
WellFormed(p) ==
    /\ ValidPublicKey(p.publicKey) /\ ValidPublicKey(p.gamma)
    /\ RepresentsScalar(p.c) /\ RepresentsScalar(p.s)

VerifyVRFProof(p) ==
    /\ WellFormed(p)
    /\ \E h \in {HashToCurve(p.publicKey, p.seed)} :
          /\ ~CGammaEqualsSHash(p, h)
          /\ \E uPrime \in {linearCombination(p.c, p.publicKey, p.s, Generator)},
                vPrime \in {linearCombination(p.c, p.gamma, p.s, h)} :
                p.c = ScalarFromCurvePoints(h, p.publicKey, p.gamma,
                                            EthereumAddress(salt, uPrime), vPrime)
    /\ p.output = Output(p.gamma)

Gamma(secretKey, h) == Mul(secretKey, h)

\* The hash that makes C, before checkCGammaNotEqualToSHash has reduced it in place.
Challenge(secretKey, h, nonce) ==
    ScalarFromCurvePoints(h, Mul(secretKey, Generator), Gamma(secretKey, h),
                          EthereumAddress(salt, Mul(nonce, Generator)), Mul(nonce, h))

NewProof(secretKey, seed, h, nonce, c) ==
    [publicKey |-> Mul(secretKey, Generator), gamma |-> Gamma(secretKey, h), c |-> modG(c),
     s |-> modG(nonce - c * secretKey), seed |-> seed, output |-> Output(Gamma(secretKey, h))]

\* Both loops come to an end, with what they look for; keys are scalars but 0.
ASSUME HashingAssumption ==
    /\ Salts \subseteq Nat
    /\ Seeds \subseteq Nat
    /\ SecretKeys \subseteq 1 .. GroupOrder - 1
    /\ \A s \in Salts :
          /\ \A w \in 0 .. WordSize - 1 : hashesBelow(s)[w] \in 0 .. FieldSize - 1
          /\ \A x \in 0 .. FieldSize - 1 :
                /\ ordinates(s)[x] \in 0 .. FieldSize - 1
                /\ IsCurveXOrdinate(ordinates(s)[x])

----------------------------------------------------------------------------
(* solidity_proof.go and solidity_ports.go: fractions over the field.       *)

projectiveSub(a, b) == <<modQ(b[2] * a[1] - a[2] * b[1]), modQ(a[2] * b[2])>>
projectiveMul(a, b) == <<modQ(a[1] * b[1]), modQ(a[2] * b[2])>>

\* Mutant: the tangent's offset is taken from the other point.
ProjectiveECAdd_Crossed(p, q) ==
    LET l == <<q[2] - p[2], q[1] - p[1]>>
        x == projectiveSub(projectiveSub(projectiveMul(l, l), <<p[1], 1>>), <<q[1], 1>>)
        y == projectiveSub(projectiveMul(projectiveSub(<<p[1], 1>>, x), l), <<q[2], 1>>)
    IN <<modQ(x[1] * y[2]), modQ(y[1] * x[2]), modQ(x[2] * y[2])>>

\* x, y and the z that divides both.  The two denominators are compared as pointers,
\* so they are never taken for the same.
ProjectiveECAdd(p, q) ==
    LET l == <<q[2] - p[2], q[1] - p[1]>>
        x == projectiveSub(projectiveSub(projectiveMul(l, l), <<p[1], 1>>), <<q[1], 1>>)
        y == projectiveSub(projectiveMul(projectiveSub(<<p[1], 1>>, x), l), <<p[2], 1>>)
    IN <<modQ(x[1] * y[2]), modQ(y[1] * x[2]), modQ(x[2] * y[2])>>

SolidityPrecalculations(p, cGamma, sHash) ==
    [p |-> p,
     uWitness |-> EthereumAddress(salt, linearCombination(p.c, p.publicKey, p.s, Generator)),
     cGammaWitness |-> cGamma, sHashWitness |-> sHash,
     zInv |-> ModInverse(ProjectiveECAdd(cGamma, sHash)[3])]

\* The output is left out, and made again from gamma.
UnmarshalSolidityProof(m) ==
    LET gamma == LongUnmarshal(m.p.gamma[1], m.p.gamma[2]) IN
    [publicKey |-> LongUnmarshal(m.p.publicKey[1], m.p.publicKey[2]), gamma |-> gamma,
     c |-> m.p.c, s |-> m.p.s, seed |-> m.p.seed, output |-> Output(gamma)]

----------------------------------------------------------------------------
(* Requests.                                                                *)

Nothing == [at |-> "idle"]

VrfInit ==
    /\ salt \in Salts
    /\ proving = Nothing
    /\ outputs = {}

\* PublicKey.Hash is of the compressed key.
KeyHash(publicKey) == Keccak(salt, MarshalBinary(publicKey))

\* VRFCoordinator.sol knows a key by the hash of both ordinates.
RegisteredHash(publicKey) == Keccak(salt, publicKey)

\* Random.Perform: the key hash of the request must be that of the task's key, which is
\* unlocked, and the seed is a word.
Ask(k, keyHash, seed) ==
    /\ proving.at \in {"idle", "other key"}
    /\ Cardinality(outputs) < MaxProofs
    /\ proving' = IF keyHash = KeyHash(UnmarshalBinary(MarshalBinary(Mul(k, Generator))))
                  THEN [at |-> "asked", key |-> k, seed |-> seed]
                  ELSE [at |-> "other key", key |-> k, keyHash |-> keyHash]
    /\ UNCHANGED <<salt, outputs>>

\* generateProofWithNonce: it asks for another nonce, panics or returns the proof.
GenerateProof(nonce) ==
    /\ proving.at = "asked"
    /\ \E h \in {HashToCurve(Mul(proving.key, Generator), proving.seed)} :
       \E c \in {Challenge(proving.key, h, nonce)} :
       \E p \in {NewProof(proving.key, proving.seed, h, nonce, c)} :
          \/ /\ ValidPublicKey(Mul(nonce, h)) /\ VerifyVRFProof(p)
             /\ proving' = [at |-> "proved", key |-> proving.key, proof |-> p]
          \/ /\ IF ValidPublicKey(Mul(nonce, h))
                THEN ~VerifyVRFProof(p) /\ ~CGammaEqualsSHash(p, h)
                ELSE TRUE
             /\ proving' = [at |-> "panicked", nonce |-> nonce, c |-> c]
    /\ UNCHANGED <<salt, outputs>>

\* MarshalForSolidityVerifier.
Marshal ==
    /\ proving.at = "proved"
    /\ \E p \in {proving.proof} :
       \E cGamma \in {Mul(p.c, p.gamma)},
          sHash \in {Mul(p.s, HashToCurve(p.publicKey, p.seed))} :
          proving' = [at |-> "sent", key |-> proving.key,
                      sent |-> SolidityPrecalculations(p, cGamma, sHash)]
    /\ UNCHANGED <<salt, outputs>>

\* Whoever asked reads the proof and checks it.
Verify ==
    /\ proving.at = "sent"
    /\ \E p \in {UnmarshalSolidityProof(proving.sent)} :
       IF VerifyVRFProof(p)
       THEN outputs' = outputs \cup {<<p.publicKey, p.seed, p.output>>} /\ proving' = Nothing
       ELSE proving' = [at |-> "refused"] /\ UNCHANGED outputs
    /\ UNCHANGED salt

VrfNext ==
    \/ \E k \in SecretKeys, seed \in Seeds :
       \E publicKey \in {Mul(other, Generator) : other \in SecretKeys} :
       \E keyHash \in {KeyHash(publicKey), RegisteredHash(publicKey)} : Ask(k, keyHash, seed)
    \/ \E nonce \in 0 .. GroupOrder - 1 : GenerateProof(nonce)
    \/ Marshal \/ Verify

VrfSpec == VrfInit /\ [][VrfNext]_vrfVars

----------------------------------------------------------------------------
(* Properties.                                                              *)

\* The witnesses make the contract's sum: x and y of ProjectiveECAdd, times zInv, are
\* those of c * gamma + s * hash, unless one of these is at infinity.
WitnessesFit ==
    proving.at = "sent" =>
        \A w \in {proving.sent} :
        \A sum \in {ProjectiveECAdd(w.cGammaWitness, w.sHashWitness)} :
        Infinity \notin {w.cGammaWitness, w.sHashWitness} =>
            /\ modQ(sum[3] * w.zInv) = 1
            /\ <<modQ(sum[1] * w.zInv), modQ(sum[2] * w.zInv)>>
                 = linearCombination(w.p.c, w.p.gamma, w.p.s, HashToCurve(w.p.publicKey, w.p.seed))

\* The contract accepts what the node proves, with the witnesses that come with it; and to
\* prove fails only for the nonce 0 and for a hash at or above the order of the group,
\* whatever the request and the key (generateProofWithNonce, SolidityPrecalculations and
\* VerifyVRFProof).
ProofsAreAccepted ==
    /\ proving.at # "refused"
    /\ proving.at = "panicked" => proving.nonce = 0 \/ proving.c >= GroupOrder
    /\ WitnessesFit

\* random.go: the key hash of a request is "the keccak256 hash of the UNCOMPRESSED
\* REPRESENTATION(*) of the public key".  A request that names the task's key so is answered.
RegisteredKeyIsAnswered ==
    proving.at = "other key" => proving.keyHash # RegisteredHash(Mul(proving.key, Generator))
=============================================================================
