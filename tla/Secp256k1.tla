------------------------------- MODULE Secp256k1 -------------------------------
(****************************************************************************)
(* The group of the signatures and of the verifiable random function        *)
(* (core/services/signatures/secp256k1): the field of FieldSize elements,   *)
(* the points of y^2 = x^3 + 7 over it, GroupOrder with the one at          *)
(* infinity, and the scalars.  A point is the pair of its ordinates, the    *)
(* one at infinity <<0, 0>>, as btcec has it.  FieldSize and GroupOrder are *)
(* primes, and FieldSize % 4 = 3.                                           *)
(****************************************************************************)
EXTENDS Integers, Sequences

CONSTANTS
    FieldSize,      \* the characteristic of the field
    GroupOrder,     \* the order of the group
    Generator,      \* its generator
    WordSize        \* the size of a word, above both

None == -1

----------------------------------------------------------------------------
(* The field.                                                               *)

modQ(n) == n % FieldSize

\* b to the power of e, by squares.
Exp(b, e) ==
    LET power[n \in 0 .. e] ==
            IF n = 0 THEN 1
            ELSE LET half == power[n \div 2] IN
                 modQ(modQ(half * half) * (IF n % 2 = 1 THEN b ELSE 1))
    IN power[e]

ModInverse(a) == Exp(modQ(a), FieldSize - 2)

SqrtPower == (FieldSize + 1) \div 4

maybeSqrtInField(v) ==
    LET s == Exp(v, SqrtPower) IN IF modQ(s * s) = v THEN s ELSE None

rightHandSide(x) == modQ(Exp(x, 3) + 7)

isEven(f) == f % 2 = 0

----------------------------------------------------------------------------
(* The points.                                                              *)

Infinity == <<0, 0>>

Neg(p) == <<p[1], modQ(-p[2])>>

\* Addition in the group, of btcec.
AddPoints(p, q) ==
    IF p = Infinity THEN q
    ELSE IF q = Infinity THEN p
    ELSE IF q = Neg(p) THEN Infinity
    ELSE LET slope == IF p = q THEN modQ(3 * p[1] * p[1] * ModInverse(2 * p[2]))
                               ELSE modQ((q[2] - p[2]) * ModInverse(q[1] - p[1]))
             x == modQ(slope * slope - p[1] - q[1])
         IN <<x, modQ(slope * (p[1] - x) - p[2])>>

Sub(p, q) == AddPoints(p, Neg(q))

Points ==
    {Infinity} \cup
    {p \in (0 .. FieldSize - 1) \X (0 .. FieldSize - 1) : modQ(p[2] * p[2]) = rightHandSide(p[1])}

Multiples ==
    [p \in Points |->
        LET multiple[n \in 0 .. GroupOrder - 1] ==
                IF n = 0 THEN Infinity
                ELSE LET half == multiple[n \div 2]
                         twice == AddPoints(half, half)
                     IN IF n % 2 = 1 THEN AddPoints(twice, p) ELSE twice
        IN [n \in 0 .. GroupOrder - 1 |-> multiple[n]]]

\* Mul reduces the scalar first.
Mul(s, p) == Multiples[p][s % GroupOrder]

\* Mutant: the other root is left out.
ValidPublicKey_OneRoot(p) ==
    p[2] = maybeSqrtInField(rightHandSide(p[1]))

ValidPublicKey(p) ==
    LET y == maybeSqrtInField(rightHandSide(p[1])) IN
    y # None /\ p[2] \in {y, modQ(-y)}

\* The ordinates, reduced; an error if they are no point's.
LongUnmarshal(x, y) ==
    LET p == <<modQ(x), modQ(y)>> IN IF ValidPublicKey(p) THEN p ELSE Infinity

\* The x ordinate and the sign of y.
MarshalBinary(p) == <<p[1], IF isEven(p[2]) THEN 0 ELSE 1>>

UnmarshalBinary(buf) ==
    LET x == modQ(buf[1])
        y == maybeSqrtInField(rightHandSide(x))
    IN IF y = None \/ buf[2] \notin {0, 1} THEN Infinity
       ELSE <<x, IF isEven(y) = (buf[2] = 0) THEN y ELSE modQ(-y)>>

----------------------------------------------------------------------------
(* The scalars.                                                             *)

modG(n) == n % GroupOrder

RepresentsScalar(n) == n < GroupOrder

Inv(a) == CHOOSE i \in 1 .. GroupOrder - 1 : modG(a * i) = 1

Div(a, b) == modG(a * Inv(modG(b)))

----------------------------------------------------------------------------
(* The hash, of which the code asks only that it is a function: one of many *)
(* that mix the numbers they are given, by the salt.                        *)

Mixed(hash, n, salt) == (hash * 11 + n + salt) % 1009

Keccak(salt, ns) ==
    LET hash[n \in 0 .. Len(ns)] ==
            IF n = 0 THEN salt ELSE Mixed(hash[n - 1], ns[n], salt)
    IN hash[Len(ns)] % WordSize

EthereumAddress(salt, p) == Keccak(salt, p)

----------------------------------------------------------------------------
(* What is known of the curve.                                              *)

\* The field: a prime, for which Fermat's theorem holds, and a word holds its elements.
FieldAssumption ==
    /\ FieldSize \in Nat /\ FieldSize > 7 /\ FieldSize % 4 = 3
    /\ \A a, b \in 1 .. FieldSize - 1 : modQ(a * b) # 0
    /\ \A a \in 1 .. FieldSize - 1 : Exp(a, FieldSize - 1) = 1
    /\ WordSize \in Nat /\ WordSize >= FieldSize

\* The points are a commutative group, in which all but the one at infinity have the
\* order GroupOrder.
GroupAssumption ==
    /\ GroupOrder \in Nat \ {0}
    /\ Generator \in Points \ {Infinity}
    /\ \A p, q \in Points : AddPoints(p, q) \in Points /\ AddPoints(p, q) = AddPoints(q, p)
    /\ \A p, q, r \in Points : AddPoints(AddPoints(p, q), r) = AddPoints(p, AddPoints(q, r))
    /\ \A p \in Points : AddPoints(Mul(GroupOrder - 1, p), p) = Infinity
    /\ \A p \in Points \ {Infinity} : \A n \in 1 .. GroupOrder - 1 : Mul(n, p) # Infinity

ASSUME CurveAssumption == FieldAssumption /\ GroupAssumption
=============================================================================
