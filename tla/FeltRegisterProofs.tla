------------------------- MODULE FeltRegisterProofs -------------------------
(***************************************************************************)
(* A variable of class Felt that is constructed from reduced words stays   *)
(* reduced, and stands for the element its operators should compute, for   *)
(* every size of a half word; and the temporaries of inverse are the       *)
(* powers of the element that their places in the addition chain say.      *)
(***************************************************************************)
EXTENDS FeltRegister, GoldilocksFieldProofs

\* The one fact about the size of a half word: the power the calls of exp_acc
\* compute inverts.  For the 2^32 of the code it is the power p - 2 of a prime
\* p, so that this is Fermat's theorem; it holds for HALF = 2, 4 and 16 too.
InverseInverts ==
  \A x \in Canonical \ {0} : (inverse[x] * x) % GOLDILOCKS_PRIME = 1

-----------------------------------------------------------------------------
(* inverse                                                                 *)

\* What the k-th call of exp_acc in inverse returns.
Temporaries(x) ==
  LET t_[k \in 0 .. Len(InverseChain)] ==
        IF k = 0 THEN x
        ELSE LET call == InverseChain[k] IN exp_acc(call[1], t_[call[2]], t_[call[3]])
  IN  t_

\* The calls, in their order.
LEMMA ChainIs ==
  /\ Len(InverseChain) = 9
  /\ InverseChain[1] = <<1, 0, 0>> /\ InverseChain[2] = <<1, 1, 0>>
  /\ InverseChain[3] = <<3, 2, 2>> /\ InverseChain[4] = <<6, 3, 3>>
  /\ InverseChain[5] = <<12, 4, 4>> /\ InverseChain[6] = <<6, 5, 3>>
  /\ InverseChain[7] = <<1, 6, 0>> /\ InverseChain[8] = <<32, 7, 7>>
  /\ InverseChain[9] = <<1, 8, 0>>
BY DEF InverseChain

\* Each call uses results of earlier ones, so that the recursive definition of
\* the temporaries is one.
LEMMA TemporariesAre ==
  ASSUME NEW x
  PROVE  \A k \in 0 .. 9 :
           Temporaries(x)[k] =
             IF k = 0 THEN x
             ELSE exp_acc(InverseChain[k][1], Temporaries(x)[InverseChain[k][2]],
                          Temporaries(x)[InverseChain[k][3]])
<1>1. PICK v1 : v1 = exp_acc(1, x, x)     OBVIOUS
<1>2. PICK v2 : v2 = exp_acc(1, v1, x)    OBVIOUS
<1>3. PICK v3 : v3 = exp_acc(3, v2, v2)   OBVIOUS
<1>4. PICK v4 : v4 = exp_acc(6, v3, v3)   OBVIOUS
<1>5. PICK v5 : v5 = exp_acc(12, v4, v4)  OBVIOUS
<1>6. PICK v6 : v6 = exp_acc(6, v5, v3)   OBVIOUS
<1>7. PICK v7 : v7 = exp_acc(1, v6, x)    OBVIOUS
<1>8. PICK v8 : v8 = exp_acc(32, v7, v7)  OBVIOUS
<1>9. PICK v9 : v9 = exp_acc(1, v8, x)    OBVIOUS
<1> DEFINE f == [k \in 0 .. 9 |->
                   IF k = 0 THEN x ELSE IF k = 1 THEN v1 ELSE IF k = 2 THEN v2
                   ELSE IF k = 3 THEN v3 ELSE IF k = 4 THEN v4 ELSE IF k = 5 THEN v5
                   ELSE IF k = 6 THEN v6 ELSE IF k = 7 THEN v7 ELSE IF k = 8 THEN v8
                   ELSE v9]
           Step(g) == [k \in 0 .. Len(InverseChain) |->
                         IF k = 0 THEN x
                         ELSE LET call == InverseChain[k]
                              IN  exp_acc(call[1], g[call[2]], g[call[3]])]
<1>10. /\ f[0] = x /\ f[1] = v1 /\ f[2] = v2 /\ f[3] = v3 /\ f[4] = v4
       /\ f[5] = v5 /\ f[6] = v6 /\ f[7] = v7 /\ f[8] = v8 /\ f[9] = v9
  OBVIOUS
<1>11. f = [k \in 0 .. 9 |-> f[k]]
  OBVIOUS
<1> HIDE DEF f
<1>12. ASSUME NEW k \in 0 .. 9
       PROVE  f[k] = IF k = 0 THEN x
                     ELSE exp_acc(InverseChain[k][1], f[InverseChain[k][2]],
                                  f[InverseChain[k][3]])
  <2>1. \/ k = 0 \/ k = 1 \/ k = 2 \/ k = 3 \/ k = 4
        \/ k = 5 \/ k = 6 \/ k = 7 \/ k = 8 \/ k = 9
    OBVIOUS
  <2>2. CASE k = 0  BY <1>10, <2>2
  <2>3. CASE k = 1  BY <1>1, <1>10, <2>3, ChainIs
  <2>4. CASE k = 2  BY <1>2, <1>10, <2>4, ChainIs
  <2>5. CASE k = 3  BY <1>3, <1>10, <2>5, ChainIs
  <2>6. CASE k = 4  BY <1>4, <1>10, <2>6, ChainIs
  <2>7. CASE k = 5  BY <1>5, <1>10, <2>7, ChainIs
  <2>8. CASE k = 6  BY <1>6, <1>10, <2>8, ChainIs
  <2>9. CASE k = 7  BY <1>7, <1>10, <2>9, ChainIs
  <2>10. CASE k = 8  BY <1>8, <1>10, <2>10, ChainIs
  <2>11. CASE k = 9  BY <1>9, <1>10, <2>11, ChainIs
  <2> QED BY <2>1, <2>2, <2>3, <2>4, <2>5, <2>6, <2>7, <2>8, <2>9, <2>10, <2>11
<1>13. f = Step(f)
  BY <1>11, <1>12, ChainIs
<1>14. Temporaries(x) = Step(Temporaries(x))
  BY <1>13 DEF Temporaries
<1> QED BY <1>14, ChainIs

\* inverse is the last of them; of a reduced word it is reduced, and zero of
\* zero.
LEMMA InverseIsLast ==
  ASSUME NEW x \in Canonical
  PROVE  /\ inverse[x] = Temporaries(x)[9]
         /\ \A k \in 1 .. 9 : Temporaries(x)[k] \in Canonical
         /\ inverse[x] \in Canonical
         /\ x = 0 => inverse[x] = 0
<1>1. Canonical \subseteq Words
  BY Sizes DEF Words, Canonical
<1>2. inverse[x] = Temporaries(x)[9]
  BY <1>1, ChainIs DEF inverse, Temporaries
<1>3. PICK T : T = Temporaries(x)
  OBVIOUS
<1>4. /\ T[0] = x /\ T[1] = exp_acc(1, x, x) /\ T[2] = exp_acc(1, T[1], x)
      /\ T[3] = exp_acc(3, T[2], T[2]) /\ T[4] = exp_acc(6, T[3], T[3])
      /\ T[5] = exp_acc(12, T[4], T[4]) /\ T[6] = exp_acc(6, T[5], T[3])
      /\ T[7] = exp_acc(1, T[6], x) /\ T[8] = exp_acc(32, T[7], T[7])
      /\ T[9] = exp_acc(1, T[8], x)
  BY <1>3, ChainIs, TemporariesAre
<1>5. ASSUME NEW n \in {1, 3, 6, 12, 32}, NEW y \in Words, NEW z \in Words
      PROVE  exp_acc(n, y, z) \in Canonical /\ exp_acc(n, y, z) \in Words
  <2>1. n \in Nat
    OBVIOUS
  <2> QED BY <1>1, <2>1, PowersAreCanonical
<1>6. /\ T[1] \in Canonical /\ T[2] \in Canonical /\ T[3] \in Canonical
      /\ T[4] \in Canonical /\ T[5] \in Canonical /\ T[6] \in Canonical
      /\ T[7] \in Canonical /\ T[8] \in Canonical /\ T[9] \in Canonical
  <2>1. x \in Words
    BY <1>1
  <2>2. T[1] \in Canonical /\ T[1] \in Words  BY <1>4, <1>5, <2>1
  <2>3. T[2] \in Canonical /\ T[2] \in Words  BY <1>4, <1>5, <2>1, <2>2
  <2>4. T[3] \in Canonical /\ T[3] \in Words  BY <1>4, <1>5, <2>3
  <2>5. T[4] \in Canonical /\ T[4] \in Words  BY <1>4, <1>5, <2>4
  <2>6. T[5] \in Canonical /\ T[5] \in Words  BY <1>4, <1>5, <2>5
  <2>7. T[6] \in Canonical /\ T[6] \in Words  BY <1>4, <1>5, <2>6, <2>4
  <2>8. T[7] \in Canonical /\ T[7] \in Words  BY <1>4, <1>5, <2>1, <2>7
  <2>9. T[8] \in Canonical /\ T[8] \in Words  BY <1>4, <1>5, <2>8
  <2>10. T[9] \in Canonical  BY <1>4, <1>5, <2>1, <2>9
  <2> QED BY <2>2, <2>3, <2>4, <2>5, <2>6, <2>7, <2>8, <2>9, <2>10
<1>7. x = 0 => T[9] = 0
  BY <1>1, <1>4, <1>6, PowersAreCanonical
<1>8. ASSUME NEW k \in 1 .. 9
      PROVE  T[k] \in Canonical
  <2>1. \/ k = 1 \/ k = 2 \/ k = 3 \/ k = 4
        \/ k = 5 \/ k = 6 \/ k = 7 \/ k = 8 \/ k = 9
    OBVIOUS
  <2> QED BY <1>6, <2>1
<1> QED BY <1>2, <1>3, <1>6, <1>7, <1>8

\* Zero is its own inverse here, and another reduced word has one inverse.
LEMMA InverseIsOfField ==
  ASSUME NEW x \in Canonical, InverseInverts
  PROVE  inverse[x] = FieldInverse(x) /\ inverse[x] \in Canonical
<1> DEFINE P == GOLDILOCKS_PRIME
<1>1. P \in Nat \ {0} /\ x \in Int
  BY Sizes DEF Canonical
<1>2. inverse[x] \in Canonical /\ (x = 0 => inverse[x] = 0)
  BY InverseIsLast
<1>3. CASE x = 0
  BY <1>2, <1>3 DEF FieldInverse
<1>4. CASE x # 0
  <2>1. (inverse[x] * x) % P = 1
    BY <1>4 DEF InverseInverts
  <2>2. PICK i, j : i = inverse[x] /\ j = FieldInverse(x)
    OBVIOUS
  <2>3. i \in Canonical /\ (i * x) % P = 1
    BY <1>2, <2>1, <2>2
  <2>4. j \in Canonical /\ (j * x) % P = 1
    BY <1>4, <2>2, <2>3 DEF FieldInverse
  <2>5. i \in 0 .. P - 1 /\ j \in 0 .. P - 1
    BY <2>3, <2>4 DEF Canonical
  <2> HIDE DEF P
  <2>6. PICK q \in Int : i * x = q * P + 1
    <3>1. PICK y : y = i * x
      OBVIOUS
    <3>2. y \in Int /\ y % P = 1
      BY <1>1, <2>3, <2>5, <3>1 DEF P
    <3>3. y \div P \in Int /\ y = (y \div P) * P + 1
      BY <1>1, <3>2, QuotientRemainder
    <3> QED BY <3>1, <3>3
  <2>7. PICK s \in Int : j * x = s * P + 1
    <3>1. PICK y : y = j * x
      OBVIOUS
    <3>2. y \in Int /\ y % P = 1
      BY <1>1, <2>4, <2>5, <3>1 DEF P
    <3>3. y \div P \in Int /\ y = (y \div P) * P + 1
      BY <1>1, <3>2, QuotientRemainder
    <3> QED BY <3>1, <3>3
  <2>8. i + (i * s) * P = j + (j * q) * P
    <3>1. i * (j * x) = j * (i * x)
      BY <1>1, <2>5
    <3>2. i * (s * P + 1) = i + (i * s) * P
      BY <1>1, <2>5
    <3>3. j * (q * P + 1) = j + (j * q) * P
      BY <1>1, <2>5
    <3> QED BY <2>6, <2>7, <3>1, <3>2, <3>3
  <2>9. i % P = j % P
    <3>1. i * s \in Int /\ j * q \in Int /\ i \in Int /\ j \in Int
      BY <2>5
    <3>2. \A k \in Int : (i + k * P) % P = i % P
      BY <1>1, <3>1, SameRemainder
    <3>3. \A k \in Int : (j + k * P) % P = j % P
      BY <1>1, <3>1, SameRemainder
    <3> QED BY <2>8, <3>1, <3>2, <3>3
  <2>10. \A r \in 0 .. P - 1 : r % P = r
    <3>1. \A r \in 0 .. P - 1 : r = 0 * P + r
      BY <1>1
    <3> QED BY <1>1, <3>1, Remainder
  <2> QED BY <1>2, <2>2, <2>5, <2>9, <2>10
<1> QED BY <1>3, <1>4

-----------------------------------------------------------------------------
(* The register                                                            *)

\* The register is reduced, and so stands for its own value; the temporaries
\* of a call of inverse are those of that value.
RegisterOK ==
  /\ inner \in Canonical
  /\ residue = inner
  /\ t \in Seq(Canonical) /\ Len(t) <= 9
  /\ \A k \in 1 .. Len(t) : t[k] = Temporaries(inner)[k]

\* A reduced word is its own residue.
LEMMA CanonicalIsResidue ==
  ASSUME NEW x \in Canonical
  PROVE  x % GOLDILOCKS_PRIME = x /\ x \in Words /\ x \in Int
<1>1. x = 0 * GOLDILOCKS_PRIME + x /\ GOLDILOCKS_PRIME \in Nat \ {0}
  BY Sizes DEF Canonical
<1>2. x \in 0 .. GOLDILOCKS_PRIME - 1
  BY DEF Canonical
<1>3. x % GOLDILOCKS_PRIME = x
  BY <1>1, <1>2, Remainder
<1> QED BY <1>3, Sizes DEF Canonical, Words

\* A product of residues has the residue of the product.
LEMMA ProductOfResidues ==
  ASSUME NEW p \in Nat \ {0}, NEW x \in Int, NEW y \in Int
  PROVE  ((x % p) * y) % p = (x * y) % p
<1>1. PICK q, r : q = x \div p /\ r = x % p
  OBVIOUS
<1>2. q \in Int /\ r \in Int /\ x = q * p + r
  BY <1>1, QuotientRemainder
<1>3. x * y = r * y + (q * y) * p
  BY <1>2
<1>4. r * y \in Int /\ q * y \in Int
  BY <1>2
<1>5. PICK small, k \in Int : small = r * y /\ k = q * y
  BY <1>4
<1>6. (small + k * p) % p = small % p
  BY SameRemainder
<1> QED BY <1>1, <1>3, <1>5, <1>6

\* Felt::pow7: the seventh power in the field, of a reduced word.
LEMMA SeventhIsOfField ==
  ASSUME NEW x \in Canonical
  PROVE  LET P == GOLDILOCKS_PRIME
             cube == (x * x * x) % P
         IN  pow7(x) = (((cube * cube) % P) * x) % P /\ pow7(x) \in Canonical
<1> DEFINE P == GOLDILOCKS_PRIME
<1>1. P \in Nat \ {0} /\ x \in Int
  BY Sizes DEF Canonical
<1>2. \A y \in Canonical : y \in Words /\ y \in Int
  BY CanonicalIsResidue
<1>3. \A y, z \in Canonical : mul(y, z) = (y * z) % P /\ mul(y, z) \in Canonical
  BY <1>2, MulIsOfField
<1>4. PICK t2, t4, t6, t7 : /\ t2 = mul(x, x) /\ t4 = mul(t2, t2)
                            /\ t6 = mul(t4, t2) /\ t7 = mul(t6, x)
  OBVIOUS
<1>5. /\ t2 \in Canonical /\ t4 \in Canonical /\ t6 \in Canonical /\ t7 \in Canonical
      /\ t2 = (x * x) % P /\ t4 = (t2 * t2) % P
      /\ t6 = (t4 * t2) % P /\ t7 = (t6 * x) % P
  BY <1>3, <1>4
<1> HIDE DEF P
<1>6. \A y, z \in Int : ((y % P) * z) % P = (y * z) % P
  BY <1>1, ProductOfResidues
<1>7. PICK s : s = x * x
  OBVIOUS
<1>8. s \in Int
  BY <1>1, <1>7
<1>9. t6 = (s * s * s) % P
  <2>1. t2 \in Int /\ t2 = s % P /\ t2 * t2 \in Int
    BY <1>2, <1>5, <1>7
  <2>2. t6 = ((t2 * t2) * t2) % P
    BY <1>5, <1>6, <2>1
  <2>3. (t2 * t2) * t2 = t2 * (t2 * t2) /\ t2 * (s * t2) = t2 * (s * t2)
    BY <2>1
  <2>4. (t2 * (t2 * t2)) % P = (s * (t2 * t2)) % P
    BY <1>6, <1>8, <2>1
  <2>5. s * (t2 * t2) = t2 * (s * t2) /\ s * t2 \in Int
    BY <1>8, <2>1
  <2>6. (t2 * (s * t2)) % P = (s * (s * t2)) % P
    BY <1>6, <1>8, <2>1, <2>5
  <2>7. s * (s * t2) = t2 * (s * s) /\ s * s \in Int
    BY <1>8, <2>1
  <2>8. (t2 * (s * s)) % P = (s * (s * s)) % P
    BY <1>6, <1>8, <2>1, <2>7
  <2>9. s * (s * s) = s * s * s
    BY <1>8
  <2> QED BY <2>2, <2>3, <2>4, <2>5, <2>6, <2>7, <2>8, <2>9
<1>10. PICK c, d : c = (x * x * x) % P /\ d = x * x * x
  OBVIOUS
<1>11. (c * c) % P = t6
  <2>1. c \in Int /\ d \in Int /\ c = d % P
    <3>1. d \in Int
      BY <1>1, <1>10
    <3> QED BY <1>1, <1>10, <3>1, QuotientRemainder
  <2>2. (c * c) % P = (d * c) % P
    BY <1>6, <2>1
  <2>3. d * c = c * d
    BY <2>1
  <2>4. (c * d) % P = (d * d) % P
    BY <1>6, <2>1
  <2>5. d * d = s * s * s
    BY <1>1, <1>7, <1>10
  <2> QED BY <1>9, <2>2, <2>3, <2>4, <2>5
<1>12. pow7(x) = t7
  BY <1>4 DEF pow7
<1> QED BY <1>5, <1>10, <1>11, <1>12 DEF P

\* A call of exp_acc in inverse takes the element or an earlier result.
LEMMA ChainIsOrdered ==
  ASSUME NEW k \in 1 .. 9
  PROVE  InverseChain[k][2] \in 0 .. k - 1 /\ InverseChain[k][3] \in 0 .. k - 1
<1>1. \/ k = 1 \/ k = 2 \/ k = 3 \/ k = 4
      \/ k = 5 \/ k = 6 \/ k = 7 \/ k = 8 \/ k = 9
  OBVIOUS
<1> QED BY <1>1, ChainIs

\* The initial register is a reduced word.
LEMMA RegisterInitOK ==
  ASSUME Values \subseteq Canonical, RegisterInit
  PROVE  RegisterOK
<1>1. inner \in Canonical /\ residue = inner
  BY CanonicalIsResidue DEF RegisterInit, Residue
<1> QED BY <1>1 DEF RegisterInit, RegisterOK

\* A Felt assigned a reduced word is one, with no call of inverse in progress.
LEMMA Assigned ==
  ASSUME NEW word \in Canonical, NEW element,
         word = element % GOLDILOCKS_PRIME, Assign(word, element)
  PROVE  RegisterOK'
<1>1. inner' = word /\ residue' = word /\ t' = <<>>
  BY DEF Assign
<1> QED BY <1>1 DEF RegisterOK

\* Every operator keeps the register reduced.
LEMMA RegisterStep ==
  ASSUME Values \subseteq Canonical, InverseInverts,
         RegisterOK, [RegisterNext]_registerVars
  PROVE  RegisterOK'
<1>1. inner \in Canonical /\ residue = inner /\ inner \in Words /\ inner \in Int
  BY CanonicalIsResidue DEF RegisterOK
<1>2. \A v \in Values : /\ v \in Canonical /\ v \in Words /\ v \in Int
                        /\ Residue(v) = v
  BY CanonicalIsResidue DEF Residue
<1>3. ASSUME NEW v \in Values, plus(v)
      PROVE  RegisterOK'
  <2>1. Assign(add(inner, v), inner + v)
    BY <1>1, <1>2, <1>3 DEF plus
  <2>2. add(inner, v) = (inner + v) % GOLDILOCKS_PRIME /\ add(inner, v) \in Canonical
    BY <1>1, <1>2, AddIsOfField
  <2> QED BY <2>1, <2>2, Assigned
<1>4. ASSUME NEW v \in Values, minus(v)
      PROVE  RegisterOK'
  <2>1. Assign(sub(inner, v), inner - v)
    BY <1>1, <1>2, <1>4 DEF minus
  <2>2. sub(inner, v) = (inner - v) % GOLDILOCKS_PRIME /\ sub(inner, v) \in Canonical
    BY <1>1, <1>2, SubIsOfField
  <2> QED BY <2>1, <2>2, Assigned
<1>5. ASSUME NEW v \in Values, times(v)
      PROVE  RegisterOK'
  <2>1. Assign(mul(inner, v), inner * v)
    BY <1>1, <1>2, <1>5 DEF times
  <2>2. mul(inner, v) = (inner * v) % GOLDILOCKS_PRIME /\ mul(inner, v) \in Canonical
    BY <1>1, <1>2, MulIsOfField
  <2> QED BY <2>1, <2>2, Assigned
<1>6. ASSUME NEW v \in Values, divided(v)
      PROVE  RegisterOK'
  <2>1. inverse[v] = FieldInverse(v) /\ inverse[v] \in Words
    BY <1>2, InverseIsOfField, CanonicalIsResidue
  <2>2. Assign(mul(inner, inverse[v]), inner * inverse[v])
    BY <1>1, <1>2, <1>6, <2>1 DEF divided
  <2>3. /\ mul(inner, inverse[v]) = (inner * inverse[v]) % GOLDILOCKS_PRIME
        /\ mul(inner, inverse[v]) \in Canonical
    BY <1>1, <2>1, MulIsOfField
  <2> QED BY <2>2, <2>3, Assigned
<1>7. ASSUME seventh
      PROVE  RegisterOK'
  <2>1. PICK cube : cube = (inner * inner * inner) % GOLDILOCKS_PRIME
    OBVIOUS
  <2>2. Assign(pow7(inner), ((cube * cube) % GOLDILOCKS_PRIME) * inner)
    BY <1>1, <1>7, <2>1 DEF seventh
  <2>3. /\ pow7(inner) = (((cube * cube) % GOLDILOCKS_PRIME) * inner) % GOLDILOCKS_PRIME
        /\ pow7(inner) \in Canonical
    BY <1>1, <2>1, SeventhIsOfField
  <2> QED BY <2>2, <2>3, Assigned
<1>8. ASSUME next_power
      PROVE  RegisterOK'
  <2>1. PICK n : n = Len(t)
    OBVIOUS
  <2>2. n \in 0 .. 8 /\ n + 1 \in 1 .. 9
    <3>1. Len(t) \in Nat
      BY DEF RegisterOK
    <3>2. Len(t) < 9
      BY <1>8, ChainIs DEF next_power
    <3>3. n \in Nat /\ n < 9
      BY <2>1, <3>1, <3>2
    <3> QED BY <3>3
  <2>3. \A k \in 0 .. n : Value(k) = Temporaries(inner)[k]
    <3>1. Value(0) = Temporaries(inner)[0]
      BY TemporariesAre DEF Value
    <3>2. \A k \in 1 .. n : Value(k) = t[k] /\ t[k] = Temporaries(inner)[k]
      BY <2>1, <2>2 DEF Value, RegisterOK
    <3> QED BY <2>2, <3>1, <3>2
  <2>4. PICK i, j, m : /\ i = InverseChain[n + 1][2] /\ j = InverseChain[n + 1][3]
                       /\ m = InverseChain[n + 1][1]
    OBVIOUS
  <2>5. i \in 0 .. n /\ j \in 0 .. n
    BY <2>2, <2>4, ChainIsOrdered
  <2>6. PICK e : e = exp_acc(m, Value(i), Value(j))
    OBVIOUS
  <2>7. e = Temporaries(inner)[n + 1]
    BY <2>2, <2>3, <2>4, <2>5, <2>6, TemporariesAre
  <2>8. e \in Canonical
    BY <1>1, <2>2, <2>7, InverseIsLast
  <2>9. t' = Append(t, e) /\ inner' = inner /\ residue' = residue
    BY <1>8, <2>1, <2>4, <2>6 DEF next_power
  <2>10. /\ t' \in Seq(Canonical) /\ Len(t') = n + 1
         /\ \A k \in 1 .. n + 1 : t'[k] = IF k = n + 1 THEN e ELSE t[k]
    BY <2>1, <2>2, <2>8, <2>9 DEF RegisterOK
  <2>11. ASSUME NEW k \in 1 .. n + 1
         PROVE  t'[k] = Temporaries(inner)[k]
    <3>1. k # n + 1 => k \in 1 .. Len(t)
      BY <2>1, <2>2
    <3> QED BY <2>7, <2>10, <3>1 DEF RegisterOK
  <2> QED BY <1>1, <2>2, <2>9, <2>10, <2>11 DEF RegisterOK
<1>9. ASSUME inverted
      PROVE  RegisterOK'
  <2>1. Len(t) = 9 /\ Assign(t[9], FieldInverse(inner))
    BY <1>1, <1>9, ChainIs DEF inverted
  <2>2. t[9] = inverse[inner]
    BY <1>1, <2>1, InverseIsLast DEF RegisterOK
  <2>3. inverse[inner] = FieldInverse(inner) /\ inverse[inner] \in Canonical
    BY <1>1, InverseIsOfField
  <2>4. FieldInverse(inner) % GOLDILOCKS_PRIME = FieldInverse(inner)
    BY <2>3, CanonicalIsResidue
  <2> QED BY <2>1, <2>2, <2>3, <2>4, Assigned
<1>10. CASE UNCHANGED registerVars
  BY <1>10 DEF RegisterOK, registerVars
<1> QED BY <1>3, <1>4, <1>5, <1>6, <1>7, <1>8, <1>9, <1>10 DEF RegisterNext

\* "Prime field" (goldilocks_field.h:27): whatever operators a Felt of a
\* reduced word goes through, in any order and number, it stands for the
\* element they compute.
THEOREM FeltIsPrimeField ==
  ASSUME Values \subseteq Canonical, InverseInverts
  PROVE  RegisterSpec => []PrimeField
<1>1. RegisterInit => RegisterOK
  BY RegisterInitOK
<1>2. RegisterOK /\ [RegisterNext]_registerVars => RegisterOK'
  BY RegisterStep
<1>3. RegisterOK => PrimeField
  BY CanonicalIsResidue DEF RegisterOK, PrimeField, Residue
<1> QED BY <1>1, <1>2, <1>3, PTL DEF RegisterSpec

\* It stays reduced, so that operator==, which compares words, compares the
\* elements (goldilocks_field.h:52).
THEOREM FeltEqualityIsOfElements ==
  ASSUME Values \subseteq Canonical, InverseInverts
  PROVE  RegisterSpec => []EqualityIsOfElements
<1>1. RegisterInit => RegisterOK
  BY RegisterInitOK
<1>2. RegisterOK /\ [RegisterNext]_registerVars => RegisterOK'
  BY RegisterStep
<1>3. RegisterOK => EqualityIsOfElements
  <2>1. \A v \in Values : Residue(v) = v
    BY CanonicalIsResidue DEF Residue
  <2> QED BY <2>1 DEF RegisterOK, EqualityIsOfElements, eq
<1> QED BY <1>1, <1>2, <1>3, PTL DEF RegisterSpec

-----------------------------------------------------------------------------
(* Powers in the field                                                     *)

Times(x, y) == (x * y) % GOLDILOCKS_PRIME

\* The reduced words are a commutative monoid.
LEMMA FieldTimes ==
  /\ 1 \in Canonical
  /\ \A x \in Canonical : Times(1, x) = x
  /\ \A x, y \in Canonical :
       /\ Times(x, y) \in Canonical /\ Times(x, y) = Times(y, x)
       /\ mul(x, y) = Times(x, y)
  /\ \A x, y, z \in Canonical : Times(Times(x, y), z) = Times(x, Times(y, z))
<1>1. /\ GOLDILOCKS_PRIME \in Nat \ {0} /\ 1 \in Canonical
      /\ \A x \in Canonical : x \in Int /\ x \in Words
  BY Sizes, CanonicalIsResidue DEF Canonical
<1>2. ASSUME NEW x \in Canonical
      PROVE  Times(1, x) = x
  <2>1. 1 * x = x
    BY <1>1
  <2> QED BY <2>1, CanonicalIsResidue DEF Times
<1>3. ASSUME NEW x \in Canonical, NEW y \in Canonical
      PROVE  /\ Times(x, y) \in Canonical /\ Times(x, y) = Times(y, x)
             /\ mul(x, y) = Times(x, y)
  <2>1. mul(x, y) = Times(x, y) /\ mul(x, y) \in Canonical
    BY <1>1, MulIsOfField DEF Times
  <2>2. x * y = y * x
    BY <1>1
  <2> QED BY <2>1, <2>2 DEF Times
<1>4. ASSUME NEW x \in Canonical, NEW y \in Canonical, NEW z \in Canonical
      PROVE  Times(Times(x, y), z) = Times(x, Times(y, z))
  <2>1. x \in Int /\ y \in Int /\ z \in Int
    BY <1>1
  <2>2. PICK p, q : p = x * y /\ q = y * z
    OBVIOUS
  <2>3. p \in Int /\ q \in Int /\ p * z = q * x
    BY <2>1, <2>2
  <2>4. Times(Times(x, y), z) = (p * z) % GOLDILOCKS_PRIME
    BY <1>1, <2>1, <2>2, <2>3, ProductOfResidues DEF Times
  <2>5. Times(Times(y, z), x) = (q * x) % GOLDILOCKS_PRIME
    BY <1>1, <2>1, <2>2, <2>3, ProductOfResidues DEF Times
  <2>6. Times(Times(y, z), x) = Times(x, Times(y, z))
    BY <1>3
  <2> QED BY <2>3, <2>4, <2>5, <2>6
<1> QED BY <1>1, <1>2, <1>3, <1>4

\* So products of two pairs can be taken in another order.
LEMMA TimesOfPairs ==
  ASSUME NEW a \in Canonical, NEW b \in Canonical, NEW c \in Canonical, NEW d \in Canonical
  PROVE  Times(Times(a, b), Times(c, d)) = Times(Times(a, c), Times(b, d))
<1>1. Times(a, b) \in Canonical /\ Times(a, c) \in Canonical
      /\ Times(b, d) \in Canonical /\ Times(c, d) \in Canonical
  BY FieldTimes
<1>2. Times(Times(a, b), Times(c, d)) = Times(a, Times(b, Times(c, d)))
  BY <1>1, FieldTimes
<1>3. Times(b, Times(c, d)) = Times(Times(b, c), d)
  BY FieldTimes
<1>4. Times(Times(b, c), d) = Times(Times(c, b), d)
  BY FieldTimes
<1>5. Times(Times(c, b), d) = Times(c, Times(b, d))
  BY FieldTimes
<1>6. Times(a, Times(c, Times(b, d))) = Times(Times(a, c), Times(b, d))
  BY <1>1, FieldTimes
<1> QED BY <1>2, <1>3, <1>4, <1>5, <1>6

\* f is the function of this recursion.
Recurs(f, n, e, F) == f = [i \in 0 .. n |-> IF i = 0 THEN e ELSE F[i][f[i - 1]]]

\* A recursion over 0 .. n in a set has a solution,
LEMMA RecursionExists ==
  ASSUME NEW n \in Nat, NEW V, NEW e \in V, NEW F \in [1 .. n -> [V -> V]]
  PROVE  \E f : Recurs(f, n, e, F)
<1> DEFINE G == [s \in (0 .. n) \X V |->
                   IF s[1] < n THEN <<s[1] + 1, F[s[1] + 1][s[2]]>> ELSE s]
           T == (0 .. n) \X V
<1>1. G \in [T -> T]
  <2>1. ASSUME NEW s \in T
        PROVE  (IF s[1] < n THEN <<s[1] + 1, F[s[1] + 1][s[2]]>> ELSE s) \in T
    <3>1. CASE s[1] < n
      <4>1. s[1] \in 0 .. n /\ s[2] \in V /\ s[1] + 1 \in 1 .. n
        BY <3>1
      <4>2. F[s[1] + 1] \in [V -> V]
        BY <4>1
      <4>3. F[s[1] + 1][s[2]] \in V
        BY <4>1, <4>2
      <4>4. s[1] + 1 \in 0 .. n
        BY <4>1
      <4> QED BY <3>1, <4>3, <4>4
    <3>2. CASE ~(s[1] < n)
      BY <3>2
    <3> QED BY <3>1, <3>2
  <2> QED BY <2>1
<1>2. <<0, e>> \in T
  OBVIOUS
<1>3. PICK g : AreIterates(g, n, T, G, <<0, e>>)
  <2> HIDE DEF G, T
  <2> QED BY <1>1, <1>2, IteratesExist
<1>4. g \in [0 .. n -> T] /\ \A i \in 0 .. n : g[i] = IF i = 0 THEN <<0, e>> ELSE G[g[i - 1]]
  BY <1>3 DEF AreIterates
<1>0. g[0] = <<0, e>> /\ g[0][1] = 0 /\ g[0][2] = e
  <2>1. 0 \in 0 .. n
    OBVIOUS
  <2>2. g[0] = <<0, e>>
    BY <1>4, <2>1, Zenon
  <2> QED BY <2>2
<1>5. \A i \in 0 .. n : g[i][1] = i
  <2> DEFINE B == {i \in 0 .. n : g[i][1] # i}
  <2>1. SUFFICES ASSUME B # {} PROVE FALSE
    OBVIOUS
  <2>2. PICK m \in B : \A y \in B : m <= y
    <3>1. B \in SUBSET Nat
      OBVIOUS
    <3> HIDE DEF B
    <3> QED BY <2>1, <3>1, LeastNatural
  <2>3. m \in 0 .. n /\ g[m][1] # m
    OBVIOUS
  <2>4. m # 0
    BY <1>0, <2>3
  <2>5. m - 1 \in 0 .. n /\ ~(m <= m - 1)
    BY <2>3, <2>4
  <2>6. g[m - 1][1] = m - 1 /\ g[m - 1] \in T
    BY <1>4, <2>2, <2>5
  <2>7. g[m] = G[g[m - 1]]
    BY <1>4, <2>3, <2>4
  <2>8. G[g[m - 1]] = <<g[m - 1][1] + 1, F[g[m - 1][1] + 1][g[m - 1][2]]>>
    BY <2>3, <2>6
  <2> QED BY <2>3, <2>6, <2>7, <2>8
<1> DEFINE f == [i \in 0 .. n |-> g[i][2]]
<1>6. ASSUME NEW i \in 0 .. n
      PROVE  f[i] = IF i = 0 THEN e ELSE F[i][f[i - 1]]
  <2>1. CASE i = 0
    BY <1>0, <2>1
  <2>2. CASE i # 0
    <3>1. i - 1 \in 0 .. n /\ i - 1 < n /\ i - 1 + 1 = i
      BY <2>2
    <3>2. g[i - 1][1] = i - 1 /\ g[i - 1] \in T
      BY <1>4, <1>5, <3>1
    <3>3. G[g[i - 1]] = <<i, F[i][g[i - 1][2]]>>
      BY <3>1, <3>2
    <3>4. g[i] = G[g[i - 1]]
      BY <1>4, <2>2
    <3>5. g[i][2] = F[i][g[i - 1][2]]
      <4>1. g[i] = <<i, F[i][g[i - 1][2]]>>
        BY <3>3, <3>4, Zenon
      <4> QED BY <4>1
    <3>6. f[i] = g[i][2] /\ f[i - 1] = g[i - 1][2]
      BY <3>1
    <3> HIDE DEF f
    <3> QED BY <2>2, <3>5, <3>6
  <2> QED BY <2>1, <2>2
<1>7. f = [i \in 0 .. n |-> f[i]]
  OBVIOUS
<1> HIDE DEF f
<1>8. Recurs(f, n, e, F)
  BY <1>6, <1>7 DEF Recurs
<1> QED BY <1>8

\* whose values are in that set.
LEMMA RecursionStays ==
  ASSUME NEW n \in Nat, NEW V, NEW e \in V, NEW F \in [1 .. n -> [V -> V]], NEW f,
         Recurs(f, n, e, F)
  PROVE  f \in [0 .. n -> V]
<1>1. /\ f = [i \in 0 .. n |-> f[i]]
      /\ \A i \in 0 .. n : f[i] = IF i = 0 THEN e ELSE F[i][f[i - 1]]
  BY DEF Recurs
<1> DEFINE B == {i \in 0 .. n : f[i] \notin V}
<1>2. B = {}
  <2>1. SUFFICES ASSUME B # {} PROVE FALSE
    OBVIOUS
  <2>2. PICK m \in B : \A y \in B : m <= y
    <3>1. B \in SUBSET Nat
      OBVIOUS
    <3> HIDE DEF B
    <3> QED BY <2>1, <3>1, LeastNatural
  <2>3. m \in 0 .. n /\ f[m] \notin V
    OBVIOUS
  <2>4. m # 0
    BY <1>1, <2>3
  <2>5. m - 1 \in 0 .. n /\ ~(m <= m - 1) /\ m \in 1 .. n
    BY <2>3, <2>4
  <2>6. f[m - 1] \in V
    BY <2>2, <2>5
  <2>7. F[m] \in [V -> V]
    BY <2>5
  <2>8. f[m] = F[m][f[m - 1]]
    BY <1>1, <2>3, <2>4
  <2> QED BY <2>3, <2>6, <2>7, <2>8
<1>3. f = [i \in 0 .. n |-> f[i]]
  BY <1>1
<1> QED BY <1>2, <1>3

-----------------------------------------------------------------------------

\* The squares of Power, and its products, whose last is the power.
Squares(x) ==
  LET square[i \in 0 .. 63] == IF i = 0 THEN x ELSE FieldSquare[square[i - 1]]
  IN  square

Products(x, bits) ==
  LET square[i \in 0 .. 63] == IF i = 0 THEN x ELSE FieldSquare[square[i - 1]]
      low[i \in 0 .. 64] ==
        IF i = 0 THEN 1
        ELSE IF i - 1 \in bits THEN (low[i - 1] * square[i - 1]) % GOLDILOCKS_PRIME
        ELSE low[i - 1]
  IN  low

LEMMA SquaresAre ==
  ASSUME NEW x \in Canonical
  PROVE  /\ Squares(x) \in [0 .. 63 -> Canonical] /\ Squares(x)[0] = x
         /\ \A i \in 1 .. 63 : Squares(x)[i] = Times(Squares(x)[i - 1], Squares(x)[i - 1])
<1> DEFINE F == [i \in 1 .. 63 |-> FieldSquare]
           Step(g) == [i \in 0 .. 63 |-> IF i = 0 THEN x ELSE FieldSquare[g[i - 1]]]
<1>1. FieldSquare \in [Canonical -> Canonical]
      /\ \A y \in Canonical : FieldSquare[y] = Times(y, y)
  BY FieldTimes DEF FieldSquare, Times
<1>2. PICK V : V = Canonical
  OBVIOUS
<1>3. F \in [1 .. 63 -> [V -> V]] /\ x \in V
  BY <1>1, <1>2
<1>4. \A i \in 1 .. 63 : F[i] = FieldSquare
  OBVIOUS
<1>a. PICK n, e : n = 63 /\ e = x /\ n \in Nat
  OBVIOUS
<1>b. e \in V /\ n \in Nat
  BY <1>3, <1>a
<1> HIDE DEF F
<1>5. ASSUME NEW g
      PROVE  [i \in 0 .. n |-> IF i = 0 THEN e ELSE F[i][g[i - 1]]] = Step(g)
  BY <1>4, <1>a
<1>c. F \in [1 .. n -> [V -> V]]
  BY <1>3, <1>a
<1>6. \E f : f = Step(f)
  <2>1. PICK f : Recurs(f, n, e, F)
    BY <1>b, <1>c, RecursionExists, Zenon
  <2>2. f = Step(f)
    BY <1>5, <2>1 DEF Recurs
  <2> QED BY <2>2
<1>7. Squares(x) = Step(Squares(x))
  BY <1>6 DEF Squares
<1>8. PICK f : f = Squares(x)
  OBVIOUS
<1>9. Recurs(f, n, e, F)
  <2>1. f = Step(f)
    BY <1>7, <1>8
  <2>2. [i \in 0 .. n |-> IF i = 0 THEN e ELSE F[i][f[i - 1]]] = Step(f)
    BY <1>5
  <2> HIDE DEF Step
  <2> QED BY <2>1, <2>2, Zenon DEF Recurs
<1>10. f \in [0 .. 63 -> V]
  <2>1. f \in [0 .. n -> V]
    BY <1>b, <1>c, <1>9, RecursionStays, Zenon
  <2> QED BY <1>a, <2>1
<1>11. f[0] = x /\ \A i \in 1 .. 63 : f[i] = FieldSquare[f[i - 1]]
  BY <1>7, <1>8
<1>12. ASSUME NEW i \in 1 .. 63
       PROVE  f[i] = Times(f[i - 1], f[i - 1])
  <2>1. f[i - 1] \in Canonical
    BY <1>2, <1>10
  <2> QED BY <1>1, <1>11, <2>1
<1> QED BY <1>2, <1>8, <1>10, <1>11, <1>12

LEMMA ProductsAre ==
  ASSUME NEW x \in Canonical, NEW bits
  PROVE  /\ Products(x, bits) \in [0 .. 64 -> Canonical] /\ Products(x, bits)[0] = 1
         /\ \A i \in 1 .. 64 : Products(x, bits)[i] =
              IF i - 1 \in bits THEN Times(Products(x, bits)[i - 1], Squares(x)[i - 1])
              ELSE Products(x, bits)[i - 1]
         /\ Power(x, bits) = Products(x, bits)[64]
<1>1. PICK S : S = Squares(x)
  OBVIOUS
<1>2. PICK V : V = Canonical
  OBVIOUS
<1>3. S \in [0 .. 63 -> V] /\ 1 \in V /\ \A y, z \in V : Times(y, z) \in V
  BY <1>1, <1>2, SquaresAre, FieldTimes
<1> DEFINE F == [i \in 1 .. 64 |->
                   [v \in V |-> IF i - 1 \in bits THEN Times(v, S[i - 1]) ELSE v]]
           Step(g) == [i \in 0 .. 64 |->
                         IF i = 0 THEN 1
                         ELSE IF i - 1 \in bits THEN (g[i - 1] * S[i - 1]) % GOLDILOCKS_PRIME
                         ELSE g[i - 1]]
<1>4. F \in [1 .. 64 -> [V -> V]]
  <2>1. ASSUME NEW i \in 1 .. 64, NEW v \in V
        PROVE  (IF i - 1 \in bits THEN Times(v, S[i - 1]) ELSE v) \in V
    <3>1. S[i - 1] \in V
      BY <1>3
    <3> QED BY <1>3, <3>1
  <2> QED BY <2>1
<1>5. \A i \in 1 .. 64, v \in V : F[i][v] = IF i - 1 \in bits THEN Times(v, S[i - 1]) ELSE v
  OBVIOUS
<1> HIDE DEF F
<1>a. PICK n, e : n = 64 /\ e = 1 /\ n \in Nat /\ e \in V
  BY <1>3
<1>b. F \in [1 .. n -> [V -> V]] /\ e \in V /\ n \in Nat
  BY <1>4, <1>a
<1>6. PICK f : Recurs(f, n, e, F)
  BY <1>b, RecursionExists, Zenon
<1>7. f \in [0 .. 64 -> V]
  <2>1. f \in [0 .. n -> V]
    BY <1>b, <1>6, RecursionStays, Zenon
  <2> QED BY <1>a, <2>1
<1>8. f[0] = 1 /\ \A i \in 1 .. 64 : f[i] = F[i][f[i - 1]]
  <2>1. \A i \in 0 .. 64 : f[i] = IF i = 0 THEN 1 ELSE F[i][f[i - 1]]
    BY <1>6, <1>a DEF Recurs
  <2> QED BY <2>1
<1>9. \A i \in 0 .. 64 : f[i] = Step(f)[i]
  <2>1. ASSUME NEW i \in 1 .. 64
        PROVE  f[i] = IF i - 1 \in bits THEN Times(f[i - 1], S[i - 1]) ELSE f[i - 1]
    <3>1. f[i - 1] \in V
      BY <1>7
    <3> QED BY <1>5, <1>8, <3>1
  <2> QED BY <1>8, <2>1 DEF Times
<1>10. f = Step(f)
  BY <1>7, <1>9
<1>11. Products(x, bits) = CHOOSE g : g = Step(g)
  BY <1>1 DEF Products, Squares
<1>12. PICK g : g = Products(x, bits)
  OBVIOUS
<1>13. g = Step(g)
  BY <1>10, <1>11, <1>12
<1>14. g[0] = 1 /\ \A i \in 1 .. 64 :
         g[i] = IF i - 1 \in bits THEN Times(g[i - 1], S[i - 1]) ELSE g[i - 1]
  BY <1>13 DEF Times
<1>15. \A i \in 0 .. 64 : g[i] \in V
  <2> DEFINE B == {i \in 0 .. 64 : g[i] \notin V}
  <2>1. SUFFICES ASSUME B # {} PROVE FALSE
    OBVIOUS
  <2>2. PICK m \in B : \A y \in B : m <= y
    <3>1. B \in SUBSET Nat
      OBVIOUS
    <3> HIDE DEF B
    <3> QED BY <2>1, <3>1, LeastNatural
  <2>3. m \in 0 .. 64 /\ g[m] \notin V
    OBVIOUS
  <2>4. m # 0
    BY <1>3, <1>14, <2>3
  <2>5. m - 1 \in 0 .. 63 /\ ~(m <= m - 1) /\ m \in 1 .. 64
    BY <2>3, <2>4
  <2>6. g[m - 1] \in V /\ S[m - 1] \in V
    BY <1>3, <2>2, <2>5
  <2> QED BY <1>3, <1>14, <2>3, <2>5, <2>6
<1>16. g \in [0 .. 64 -> V]
  <2>1. g = [i \in 0 .. 64 |-> g[i]]
    BY <1>13
  <2> QED BY <1>15, <2>1
<1>17. Power(x, bits) = g[64]
  BY <1>12 DEF Power, Products
<1> QED BY <1>1, <1>2, <1>12, <1>14, <1>16, <1>17

\* Exponents without a common bit are added by a product.
LEMMA PowerOfUnion ==
  ASSUME NEW x \in Canonical, NEW A, NEW B, A \cap B = {}
  PROVE  Power(x, A \cup B) = Times(Power(x, A), Power(x, B))
<1>1. PICK S, a, b, c : /\ S = Squares(x) /\ a = Products(x, A) /\ b = Products(x, B)
                        /\ c = Products(x, A \cup B)
  OBVIOUS
<1>2. \A i \in 1 .. 64 : S[i - 1] \in Canonical /\ a[i - 1] \in Canonical
                         /\ b[i - 1] \in Canonical
  <2>1. ASSUME NEW i \in 1 .. 64
        PROVE  i - 1 \in 0 .. 63 /\ i - 1 \in 0 .. 64
    OBVIOUS
  <2> QED BY <1>1, <2>1, SquaresAre, ProductsAre
<1>3. a[0] = 1 /\ b[0] = 1 /\ c[0] = 1
  BY <1>1, ProductsAre
<1>4. \A i \in 1 .. 64 :
        /\ a[i] = IF i - 1 \in A THEN Times(a[i - 1], S[i - 1]) ELSE a[i - 1]
        /\ b[i] = IF i - 1 \in B THEN Times(b[i - 1], S[i - 1]) ELSE b[i - 1]
        /\ c[i] = IF i - 1 \in A \cup B THEN Times(c[i - 1], S[i - 1]) ELSE c[i - 1]
  BY <1>1, ProductsAre
<1> DEFINE T == {i \in 0 .. 64 : c[i] # Times(a[i], b[i])}
<1>5. T = {}
  <2>1. SUFFICES ASSUME T # {} PROVE FALSE
    OBVIOUS
  <2>2. PICK m \in T : \A y \in T : m <= y
    <3>1. T \in SUBSET Nat
      OBVIOUS
    <3> HIDE DEF T
    <3> QED BY <2>1, <3>1, LeastNatural
  <2>3. m \in 0 .. 64 /\ c[m] # Times(a[m], b[m])
    OBVIOUS
  <2>4. m # 0
    BY <1>3, <2>3, FieldTimes
  <2>5. m \in 1 .. 64 /\ m - 1 \in 0 .. 64 /\ ~(m <= m - 1)
    BY <2>3, <2>4
  <2>6. c[m - 1] = Times(a[m - 1], b[m - 1])
    BY <2>2, <2>5
  <2>7. PICK p, q, u : p = a[m - 1] /\ q = b[m - 1] /\ u = S[m - 1]
    OBVIOUS
  <2>8. p \in Canonical /\ q \in Canonical /\ u \in Canonical
    BY <1>2, <2>5, <2>7
  <2>9. /\ Times(Times(p, q), u) = Times(p, Times(q, u))
        /\ Times(Times(p, q), u) = Times(Times(p, u), q)
    <3>1. /\ Times(Times(p, q), u) = Times(p, Times(q, u))
          /\ Times(q, u) = Times(u, q)
          /\ Times(Times(p, u), q) = Times(p, Times(u, q))
      BY <2>8, FieldTimes
    <3> QED BY <3>1
  <2>10. CASE m - 1 \in A
    <3>1. m - 1 \notin B
      BY <2>10
    <3> QED BY <1>4, <2>3, <2>5, <2>6, <2>7, <2>9, <2>10, <3>1
  <2>11. CASE m - 1 \in B
    <3>1. m - 1 \notin A
      BY <2>11
    <3> QED BY <1>4, <2>3, <2>5, <2>6, <2>7, <2>9, <2>11, <3>1
  <2>12. CASE m - 1 \notin A \cup B
    BY <1>4, <2>3, <2>5, <2>6, <2>7, <2>12
  <2> QED BY <2>10, <2>11, <2>12
<1>6. c[64] = Times(a[64], b[64])
  <2>1. 64 \in 0 .. 64
    OBVIOUS
  <2> QED BY <1>5, <2>1
<1> QED BY <1>1, <1>6, ProductsAre

\* Bits that move up a place are an exponent twice as large.
Up(bits, n) == {b + n : b \in bits}

LEMMA PowerOfDouble ==
  ASSUME NEW x \in Canonical, NEW A \in SUBSET (0 .. 62)
  PROVE  Power(x, Up(A, 1)) = Times(Power(x, A), Power(x, A))
<1>1. PICK S, a, c : S = Squares(x) /\ a = Products(x, A) /\ c = Products(x, Up(A, 1))
  OBVIOUS
<1>2. a \in [0 .. 64 -> Canonical] /\ S \in [0 .. 63 -> Canonical]
  BY <1>1, SquaresAre, ProductsAre
<1>3. a[0] = 1 /\ c[0] = 1 /\ \A i \in 1 .. 63 : S[i] = Times(S[i - 1], S[i - 1])
  BY <1>1, ProductsAre, SquaresAre
<1>4. \A i \in 1 .. 64 :
        /\ a[i] = IF i - 1 \in A THEN Times(a[i - 1], S[i - 1]) ELSE a[i - 1]
        /\ c[i] = IF i - 1 \in Up(A, 1) THEN Times(c[i - 1], S[i - 1]) ELSE c[i - 1]
  BY <1>1, ProductsAre
<1>5. \A i \in 0 .. 64 : i \in Up(A, 1) <=> i - 1 \in A
  <2>1. ASSUME NEW i \in 0 .. 64, i \in Up(A, 1)
        PROVE  i - 1 \in A
    <3>1. PICK b \in A : i = b + 1
      BY <2>1 DEF Up
    <3> QED BY <3>1
  <2>2. ASSUME NEW i \in 0 .. 64, i - 1 \in A
        PROVE  i \in Up(A, 1)
    <3>1. i = (i - 1) + 1
      OBVIOUS
    <3> QED BY <2>2, <3>1 DEF Up
  <2> QED BY <2>1, <2>2
<1> DEFINE T == {i \in 0 .. 63 : c[i + 1] # Times(a[i], a[i])}
<1>6. T = {}
  <2>1. SUFFICES ASSUME T # {} PROVE FALSE
    OBVIOUS
  <2>2. PICK m \in T : \A y \in T : m <= y
    <3>1. T \in SUBSET Nat
      OBVIOUS
    <3> HIDE DEF T
    <3> QED BY <2>1, <3>1, LeastNatural
  <2>3. m \in 0 .. 63 /\ c[m + 1] # Times(a[m], a[m])
    OBVIOUS
  <2>4. m # 0
    <3>1. c[1] = c[0]
      <4>1. 0 \notin Up(A, 1)
        BY <1>5
      <4>2. 1 \in 1 .. 64 /\ 1 - 1 = 0
        OBVIOUS
      <4> QED BY <1>4, <4>1, <4>2
    <3> QED BY <1>3, <2>3, <3>1, FieldTimes
  <2>5. m \in 1 .. 63 /\ m - 1 \in 0 .. 63 /\ ~(m <= m - 1) /\ m + 1 \in 1 .. 64
        /\ m - 1 + 1 = m /\ m + 1 - 1 = m
    BY <2>3, <2>4
  <2>6. c[m] = Times(a[m - 1], a[m - 1])
    BY <2>2, <2>5
  <2>7. PICK p, u : p = a[m - 1] /\ u = S[m - 1]
    OBVIOUS
  <2>8. p \in Canonical /\ u \in Canonical
    BY <1>2, <2>5, <2>7
  <2>9. Times(Times(p, p), Times(u, u)) = Times(Times(p, u), Times(p, u))
    BY <2>8, TimesOfPairs
  <2>10. S[m] = Times(u, u)
    BY <1>3, <2>5, <2>7
  <2>11. m \in Up(A, 1) <=> m - 1 \in A
    BY <1>5, <2>5
  <2>12. c[m + 1] = IF m \in Up(A, 1) THEN Times(c[m], S[m]) ELSE c[m]
    BY <1>4, <2>5
  <2>13. a[m] = IF m - 1 \in A THEN Times(p, u) ELSE p
    BY <1>4, <2>5, <2>7
  <2> QED BY <2>3, <2>6, <2>7, <2>9, <2>10, <2>11, <2>12, <2>13
<1>7. c[64] = Times(a[63], a[63])
  <2>1. 63 \in 0 .. 63 /\ 63 + 1 = 64
    OBVIOUS
  <2> QED BY <1>6, <2>1
<1>8. a[64] = a[63]
  <2>1. 64 \in 1 .. 64 /\ 64 - 1 = 63 /\ 63 \notin A
    OBVIOUS
  <2> QED BY <1>4, <2>1
<1> QED BY <1>1, <1>7, <1>8, ProductsAre

\* The first bit is the element's.
LEMMA PowerOfOne ==
  ASSUME NEW x \in Canonical
  PROVE  Power(x, {0}) = x
<1>1. PICK c : c = Products(x, {0})
  OBVIOUS
<1>2. c[0] = 1 /\ \A i \in 1 .. 64 :
        c[i] = IF i - 1 \in {0} THEN Times(c[i - 1], Squares(x)[i - 1]) ELSE c[i - 1]
  BY <1>1, ProductsAre
<1>3. c[1] = x
  <2>1. 1 \in 1 .. 64 /\ 1 - 1 = 0
    OBVIOUS
  <2>2. c[1] = Times(1, x)
    BY <1>2, <2>1, SquaresAre
  <2> QED BY <2>2, FieldTimes
<1> DEFINE T == {i \in 1 .. 64 : c[i] # x}
<1>4. T = {}
  <2>1. SUFFICES ASSUME T # {} PROVE FALSE
    OBVIOUS
  <2>2. PICK m \in T : \A y \in T : m <= y
    <3>1. T \in SUBSET Nat
      OBVIOUS
    <3> HIDE DEF T
    <3> QED BY <2>1, <3>1, LeastNatural
  <2>3. m \in 1 .. 64 /\ c[m] # x
    OBVIOUS
  <2>4. m # 1
    BY <1>3, <2>3
  <2>5. m - 1 \in 1 .. 64 /\ ~(m <= m - 1) /\ m - 1 # 0
    BY <2>3, <2>4
  <2>6. c[m - 1] = x
    BY <2>2, <2>5
  <2> QED BY <1>2, <2>3, <2>5, <2>6
<1>5. c[64] = x
  <2>1. 64 \in 1 .. 64
    OBVIOUS
  <2> QED BY <1>4, <2>1
<1> QED BY <1>1, <1>5, ProductsAre

\* A power is reduced.
LEMMA PowerIsCanonical ==
  ASSUME NEW x \in Canonical, NEW bits
  PROVE  Power(x, bits) \in Canonical
<1>1. 64 \in 0 .. 64
  OBVIOUS
<1> QED BY <1>1, ProductsAre

\* exp_acc of two powers is a power, when no bit moves out of 64 and no two meet.
LEMMA CallIsPower ==
  ASSUME NEW x \in Canonical, NEW n \in 0 .. 63, NEW A \in SUBSET (0 .. 63 - n), NEW B,
         Up(A, n) \cap B = {}
  PROVE  exp_acc(n, Power(x, A), Power(x, B)) = Power(x, Up(A, n) \cup B)
<1>1. PICK y, F : y = Power(x, A) /\ F = squared
  OBVIOUS
<1>2. \A z \in Canonical : F[z] = Times(z, z)
  <2>1. \A z \in Canonical : z \in Words
    BY CanonicalIsResidue
  <2> QED BY <1>1, <2>1, FieldTimes DEF squared
<1> DEFINE Step(f) == [i \in 0 .. n |-> IF i = 0 THEN y ELSE F[f[i - 1]]]
           g == [i \in 0 .. n |-> Power(x, Up(A, i))]
<1>3. Up(A, 0) = A
  <2>1. \A b \in A : b + 0 = b
    OBVIOUS
  <2> QED BY <2>1 DEF Up
<1>4. ASSUME NEW i \in 1 .. n
      PROVE  Power(x, Up(A, i)) = F[Power(x, Up(A, i - 1))]
  <2>1. Up(A, i - 1) \in SUBSET (0 .. 62)
    <3>1. \A b \in A : b + (i - 1) \in 0 .. 62
      OBVIOUS
    <3> QED BY <3>1 DEF Up
  <2>2. Up(Up(A, i - 1), 1) = Up(A, i)
    <3>1. ASSUME NEW b \in Up(A, i)
          PROVE  b \in Up(Up(A, i - 1), 1)
      <4>1. PICK a \in A : b = a + i
        BY DEF Up
      <4>2. b = (a + (i - 1)) + 1 /\ a + (i - 1) \in Up(A, i - 1)
        BY <4>1 DEF Up
      <4> QED BY <4>2 DEF Up
    <3>2. ASSUME NEW b \in Up(Up(A, i - 1), 1)
          PROVE  b \in Up(A, i)
      <4>1. PICK a \in A : b = (a + (i - 1)) + 1
        BY DEF Up
      <4>2. b = a + i
        BY <4>1
      <4> QED BY <4>2 DEF Up
    <3> QED BY <3>1, <3>2
  <2>3. Power(x, Up(A, i)) = Times(Power(x, Up(A, i - 1)), Power(x, Up(A, i - 1)))
    BY <2>1, <2>2, PowerOfDouble
  <2> QED BY <1>2, <2>3, PowerIsCanonical
<1>5. g = Step(g)
  <2>1. ASSUME NEW i \in 0 .. n
        PROVE  g[i] = IF i = 0 THEN y ELSE F[g[i - 1]]
    <3>1. CASE i = 0
      BY <1>1, <1>3, <3>1
    <3>2. CASE i # 0
      <4>1. i \in 1 .. n /\ i - 1 \in 0 .. n
        BY <3>2
      <4> QED BY <1>4, <3>2, <4>1
    <3> QED BY <3>1, <3>2
  <2>2. g = [i \in 0 .. n |-> g[i]]
    OBVIOUS
  <2> HIDE DEF g
  <2> QED BY <2>1, <2>2
<1> DEFINE square == CHOOSE f : f = Step(f)
<1>6. square = Step(square)
  BY <1>5
<1>7. exp_acc(n, y, Power(x, B)) = mul(square[n], Power(x, B))
  BY <1>1 DEF exp_acc
<1> HIDE DEF square
<1>8. \A i \in 0 .. n : square[i] = IF i = 0 THEN y ELSE F[square[i - 1]]
  BY <1>6
<1>9. \A i \in 0 .. n : square[i] = Power(x, Up(A, i))
  <2> DEFINE T == {i \in 0 .. n : square[i] # Power(x, Up(A, i))}
  <2>1. SUFFICES ASSUME T # {} PROVE FALSE
    OBVIOUS
  <2>2. PICK m \in T : \A z \in T : m <= z
    <3>1. T \in SUBSET Nat
      OBVIOUS
    <3> HIDE DEF T
    <3> QED BY <2>1, <3>1, LeastNatural
  <2>3. m \in 0 .. n /\ square[m] # Power(x, Up(A, m))
    OBVIOUS
  <2>4. m # 0
    BY <1>1, <1>3, <1>8, <2>3
  <2>5. m \in 1 .. n /\ m - 1 \in 0 .. n /\ ~(m <= m - 1)
    BY <2>3, <2>4
  <2>6. square[m - 1] = Power(x, Up(A, m - 1))
    BY <2>2, <2>5
  <2> QED BY <1>4, <1>8, <2>3, <2>4, <2>5, <2>6
<1>10. mul(square[n], Power(x, B)) = Times(Power(x, Up(A, n)), Power(x, B))
  <2>1. n \in 0 .. n
    OBVIOUS
  <2>2. square[n] = Power(x, Up(A, n))
    BY <1>9, <2>1
  <2> QED BY <2>2, FieldTimes, PowerIsCanonical
<1> QED BY <1>1, <1>7, <1>10, PowerOfUnion

\* The bits of the exponents in the chain: of 2^2 - 1, 2^3 - 1, 2^6 - 1, ...
ChainBits(k) ==
  CASE k = 0 -> {0}
    [] k = 1 -> 0 .. 1
    [] k = 2 -> 0 .. 2
    [] k = 3 -> 0 .. 5
    [] k = 4 -> 0 .. 11
    [] k = 5 -> 0 .. 23
    [] k = 6 -> 0 .. 29
    [] k = 7 -> 0 .. 30
    [] k = 8 -> (0 .. 62) \ {31}
    [] k = 9 -> (0 .. 63) \ {32}

LEMMA ChainBitsAre ==
  /\ ChainBits(0) = {0} /\ ChainBits(1) = 0 .. 1 /\ ChainBits(2) = 0 .. 2
  /\ ChainBits(3) = 0 .. 5 /\ ChainBits(4) = 0 .. 11 /\ ChainBits(5) = 0 .. 23
  /\ ChainBits(6) = 0 .. 29 /\ ChainBits(7) = 0 .. 30
  /\ ChainBits(8) = (0 .. 62) \ {31} /\ ChainBits(9) = (0 .. 63) \ {32}
BY DEF ChainBits

\* An interval moves up as one.
LEMMA UpOfInterval ==
  ASSUME NEW m \in Int, NEW n \in Int, NEW k \in Int, k = m + n
  PROVE  Up(0 .. m, n) = n .. k
<1>1. ASSUME NEW b \in n .. k
      PROVE  b \in Up(0 .. m, n)
  <2>1. b - n \in 0 .. m /\ b = (b - n) + n
    OBVIOUS
  <2> QED BY <2>1 DEF Up
<1>2. ASSUME NEW b \in Up(0 .. m, n)
      PROVE  b \in n .. k
  <2>1. PICK a \in 0 .. m : b = a + n
    BY DEF Up
  <2> QED BY <2>1
<1> QED BY <1>1, <1>2

\* Those of the chain.
LEMMA IntervalsUp ==
  /\ Up(0 .. 0, 1) = 1 .. 1
  /\ Up(0 .. 1, 1) = 1 .. 2
  /\ Up(0 .. 2, 3) = 3 .. 5
  /\ Up(0 .. 5, 6) = 6 .. 11
  /\ Up(0 .. 11, 12) = 12 .. 23
  /\ Up(0 .. 23, 6) = 6 .. 29
  /\ Up(0 .. 29, 1) = 1 .. 30
  /\ Up(0 .. 30, 32) = 32 .. 62
<1>1. Up(0 .. 0, 1) = 1 .. 1
  <2>1. 0 \in Int /\ 1 \in Int /\ 1 \in Int /\ 1 = 0 + 1
    OBVIOUS
  <2> QED BY <2>1, UpOfInterval, Zenon
<1>2. Up(0 .. 1, 1) = 1 .. 2
  <2>1. 1 \in Int /\ 1 \in Int /\ 2 \in Int /\ 2 = 1 + 1
    OBVIOUS
  <2> QED BY <2>1, UpOfInterval, Zenon
<1>3. Up(0 .. 2, 3) = 3 .. 5
  <2>1. 2 \in Int /\ 3 \in Int /\ 5 \in Int /\ 5 = 2 + 3
    OBVIOUS
  <2> QED BY <2>1, UpOfInterval, Zenon
<1>4. Up(0 .. 5, 6) = 6 .. 11
  <2>1. 5 \in Int /\ 6 \in Int /\ 11 \in Int /\ 11 = 5 + 6
    OBVIOUS
  <2> QED BY <2>1, UpOfInterval, Zenon
<1>5. Up(0 .. 11, 12) = 12 .. 23
  <2>1. 11 \in Int /\ 12 \in Int /\ 23 \in Int /\ 23 = 11 + 12
    OBVIOUS
  <2> QED BY <2>1, UpOfInterval, Zenon
<1>6. Up(0 .. 23, 6) = 6 .. 29
  <2>1. 23 \in Int /\ 6 \in Int /\ 29 \in Int /\ 29 = 23 + 6
    OBVIOUS
  <2> QED BY <2>1, UpOfInterval, Zenon
<1>7. Up(0 .. 29, 1) = 1 .. 30
  <2>1. 29 \in Int /\ 1 \in Int /\ 30 \in Int /\ 30 = 29 + 1
    OBVIOUS
  <2> QED BY <2>1, UpOfInterval, Zenon
<1>8. Up(0 .. 30, 32) = 32 .. 62
  <2>1. 30 \in Int /\ 32 \in Int /\ 62 \in Int /\ 62 = 30 + 32
    OBVIOUS
  <2> QED BY <2>1, UpOfInterval, Zenon
<1> QED BY <1>1, <1>2, <1>3, <1>4, <1>5, <1>6, <1>7, <1>8

\* Every call of the chain adds exponents without a common bit.
ChainAdds(k) ==
  LET call == InverseChain[k]
  IN  /\ call[1] \in 0 .. 63
      /\ ChainBits(call[2]) \in SUBSET (0 .. 63 - call[1])
      /\ Up(ChainBits(call[2]), call[1]) \cap ChainBits(call[3]) = {}
      /\ Up(ChainBits(call[2]), call[1]) \cup ChainBits(call[3]) = ChainBits(k)

LEMMA ChainAddsBits ==
  ASSUME NEW k \in 1 .. 9
  PROVE  ChainAdds(k)
<1>1. \/ k = 1 \/ k = 2 \/ k = 3 \/ k = 4
      \/ k = 5 \/ k = 6 \/ k = 7 \/ k = 8 \/ k = 9
  OBVIOUS
<1>2. CASE k = 1
  <2>1. Up(ChainBits(0), 1) = 1 .. 1
    <3>1. ChainBits(0) = 0 .. 0
      BY ChainBitsAre
    <3> QED BY <3>1, IntervalsUp
  <2> QED BY <1>2, <2>1, ChainIs, ChainBitsAre DEF ChainAdds
<1>3. CASE k = 2
  <2>1. Up(ChainBits(1), 1) = 1 .. 2
    BY ChainBitsAre, IntervalsUp
  <2> QED BY <1>3, <2>1, ChainIs, ChainBitsAre DEF ChainAdds
<1>4. CASE k = 3
  <2>1. Up(ChainBits(2), 3) = 3 .. 5
    BY ChainBitsAre, IntervalsUp
  <2> QED BY <1>4, <2>1, ChainIs, ChainBitsAre DEF ChainAdds
<1>5. CASE k = 4
  <2>1. Up(ChainBits(3), 6) = 6 .. 11
    BY ChainBitsAre, IntervalsUp
  <2> QED BY <1>5, <2>1, ChainIs, ChainBitsAre DEF ChainAdds
<1>6. CASE k = 5
  <2>1. Up(ChainBits(4), 12) = 12 .. 23
    BY ChainBitsAre, IntervalsUp
  <2> QED BY <1>6, <2>1, ChainIs, ChainBitsAre DEF ChainAdds
<1>7. CASE k = 6
  <2>1. Up(ChainBits(5), 6) = 6 .. 29
    BY ChainBitsAre, IntervalsUp
  <2> QED BY <1>7, <2>1, ChainIs, ChainBitsAre DEF ChainAdds
<1>8. CASE k = 7
  <2>1. Up(ChainBits(6), 1) = 1 .. 30
    BY ChainBitsAre, IntervalsUp
  <2> QED BY <1>8, <2>1, ChainIs, ChainBitsAre DEF ChainAdds
<1>9. CASE k = 8
  <2>1. Up(ChainBits(7), 32) = 32 .. 62
    BY ChainBitsAre, IntervalsUp
  <2> QED BY <1>9, <2>1, ChainIs, ChainBitsAre DEF ChainAdds
<1>10. CASE k = 9
  <2>1. Up(ChainBits(8), 1) = (1 .. 63) \ {32}
    <3>1. ASSUME NEW b \in (1 .. 63) \ {32}
          PROVE  b \in Up(ChainBits(8), 1)
      <4>1. b - 1 \in ChainBits(8) /\ b = (b - 1) + 1
        BY ChainBitsAre
      <4> QED BY <4>1 DEF Up
    <3>2. ASSUME NEW b \in Up(ChainBits(8), 1)
          PROVE  b \in (1 .. 63) \ {32}
      <4>1. PICK a \in ChainBits(8) : b = a + 1
        BY DEF Up
      <4> QED BY <4>1, ChainBitsAre
    <3> QED BY <3>1, <3>2
  <2> QED BY <1>10, <2>1, ChainIs, ChainBitsAre DEF ChainAdds
<1> QED BY <1>1, <1>2, <1>3, <1>4, <1>5, <1>6, <1>7, <1>8, <1>9, <1>10

\* So every temporary is the power its place says.
LEMMA TemporariesArePowersOf ==
  ASSUME NEW x \in Canonical
  PROVE  \A k \in 0 .. 9 : Temporaries(x)[k] = Power(x, ChainBits(k))
<1>1. PICK T : T = Temporaries(x)
  OBVIOUS
<1> DEFINE B == {k \in 0 .. 9 : T[k] # Power(x, ChainBits(k))}
<1>2. SUFFICES ASSUME B # {} PROVE FALSE
  BY <1>1
<1>3. PICK k \in B : \A y \in B : k <= y
  <2>1. B \in SUBSET Nat
    OBVIOUS
  <2> HIDE DEF B
  <2> QED BY <1>2, <2>1, LeastNatural
<1>4. k \in 0 .. 9 /\ T[k] # Power(x, ChainBits(k))
  OBVIOUS
<1>5. k # 0
  <2>1. T[0] = x
    BY <1>1, TemporariesAre
  <2> QED BY <1>4, <2>1, PowerOfOne, ChainBitsAre
<1>6. k \in 1 .. 9
  BY <1>4, <1>5
<1>7. PICK n, i, j : n = InverseChain[k][1] /\ i = InverseChain[k][2] /\ j = InverseChain[k][3]
  OBVIOUS
<1>8. i \in 0 .. k - 1 /\ j \in 0 .. k - 1
  BY <1>6, <1>7, ChainIsOrdered
<1>9. T[i] = Power(x, ChainBits(i)) /\ T[j] = Power(x, ChainBits(j))
  <2>1. i \in 0 .. 9 /\ ~(k <= i) /\ j \in 0 .. 9 /\ ~(k <= j)
    BY <1>6, <1>8
  <2> QED BY <1>3, <2>1
<1>10. T[k] = exp_acc(n, T[i], T[j])
  BY <1>1, <1>4, <1>5, <1>7, TemporariesAre
<1>11. /\ n \in 0 .. 63 /\ ChainBits(i) \in SUBSET (0 .. 63 - n)
       /\ Up(ChainBits(i), n) \cap ChainBits(j) = {}
       /\ Up(ChainBits(i), n) \cup ChainBits(j) = ChainBits(k)
  BY <1>6, <1>7, ChainAddsBits DEF ChainAdds
<1>12. exp_acc(n, Power(x, ChainBits(i)), Power(x, ChainBits(j)))
         = Power(x, Up(ChainBits(i), n) \cup ChainBits(j))
  <2>1. PICK A, C : A = ChainBits(i) /\ C = ChainBits(j)
    OBVIOUS
  <2>2. A \in SUBSET (0 .. 63 - n) /\ Up(A, n) \cap C = {} /\ n \in 0 .. 63
    BY <1>11, <2>1
  <2>3. exp_acc(n, Power(x, A), Power(x, C)) = Power(x, Up(A, n) \cup C)
    BY <2>2, CallIsPower
  <2> QED BY <2>1, <2>3
<1> QED BY <1>4, <1>9, <1>10, <1>11, <1>12

-----------------------------------------------------------------------------
\* Beside the temporaries stand the bits of their exponents.
ExponentsOK ==
  /\ exponents \in Seq(SUBSET Int) /\ Len(exponents) = Len(t)
  /\ \A k \in 1 .. Len(t) : exponents[k] = ChainBits(k)

\* Every operator keeps them there.
LEMMA ExponentsStep ==
  ASSUME RegisterOK, ExponentsOK, [RegisterNext]_registerVars
  PROVE  ExponentsOK'
<1>1. ASSUME NEW word, NEW element, Assign(word, element)
      PROVE  ExponentsOK'
  BY <1>1 DEF Assign, ExponentsOK
<1>2. ASSUME next_power
      PROVE  ExponentsOK'
  <2>1. PICK n : n = Len(t)
    OBVIOUS
  <2>2. n \in 0 .. 8
    <3>1. n \in Nat /\ n < 9
      BY <1>2, <2>1, ChainIs DEF next_power, RegisterOK
    <3> QED BY <3>1
  <2>3. PICK i, j, m, up : /\ i = InverseChain[n + 1][2] /\ j = InverseChain[n + 1][3]
                           /\ m = InverseChain[n + 1][1] /\ up = Up(Bits(i), m) \cup Bits(j)
    OBVIOUS
  <2>4. \A k \in 0 .. n : Bits(k) = ChainBits(k)
    <3>1. Bits(0) = ChainBits(0)
      BY ChainBitsAre DEF Bits
    <3>2. \A k \in 1 .. n : Bits(k) = ChainBits(k)
      BY <2>1, <2>2 DEF Bits, ExponentsOK
    <3> QED BY <2>2, <3>1, <3>2
  <2>5. i \in 0 .. n /\ j \in 0 .. n
    BY <2>2, <2>3, ChainIsOrdered
  <2>6. up = ChainBits(n + 1)
    <3>1. n + 1 \in 1 .. 9
      BY <2>2
    <3> QED BY <2>3, <2>4, <2>5, <3>1, ChainAddsBits DEF ChainAdds
  <2>7. up \in SUBSET Int
    <3>1. \A k \in 1 .. 9 : ChainBits(k) \in SUBSET Int
      <4>1. ASSUME NEW k \in 1 .. 9
            PROVE  ChainBits(k) \in SUBSET Int
        <5>1. \/ k = 1 \/ k = 2 \/ k = 3 \/ k = 4
              \/ k = 5 \/ k = 6 \/ k = 7 \/ k = 8 \/ k = 9
          OBVIOUS
        <5> QED BY <5>1, ChainBitsAre
      <4> QED BY <4>1
    <3>2. n + 1 \in 1 .. 9
      BY <2>2
    <3> QED BY <2>6, <3>1, <3>2
  <2>8. exponents' = Append(exponents, up)
    BY <1>2, <2>1, <2>3 DEF next_power, Up
  <2>9. Len(t') = n + 1
    BY <1>2, <2>1 DEF next_power, RegisterOK
  <2>10. /\ exponents' \in Seq(SUBSET Int) /\ Len(exponents') = n + 1
         /\ \A k \in 1 .. n + 1 : exponents'[k] = IF k = n + 1 THEN up ELSE exponents[k]
    BY <2>1, <2>2, <2>7, <2>8 DEF ExponentsOK
  <2>11. ASSUME NEW k \in 1 .. n + 1
         PROVE  exponents'[k] = ChainBits(k)
    <3>1. k # n + 1 => k \in 1 .. Len(t)
      BY <2>1, <2>2
    <3> QED BY <2>6, <2>10, <3>1 DEF ExponentsOK
  <2> QED BY <2>9, <2>10, <2>11 DEF ExponentsOK
<1>3. CASE UNCHANGED registerVars
  BY <1>3 DEF ExponentsOK, registerVars
<1>4. ASSUME NEW v \in Values, plus(v) \/ minus(v) \/ times(v) \/ divided(v)
      PROVE  ExponentsOK'
  BY <1>1, <1>4 DEF plus, minus, times, divided
<1>5. ASSUME seventh \/ inverted
      PROVE  ExponentsOK'
  BY <1>1, <1>5 DEF seventh, inverted
<1> QED BY <1>2, <1>3, <1>4, <1>5 DEF RegisterNext

\* The powers of inverse (goldilocks_field.h:102-114): whatever the element,
\* every temporary is its power with the exponent its place in the chain says,
\* and the last one, when the word has 64 bits, is Fermat's inverse.
THEOREM InverseTemporariesArePowers ==
  ASSUME Values \subseteq Canonical, InverseInverts
  PROVE  RegisterSpec => []TemporariesArePowers
<1>1. RegisterInit => RegisterOK /\ ExponentsOK
  BY RegisterInitOK DEF RegisterInit, ExponentsOK
<1>2. RegisterOK /\ ExponentsOK /\ [RegisterNext]_registerVars => (RegisterOK /\ ExponentsOK)'
  BY RegisterStep, ExponentsStep
<1>3. RegisterOK /\ ExponentsOK => TemporariesArePowers
  <2> SUFFICES ASSUME RegisterOK, ExponentsOK, t # <<>>
               PROVE  /\ Residue(t[Len(t)]) = Power(residue, exponents[Len(t)])
                      /\ Len(t) = Len(InverseChain) => exponents[Len(t)] = (0 .. 63) \ {32}
    BY DEF TemporariesArePowers
  <2>1. PICK n : n = Len(t)
    OBVIOUS
  <2>2. n \in 1 .. 9
    <3>1. n \in Nat /\ n <= 9 /\ n # 0
      BY <2>1 DEF RegisterOK
    <3> QED BY <3>1
  <2>3. t[n] = Power(inner, ChainBits(n)) /\ exponents[n] = ChainBits(n)
    BY <2>1, <2>2, TemporariesArePowersOf DEF RegisterOK, ExponentsOK
  <2>4. Residue(t[n]) = t[n]
    BY <2>3, PowerIsCanonical, CanonicalIsResidue DEF RegisterOK, Residue
  <2> QED BY <2>1, <2>3, <2>4, ChainIs, ChainBitsAre DEF RegisterOK
<1> QED BY <1>1, <1>2, <1>3, PTL DEF RegisterSpec

=============================================================================
