------------------------ MODULE GoldilocksFieldProofs ------------------------
(***************************************************************************)
(* The arithmetic of Felt (include/circuitpp/goldilocks_field.h) on all    *)
(* words, for every size of a half word, the 2^32 of the code among them:  *)
(* the carries and borrows the operators correct by EPSILON are worth      *)
(* exactly one WORD, which is EPSILON modulo the prime.                    *)
(***************************************************************************)
EXTENDS GoldilocksField, WellFoundedInduction, TLAPS

-----------------------------------------------------------------------------
(* Sizes and remainders                                                    *)

\* A word is the prime and EPSILON, and half a word of words is one less than a
\* multiple of the prime.
LEMMA Sizes ==
  /\ HALF \in Nat /\ HALF >= 2
  /\ WORD \in Nat /\ EPSILON \in Nat /\ GOLDILOCKS_PRIME \in Nat
  /\ EPSILON = HALF - 1 /\ WORD = HALF * HALF
  /\ WORD = GOLDILOCKS_PRIME + EPSILON
  /\ EPSILON < GOLDILOCKS_PRIME
  /\ 1 < GOLDILOCKS_PRIME /\ HALF < WORD
  /\ 2 * EPSILON < WORD
  /\ HALF * EPSILON = WORD - HALF
  /\ EPSILON * EPSILON + EPSILON < WORD
<1>1. HALF \in Nat /\ HALF >= 2
  BY HalfAssumption
<1>2. HALF * HALF \in Nat /\ HALF * HALF >= 2 * HALF
  BY <1>1
<1>3. HALF * (HALF - 1) = HALF * HALF - HALF
  BY <1>1
<1>4. (HALF - 1) * (HALF - 1) = HALF * HALF - 2 * HALF + 1
  BY <1>1
<1> QED BY <1>1, <1>2, <1>3, <1>4 DEF WORD, EPSILON, GOLDILOCKS_PRIME

\* The remainder of a number that is given as quotient and remainder.
LEMMA Remainder ==
  ASSUME NEW p \in Nat \ {0}, NEW q \in Int, NEW r \in 0 .. p - 1
  PROVE  (q * p + r) % p = r /\ (q * p + r) \div p = q
OBVIOUS

\* Every number is.
LEMMA QuotientRemainder ==
  ASSUME NEW p \in Nat \ {0}, NEW x \in Int
  PROVE  /\ x \div p \in Int /\ x % p \in 0 .. p - 1
         /\ x = (x \div p) * p + (x % p)
OBVIOUS

\* Adding a multiple of p changes no remainder modulo p.
LEMMA SameRemainder ==
  ASSUME NEW p \in Nat \ {0}, NEW x \in Int, NEW k \in Int
  PROVE  (x + k * p) % p = x % p
<1> DEFINE q == x \div p
           r == x % p
<1>1. q \in Int /\ r \in 0 .. p - 1 /\ x = q * p + r
  BY QuotientRemainder
<1> HIDE DEF q, r
<1>2. x + k * p = (q + k) * p + r
  BY <1>1
<1>3. (x + k * p) % p = r
  BY <1>1, <1>2, Remainder
<1> QED BY <1>3 DEF r

\* A sum below two words wraps at most once.
LEMMA WrapOnce ==
  ASSUME NEW x \in Int
  PROVE  /\ x \in 0 .. WORD - 1 => Wrap(x) = x
         /\ x \in WORD .. 2 * WORD - 1 => Wrap(x) = x - WORD
         /\ x \in -WORD .. -1 => Wrap(x) = x + WORD
         /\ Wrap(x) \in Words
<1>1. WORD \in Nat \ {0}
  BY Sizes
<1>2. x \in 0 .. WORD - 1 => Wrap(x) = x
  <2>1. x = 0 * WORD + x
    BY <1>1
  <2> QED BY <1>1, <2>1, Remainder DEF Wrap
<1>3. x \in WORD .. 2 * WORD - 1 => Wrap(x) = x - WORD
  <2> SUFFICES ASSUME x \in WORD .. 2 * WORD - 1
               PROVE  Wrap(x) = x - WORD
    OBVIOUS
  <2>1. x = 1 * WORD + (x - WORD) /\ x - WORD \in 0 .. WORD - 1
    BY <1>1
  <2> QED BY <1>1, <2>1, Remainder DEF Wrap
<1>4. x \in -WORD .. -1 => Wrap(x) = x + WORD
  <2> SUFFICES ASSUME x \in -WORD .. -1
               PROVE  Wrap(x) = x + WORD
    OBVIOUS
  <2>1. x = (-1) * WORD + (x + WORD) /\ x + WORD \in 0 .. WORD - 1 /\ -1 \in Int
    BY <1>1
  <2> QED BY <1>1, <2>1, Remainder DEF Wrap
<1>5. Wrap(x) \in Words
  BY <1>1, QuotientRemainder DEF Wrap, Words
<1> QED BY <1>2, <1>3, <1>4, <1>5

-----------------------------------------------------------------------------
(* The operators                                                           *)

\* Felt::add: the sum in the field, of any two words.
THEOREM AddIsOfField ==
  ASSUME NEW a \in Words, NEW b \in Words
  PROVE  add(a, b) = (a + b) % GOLDILOCKS_PRIME /\ add(a, b) \in Canonical
<1> DEFINE P == GOLDILOCKS_PRIME
           sum == Wrap(a + b)
           c == Wrap(sum + EPSILON)
           corrected == IF sum < a THEN IF c < sum THEN Wrap(c + EPSILON) ELSE c
                        ELSE sum
<1>1. /\ a \in 0 .. WORD - 1 /\ b \in 0 .. WORD - 1 /\ a \in Int /\ b \in Int
      /\ WORD \in Nat /\ EPSILON \in Nat /\ P \in Nat \ {0}
      /\ WORD = P + EPSILON /\ 1 <= EPSILON /\ EPSILON < P /\ 2 * EPSILON < WORD
  BY Sizes DEF Words
<1>2. add(a, b) = IF corrected < P THEN corrected ELSE corrected - P
  BY DEF add
<1>3. sum = IF a + b < WORD THEN a + b ELSE a + b - WORD
  <2>1. a + b \in 0 .. WORD - 1 \/ a + b \in WORD .. 2 * WORD - 1
    BY <1>1
  <2> QED BY <1>1, <2>1, WrapOnce
<1>4. sum \in Int /\ sum \in 0 .. WORD - 1
  BY <1>1, <1>3
<1>5. c = IF sum + EPSILON < WORD THEN sum + EPSILON ELSE sum + EPSILON - WORD
  <2> HIDE DEF sum
  <2>1. sum + EPSILON \in 0 .. WORD - 1 \/ sum + EPSILON \in WORD .. 2 * WORD - 1
    BY <1>1, <1>4
  <2> QED BY <1>1, <1>4, <2>1, WrapOnce
<1> HIDE DEF sum, c, P
<1>6. PICK k \in {0, 1, 2} : a + b = k * P + corrected /\ corrected \in 0 .. WORD - 1
  <2>1. CASE a + b < WORD
    <3>1. corrected = a + b
      BY <1>1, <1>3, <2>1
    <3> QED BY <1>1, <2>1, <3>1
  <2>2. CASE a + b >= WORD /\ sum + EPSILON < WORD
    <3>1. corrected = a + b - P
      BY <1>1, <1>3, <1>4, <1>5, <2>2
    <3>2. corrected = sum + EPSILON
      BY <1>1, <1>3, <2>2, <3>1
    <3>3. corrected \in 0 .. WORD - 1
      BY <1>1, <1>4, <2>2, <3>2
    <3>4. a + b = 1 * P + corrected
      BY <1>1, <3>1
    <3> QED BY <3>3, <3>4
  <2>3. CASE a + b >= WORD /\ sum + EPSILON >= WORD
    <3>1. c < sum /\ sum < a /\ c + EPSILON \in 0 .. WORD - 1
      BY <1>1, <1>3, <1>4, <1>5, <2>3
    <3>2. corrected = c + EPSILON
      BY <1>1, <3>1, WrapOnce
    <3>3. corrected = a + b - 2 * P
      BY <1>1, <1>3, <1>5, <2>3, <3>2
    <3> QED BY <1>1, <3>1, <3>2, <3>3
  <2> QED BY <1>1, <1>4, <2>1, <2>2, <2>3
<1> HIDE DEF corrected
<1>7. PICK j \in Int : a + b = j * P + add(a, b) /\ add(a, b) \in 0 .. P - 1
  <2>1. CASE corrected < P
    <3>1. add(a, b) = corrected /\ add(a, b) \in 0 .. P - 1
      BY <1>1, <1>2, <1>6, <2>1
    <3>2. a + b = k * P + add(a, b) /\ k \in Int
      BY <1>6, <3>1
    <3> QED BY <3>1, <3>2
  <2>2. CASE corrected >= P
    <3>1. add(a, b) = corrected - P /\ add(a, b) \in 0 .. P - 1
      BY <1>1, <1>2, <1>6, <2>2
    <3>2. a + b = (k + 1) * P + add(a, b)
      BY <1>1, <1>6, <3>1
    <3> QED BY <1>6, <3>1, <3>2
  <2>3. corrected < P \/ corrected >= P
    BY <1>1, <1>6
  <2> QED BY <2>1, <2>2, <2>3
<1>8. (a + b) % P = add(a, b)
  BY <1>1, <1>7, Remainder
<1> QED BY <1>7, <1>8 DEF P, Canonical

\* Felt::sub: a word of the difference in the field, of any two words but those
\* whose difference is below minus the prime; reduced when they are.
THEOREM SubIsOfField ==
  ASSUME NEW a \in Words, NEW b \in Words
  PROVE  /\ sub(a, b) \in Words
         /\ b <= a + GOLDILOCKS_PRIME =>
              sub(a, b) % GOLDILOCKS_PRIME = (a - b) % GOLDILOCKS_PRIME
         /\ a \in Canonical /\ b \in Canonical =>
              sub(a, b) = (a - b) % GOLDILOCKS_PRIME /\ sub(a, b) \in Canonical
<1> DEFINE P == GOLDILOCKS_PRIME
<1>1. /\ a \in 0 .. WORD - 1 /\ b \in 0 .. WORD - 1 /\ a \in Int /\ b \in Int
      /\ WORD \in Nat /\ EPSILON \in Nat /\ P \in Nat \ {0} /\ P \in Int
      /\ WORD = P + EPSILON /\ EPSILON < P
  BY Sizes DEF Words
<1> HIDE DEF P
<1>2. PICK d : d = a - b
  OBVIOUS
<1>3. d \in Int /\ d \in -WORD .. WORD
  BY <1>1, <1>2
<1>4. sub(a, b) = IF d >= 0 THEN d ELSE Wrap(d + P)
  <2>1. a + GOLDILOCKS_PRIME - b = d + P /\ (a >= b <=> d >= 0)
    BY <1>1, <1>2 DEF P
  <2>2. a >= b => sub(a, b) = d
    BY <1>2 DEF sub
  <2>3. ~(a >= b) => sub(a, b) = Wrap(d + P)
    BY <2>1 DEF sub
  <2> QED BY <2>1, <2>2, <2>3
<1>5. sub(a, b) \in 0 .. WORD - 1
  <2>1. d + P \in Int
    BY <1>1, <1>3
  <2>2. Wrap(d + P) \in 0 .. WORD - 1
    BY <2>1, WrapOnce DEF Words
  <2>3. d >= 0 => d \in 0 .. WORD - 1
    BY <1>1, <1>2
  <2> QED BY <1>4, <2>2, <2>3
<1>6. ASSUME d >= -P
      PROVE  sub(a, b) = IF d >= 0 THEN d ELSE d + P
  <2>1. d < 0 => d + P \in 0 .. WORD - 1 /\ d + P \in Int
    BY <1>1, <1>3, <1>6
  <2>2. d < 0 => Wrap(d + P) = d + P
    BY <2>1, WrapOnce
  <2> QED BY <1>3, <1>4, <2>2
<1>7. ASSUME d >= -P
      PROVE  sub(a, b) % P = d % P
  <2>1. \A k \in Int : (d + k * P) % P = d % P
    BY <1>1, <1>3, SameRemainder
  <2>2. d + 1 * P = d + P
    BY <1>1, <1>3
  <2> QED BY <1>6, <1>7, <2>1, <2>2
<1>8. ASSUME a \in 0 .. P - 1, b \in 0 .. P - 1
      PROVE  sub(a, b) = d % P /\ sub(a, b) \in 0 .. P - 1
  <2>1. d >= -P /\ sub(a, b) \in 0 .. P - 1
    BY <1>1, <1>2, <1>6, <1>8
  <2>2. PICK s \in 0 .. P - 1 : s = sub(a, b)
    BY <2>1
  <2>3. s = 0 * P + s
    BY <1>1
  <2>4. s % P = s
    BY <1>1, <2>3, Remainder
  <2> QED BY <1>7, <2>1, <2>2, <2>4
<1>9. b <= a + P => d >= -P
  BY <1>1, <1>2
<1> QED BY <1>2, <1>5, <1>7, <1>8, <1>9 DEF P, Words, Canonical

-----------------------------------------------------------------------------
(* The product                                                             *)

\* A factor is bounded when the product is.
LEMMA SmallFactor ==
  ASSUME NEW x \in Int, NEW y \in Nat, NEW z \in Nat \ {0}, x * z < y * z
  PROVE  x < y
<1> SUFFICES ASSUME x >= y
             PROVE  FALSE
  OBVIOUS
<1>1. PICK e \in Nat : x = y + e
  <2>1. x - y \in Nat /\ x = y + (x - y)
    OBVIOUS
  <2> QED BY <2>1
<1>2. x * z = y * z + e * z
  BY <1>1
<1>3. e * z \in Nat /\ x * z \in Int /\ y * z \in Int
  OBVIOUS
<1> QED BY <1>2, <1>3

\* A product of bounded factors is bounded.
LEMMA BoundedProduct ==
  ASSUME NEW m \in Nat, NEW n \in Nat, NEW x \in 0 .. m, NEW y \in 0 .. n
  PROVE  x * y \in Nat /\ x * y <= m * n
<1>1. PICK e \in Nat : m = x + e
  <2>1. m - x \in Nat /\ m = x + (m - x)
    OBVIOUS
  <2> QED BY <2>1
<1>2. PICK f \in Nat : n = y + f
  <2>1. n - y \in Nat /\ n = y + (n - y)
    OBVIOUS
  <2> QED BY <2>1
<1>3. m * n = x * y + x * f + e * y + e * f
  BY <1>1, <1>2
<1>4. x * y \in Nat /\ x * f \in Nat /\ e * y \in Nat /\ e * f \in Nat
  OBVIOUS
<1> QED BY <1>3, <1>4

\* A word is two halves.
LEMMA Halves ==
  ASSUME NEW w \in Words
  PROVE  /\ w \div HALF \in 0 .. HALF - 1 /\ w % HALF \in 0 .. HALF - 1
         /\ w = (w \div HALF) * HALF + (w % HALF)
<1>1. HALF \in Nat \ {0} /\ w \in Int /\ w < HALF * HALF /\ w >= 0
  BY Sizes DEF Words
<1>2. PICK q, r : q = w \div HALF /\ r = w % HALF
  OBVIOUS
<1>3. q \in Int /\ r \in 0 .. HALF - 1 /\ w = q * HALF + r
  BY <1>1, <1>2, QuotientRemainder
<1>4. q * HALF < HALF * HALF
  BY <1>1, <1>3
<1>5. q < HALF
  BY <1>1, <1>3, <1>4, SmallFactor
<1>6. -1 < q
  <2>1. (-1 - q) * HALF = -HALF - q * HALF
    BY <1>1, <1>3
  <2>2. q * HALF > -HALF
    BY <1>1, <1>3
  <2>3. (-1 - q) * HALF < 0 * HALF /\ -1 - q \in Int
    BY <1>1, <1>3, <2>1, <2>2
  <2>4. -1 - q < 0
    BY <1>1, <2>3, SmallFactor
  <2> QED BY <1>3, <2>4
<1> QED BY <1>1, <1>2, <1>3, <1>5, <1>6

\* A sum of two words and the carry the code computes by comparing it with the
\* first of them.
LEMMA SumWithCarry ==
  ASSUME NEW x \in 0 .. WORD - 1, NEW y \in 0 .. WORD - 1
  PROVE  LET carry == IF Wrap(x + y) < x THEN 1 ELSE 0
         IN  /\ Wrap(x + y) \in 0 .. WORD - 1 /\ carry \in 0 .. 1
             /\ Wrap(x + y) + carry * WORD = x + y
<1>1. WORD \in Nat /\ x + y \in Int
  BY Sizes
<1>2. CASE x + y \in 0 .. WORD - 1
  <2>1. Wrap(x + y) = x + y
    BY <1>1, <1>2, WrapOnce
  <2> QED BY <1>1, <1>2, <2>1
<1>3. CASE x + y \in WORD .. 2 * WORD - 1
  <2>1. Wrap(x + y) = x + y - WORD
    BY <1>1, <1>3, WrapOnce
  <2> QED BY <1>1, <1>3, <2>1
<1> QED BY <1>1, <1>2, <1>3

\* The product of two words fits in two words, and product computes it.
LEMMA ProductIsExact ==
  ASSUME NEW lhs \in Words, NEW rhs \in Words
  PROVE  \E hi, lo \in Words :
           product(lhs, rhs) = <<hi, lo>> /\ hi * WORD + lo = lhs * rhs
<1>1. /\ HALF \in Nat \ {0} /\ WORD \in Nat \ {0} /\ EPSILON \in Nat
      /\ WORD = HALF * HALF /\ EPSILON = HALF - 1
      /\ EPSILON * EPSILON + EPSILON < WORD /\ HALF * EPSILON = WORD - HALF
  BY Sizes
<1>2. PICK a, b : a = lhs \div HALF /\ b = lhs % HALF
  OBVIOUS
<1>3. PICK c, d : c = rhs \div HALF /\ d = rhs % HALF
  OBVIOUS
<1>4. /\ a \in 0 .. EPSILON /\ b \in 0 .. EPSILON /\ lhs = a * HALF + b
      /\ c \in 0 .. EPSILON /\ d \in 0 .. EPSILON /\ rhs = c * HALF + d
  BY <1>1, <1>2, <1>3, Halves
<1>5. PICK ac, ad, bc, bd : ac = a * c /\ ad = a * d /\ bc = b * c /\ bd = b * d
  OBVIOUS
<1>6. /\ ac \in Nat /\ ad \in Nat /\ bc \in Nat /\ bd \in Nat
      /\ ac < WORD /\ ad < WORD /\ bc < WORD /\ bd < WORD
  <2>1. \A x, y \in 0 .. EPSILON : x * y \in Nat /\ x * y <= EPSILON * EPSILON
    BY <1>1, BoundedProduct
  <2>2. \A z \in Nat : z <= EPSILON * EPSILON => z < WORD
    BY <1>1
  <2> QED BY <1>4, <1>5, <2>1, <2>2
<1>7. lhs * rhs = ac * WORD + (ad + bc) * HALF + bd
  <2>1. (a * HALF + b) * (c * HALF + d)
          = (a * c) * (HALF * HALF) + (a * d + b * c) * HALF + b * d
    BY <1>1, <1>4
  <2> QED BY <1>1, <1>4, <1>5, <2>1
<1>8. PICK adbc, carry : /\ adbc = Wrap(ad + bc)
                         /\ carry = IF adbc < ad THEN 1 ELSE 0
  OBVIOUS
<1>9. adbc \in 0 .. WORD - 1 /\ carry \in 0 .. 1 /\ adbc + carry * WORD = ad + bc
  <2>1. ad \in 0 .. WORD - 1 /\ bc \in 0 .. WORD - 1
    BY <1>1, <1>6
  <2> QED BY <1>8, <2>1, SumWithCarry
<1>10. PICK u, v : u = adbc \div HALF /\ v = adbc % HALF
  OBVIOUS
<1>11. u \in 0 .. EPSILON /\ v \in 0 .. EPSILON /\ adbc = u * HALF + v
  BY <1>1, <1>9, <1>10, Halves DEF Words
<1>12. PICK vh : vh = v * HALF
  OBVIOUS
<1>13. vh \in 0 .. WORD - 1
  <2>1. vh \in Nat /\ vh <= EPSILON * HALF
    BY <1>1, <1>11, <1>12, BoundedProduct
  <2>2. EPSILON * HALF = WORD - HALF
    BY <1>1
  <2> QED BY <1>1, <2>1, <2>2
<1>14. Wrap(bd + adbc * HALF) = Wrap(bd + vh)
  <2>1. bd + adbc * HALF = (bd + vh) + u * WORD
    <3>1. (u * HALF + v) * HALF = u * (HALF * HALF) + v * HALF
      BY <1>1, <1>11
    <3>2. adbc * HALF = u * WORD + vh
      BY <1>1, <1>11, <1>12, <3>1
    <3>3. u * WORD \in Int
      BY <1>1, <1>11
    <3> QED BY <1>6, <1>13, <3>2, <3>3
  <2>2. bd + vh \in Int /\ u \in Int
    BY <1>6, <1>11, <1>13
  <2>3. ((bd + vh) + u * WORD) % WORD = (bd + vh) % WORD
    BY <1>1, <2>2, SameRemainder
  <2> QED BY <2>1, <2>3 DEF Wrap
<1>15. PICK lo, lo_carry : /\ lo = Wrap(bd + adbc * HALF)
                           /\ lo_carry = IF lo < bd THEN 1 ELSE 0
  OBVIOUS
<1>16. lo \in 0 .. WORD - 1 /\ lo_carry \in 0 .. 1 /\ lo + lo_carry * WORD = bd + vh
  <2>1. bd \in 0 .. WORD - 1
    BY <1>1, <1>6
  <2> QED BY <1>13, <1>14, <1>15, <2>1, SumWithCarry
<1>17. PICK hi : hi = ac + u + carry * HALF + lo_carry
  OBVIOUS
<1>18. hi \in Nat
  BY <1>1, <1>6, <1>9, <1>11, <1>16, <1>17
<1>19. hi * WORD + lo = lhs * rhs
  <2>1. hi * WORD = ac * WORD + u * WORD + carry * (HALF * WORD) + lo_carry * WORD
    BY <1>1, <1>6, <1>9, <1>11, <1>16, <1>17
  <2>2. (ad + bc) * HALF = u * WORD + vh + carry * (HALF * WORD)
    <3>1. (u * HALF + v + carry * WORD) * HALF
            = u * (HALF * HALF) + v * HALF + carry * (HALF * WORD)
      BY <1>1, <1>9, <1>11
    <3>2. ad + bc = u * HALF + v + carry * WORD
      BY <1>9, <1>11
    <3> QED BY <1>1, <1>12, <3>1, <3>2
  <2>3. PICK x, y, z, s, g : /\ x = ac * WORD /\ y = u * WORD
                             /\ z = carry * (HALF * WORD) /\ s = lo_carry * WORD
                             /\ g = (ad + bc) * HALF
    OBVIOUS
  <2>4. x \in Int /\ y \in Int /\ z \in Int /\ s \in Int /\ g \in Int
    BY <1>1, <1>6, <1>9, <1>11, <1>16, <2>3
  <2>5. lo + s = bd + vh /\ g = y + vh + z /\ hi * WORD = x + y + z + s
    BY <1>16, <2>1, <2>2, <2>3
  <2>6. lhs * rhs = x + g + bd
    BY <1>7, <2>3
  <2>7. lo \in Int /\ bd \in Int /\ vh \in Int
    BY <1>6, <1>13, <1>16
  <2> QED BY <2>4, <2>5, <2>6, <2>7
<1>20. hi \in 0 .. WORD - 1
  <2>1. lhs * rhs \in Nat /\ lhs * rhs <= (WORD - 1) * (WORD - 1)
    <3>1. WORD - 1 \in Nat /\ lhs \in 0 .. WORD - 1 /\ rhs \in 0 .. WORD - 1
      BY <1>1 DEF Words
    <3> QED BY <3>1, BoundedProduct
  <2>2. (WORD - 1) * (WORD - 1) < WORD * WORD
    BY <1>1
  <2>3. hi * WORD < WORD * WORD
    <3>1. hi * WORD \in Int /\ lo \in Nat /\ WORD * WORD \in Int
          /\ (WORD - 1) * (WORD - 1) \in Int
      BY <1>1, <1>16, <1>18
    <3> QED BY <1>19, <2>1, <2>2, <3>1
  <2>4. hi < WORD
    BY <1>1, <1>18, <2>3, SmallFactor
  <2> QED BY <1>1, <1>18, <2>4
<1>21. product(lhs, rhs) = <<hi, lo>>
  <2>1. product(lhs, rhs)
          = <<Wrap(ac + u + carry * HALF + lo_carry), lo>>
    BY <1>2, <1>3, <1>5, <1>8, <1>10, <1>15 DEF product
  <2>2. Wrap(hi) = hi
    BY <1>20, WrapOnce
  <2> QED BY <1>17, <2>1, <2>2
<1> QED BY <1>16, <1>19, <1>20, <1>21 DEF Words

\* reduce128 gives a word of the residue of its double word: half a word of
\* words is minus one and a word is EPSILON modulo the prime, and so are the
\* borrow and the carry it corrects.
LEMMA ReduceKeepsResidue ==
  ASSUME NEW hi \in Words, NEW lo \in Words
  PROVE  /\ reduce128(hi, lo) \in Words
         /\ reduce128(hi, lo) % GOLDILOCKS_PRIME = (hi * WORD + lo) % GOLDILOCKS_PRIME
<1> DEFINE P == GOLDILOCKS_PRIME
<1>1. /\ HALF \in Nat \ {0} /\ WORD \in Nat \ {0} /\ EPSILON \in Nat
      /\ WORD = HALF * HALF /\ EPSILON = HALF - 1 /\ P \in Nat \ {0}
      /\ WORD = P + EPSILON /\ 2 * EPSILON < WORD
      /\ EPSILON * EPSILON + EPSILON < WORD
      /\ hi \in Int /\ lo \in 0 .. WORD - 1
  BY Sizes DEF Words
<1>2. HALF * WORD = (HALF + 1) * P - 1
  <2>1. (HALF + 1) * (HALF * HALF - HALF + 1) = HALF * (HALF * HALF) + 1
    BY <1>1
  <2> QED BY <1>1, <2>1 DEF GOLDILOCKS_PRIME
<1> HIDE DEF P
<1>3. PICK h1, h0 : h1 = hi \div HALF /\ h0 = hi % HALF
  OBVIOUS
<1>4. h1 \in 0 .. EPSILON /\ h0 \in 0 .. EPSILON /\ hi = h1 * HALF + h0
  BY <1>1, <1>3, Halves
<1>5. PICK borrowed, t0 :
        /\ borrowed = Wrap(lo - h1)
        /\ t0 = IF borrowed > lo THEN Wrap(borrowed - EPSILON) ELSE borrowed
  OBVIOUS
<1>6. PICK k \in {0, 1} : t0 = lo - h1 + k * P /\ t0 \in 0 .. WORD - 1
  <2>1. lo - h1 \in Int
    BY <1>1, <1>4
  <2>2. CASE lo >= h1
    <3>1. lo - h1 \in 0 .. WORD - 1
      BY <1>1, <1>4, <2>2
    <3>2. borrowed = lo - h1
      BY <1>5, <2>1, <3>1, WrapOnce
    <3>3. t0 = lo - h1
      BY <1>1, <1>4, <1>5, <3>2
    <3>4. t0 = lo - h1 + 0 * P
      BY <1>1, <1>4, <3>3
    <3> QED BY <3>1, <3>3, <3>4
  <2>3. CASE lo < h1
    <3>1. lo - h1 \in -WORD .. -1
      BY <1>1, <1>4, <2>3
    <3>2. borrowed = lo - h1 + WORD
      BY <1>5, <2>1, <3>1, WrapOnce
    <3>3. borrowed > lo /\ borrowed - EPSILON \in 0 .. WORD - 1
          /\ borrowed - EPSILON \in Int
      BY <1>1, <1>4, <2>3, <3>2
    <3>4. t0 = borrowed - EPSILON
      BY <1>5, <3>3, WrapOnce
    <3>5. t0 = lo - h1 + 1 * P
      BY <1>1, <1>4, <3>2, <3>4
    <3> QED BY <3>3, <3>4, <3>5
  <2> QED BY <1>1, <1>4, <2>2, <2>3
<1>7. PICK t1, t2 : t1 = h0 * EPSILON /\ t2 = Wrap(t0 + t1)
  OBVIOUS
<1>8. t1 \in 0 .. EPSILON * EPSILON /\ t1 \in 0 .. WORD - 1
  BY <1>1, <1>4, <1>7, BoundedProduct
<1>9. PICK r : r = IF t2 < t1 THEN Wrap(t2 + EPSILON) ELSE t2
  OBVIOUS
<1>10. PICK m \in {0, 1} : r = t0 + t1 - m * P /\ r \in 0 .. WORD - 1
  <2>1. t2 = Wrap(t1 + t0)
    <3>1. t1 + t0 = t0 + t1
      BY <1>6, <1>8
    <3> QED BY <1>7, <3>1
  <2>2. /\ t2 \in 0 .. WORD - 1
        /\ t2 + (IF t2 < t1 THEN 1 ELSE 0) * WORD = t1 + t0
    BY <1>6, <1>8, <2>1, SumWithCarry
  <2>3. CASE t2 < t1
    <3>1. t2 + WORD = t1 + t0
      BY <1>1, <2>2, <2>3
    <3>2. t2 + EPSILON \in 0 .. WORD - 1 /\ t2 + EPSILON \in Int
      BY <1>1, <1>8, <2>2, <2>3
    <3>3. r = t2 + EPSILON
      BY <1>9, <2>3, <3>2, WrapOnce
    <3>4. r = t0 + t1 - 1 * P
      BY <1>1, <1>6, <1>8, <2>2, <3>1, <3>3
    <3> QED BY <3>2, <3>3, <3>4
  <2>4. CASE ~(t2 < t1)
    <3>1. r = t2 /\ t2 = t1 + t0
      BY <1>1, <1>9, <2>2, <2>4
    <3>2. r = t0 + t1 - 0 * P
      BY <1>1, <1>6, <1>8, <3>1
    <3> QED BY <2>2, <3>1, <3>2
  <2> QED BY <2>3, <2>4
<1>11. reduce128(hi, lo) = r
  BY <1>3, <1>5, <1>7, <1>9 DEF reduce128
<1>12. hi * WORD + lo = (lo - h1 + t1) + (h1 * (HALF + 1) + h0) * P
  <2>1. (h1 * HALF + h0) * WORD = h1 * (HALF * WORD) + h0 * P + h0 * EPSILON
    BY <1>1, <1>4
  <2>2. h1 * ((HALF + 1) * P - 1) = h1 * (HALF + 1) * P - h1
    BY <1>1, <1>4
  <2>3. (h1 * (HALF + 1) + h0) * P = h1 * (HALF + 1) * P + h0 * P
    BY <1>1, <1>4
  <2>4. PICK x, y : x = h1 * (HALF + 1) * P /\ y = h0 * P
    OBVIOUS
  <2>5. x \in Int /\ y \in Int
    BY <1>1, <1>4, <2>4
  <2>6. hi * WORD = x - h1 + y + t1
    BY <1>2, <1>4, <1>7, <2>1, <2>2, <2>4
  <2>7. (h1 * (HALF + 1) + h0) * P = x + y
    BY <2>3, <2>4
  <2> QED BY <1>1, <1>4, <1>8, <2>5, <2>6, <2>7
<1>13. PICK e : e = lo - h1 + t1
  OBVIOUS
<1>14. e \in Int
  BY <1>1, <1>4, <1>8, <1>13
<1>15. r = e + (k - m) * P
  <2>1. (k - m) * P = k * P - m * P
    BY <1>1
  <2> QED BY <1>1, <1>4, <1>6, <1>8, <1>10, <1>13, <2>1
<1>16. \A j \in Int : (e + j * P) % P = e % P
  BY <1>1, <1>14, SameRemainder
<1>17. k - m \in Int /\ h1 * (HALF + 1) + h0 \in Int
  BY <1>1, <1>4
<1>18. r % P = e % P
  BY <1>15, <1>16, <1>17
<1>19. (hi * WORD + lo) % P = e % P
  BY <1>12, <1>13, <1>16, <1>17
<1> QED BY <1>10, <1>11, <1>18, <1>19 DEF P, Words

\* Felt::mul: the product in the field, reduced, of any two words.
THEOREM MulIsOfField ==
  ASSUME NEW a \in Words, NEW b \in Words
  PROVE  mul(a, b) = (a * b) % GOLDILOCKS_PRIME /\ mul(a, b) \in Canonical
<1>1. PICK hi, lo \in Words : product(a, b) = <<hi, lo>> /\ hi * WORD + lo = a * b
  BY ProductIsExact
<1>2. mul(a, b) = reduce128(hi, lo) % GOLDILOCKS_PRIME
  BY <1>1 DEF mul
<1>3. mul(a, b) = (a * b) % GOLDILOCKS_PRIME
  BY <1>1, <1>2, ReduceKeepsResidue
<1>4. a * b \in Int /\ GOLDILOCKS_PRIME \in Nat \ {0}
  BY Sizes DEF Words
<1> QED BY <1>3, <1>4, QuotientRemainder DEF Canonical

-----------------------------------------------------------------------------
(* The powers                                                              *)

\* A set of naturals has a least element: the induction on the number of
\* squarings and, in other proofs, of blocks.
LEMMA LeastNatural ==
  ASSUME NEW T \in SUBSET Nat, T # {}
  PROVE  \E x \in T : \A y \in T : x <= y
<1> DEFINE R == OpToRel(<, Nat)
<1>1. IsWellFoundedOn(R, Nat)
  BY NatLessThanWellFounded
<1>2. \A x, y \in Nat : y < x => <<y, x>> \in R
  BY DEF OpToRel
<1> HIDE DEF R
<1>3. PICK x \in T : \A y \in T : ~ (<<y, x>> \in R)
  <2>1. \E x \in T : \A y \in T : ~ (<<y, x>> \in R)
    BY <1>1, WFMin
  <2> QED BY <2>1
<1>4. ASSUME NEW y \in T
      PROVE  x <= y
  <2>1. x \in Nat /\ y \in Nat
    OBVIOUS
  <2>2. ~(y < x)
    BY <1>2, <1>3, <2>1
  <2> QED BY <2>1, <2>2
<1> QED BY <1>4

\* f holds the iterates of F on e, in S.
AreIterates(f, n, S, F, e) ==
  /\ f \in [0 .. n -> S]
  /\ \A i \in 0 .. n : f[i] = IF i = 0 THEN e ELSE F[f[i - 1]]

\* A function can be iterated, so that the recursive definition of the
\* iterates is one.
LEMMA IteratesExist ==
  ASSUME NEW n \in Nat, NEW S, NEW F \in [S -> S], NEW e \in S
  PROVE  \E f : AreIterates(f, n, S, F, e)
<1> DEFINE Iterates(f, m) == \A i \in 0 .. m : f[i] = IF i = 0 THEN e ELSE F[f[i - 1]]
           T == {m \in Nat : ~ \E f \in [0 .. m -> S] : Iterates(f, m)}
<1>1. SUFFICES T = {}
  BY DEF AreIterates
<1>2. SUFFICES ASSUME T # {}
               PROVE  FALSE
  OBVIOUS
<1>3. PICK m \in T : \A y \in T : m <= y
  <2>1. T \in SUBSET Nat
    OBVIOUS
  <2> HIDE DEF T
  <2> QED BY <1>2, <2>1, LeastNatural
<1>4. CASE m = 0
  <2> DEFINE f == [i \in 0 .. m |-> e]
  <2>1. f \in [0 .. m -> S] /\ Iterates(f, m)
    BY <1>4
  <2> QED BY <1>3, <2>1
<1>5. CASE m # 0
  <2>1. m \in Nat /\ m - 1 \in Nat /\ m - 1 \notin T
    <3>1. m \in Nat
      OBVIOUS
    <3>2. m - 1 \in Nat /\ ~(m <= m - 1)
      BY <1>5, <3>1
    <3> QED BY <1>3, <3>1, <3>2
  <2>2. PICK g \in [0 .. m - 1 -> S] : Iterates(g, m - 1)
    BY <2>1
  <2> DEFINE f == [i \in 0 .. m |-> IF i = m THEN F[g[m - 1]] ELSE g[i]]
  <2>3. f \in [0 .. m -> S]
    BY <2>1
  <2>4. ASSUME NEW i \in 0 .. m
        PROVE  f[i] = IF i = 0 THEN e ELSE F[f[i - 1]]
    <3>1. CASE i = m
      BY <1>5, <2>1, <3>1
    <3>2. CASE i # m
      <4>1. i \in 0 .. m - 1 /\ f[i] = g[i]
        BY <2>1, <3>2
      <4>2. g[i] = IF i = 0 THEN e ELSE F[g[i - 1]]
        BY <2>2, <4>1
      <4>3. i # 0 => f[i - 1] = g[i - 1]
        BY <2>1, <4>1
      <4> QED BY <4>1, <4>2, <4>3
    <3> QED BY <3>1, <3>2
  <2>5. Iterates(f, m)
    BY <2>3, <2>4
  <2> QED BY <1>3, <2>3, <2>5
<1> QED BY <1>4, <1>5

\* And the iterates stay in the set.
LEMMA IteratesStay ==
  ASSUME NEW n \in Nat, NEW S, NEW F \in [S -> S], NEW e \in S, NEW f,
         f = [i \in 0 .. n |-> IF i = 0 THEN e ELSE F[f[i - 1]]]
  PROVE  f \in [0 .. n -> S]
<1> DEFINE T == {m \in 0 .. n : f[m] \notin S}
<1>1. ASSUME NEW i \in 0 .. n
      PROVE  f[i] = IF i = 0 THEN e ELSE F[f[i - 1]]
  OBVIOUS
<1>2. SUFFICES T = {}
  <2>1. f = [i \in 0 .. n |-> f[i]]
    OBVIOUS
  <2>2. T = {} => \A i \in 0 .. n : f[i] \in S
    OBVIOUS
  <2> QED BY <2>1, <2>2
<1>3. SUFFICES ASSUME T # {}
               PROVE  FALSE
  OBVIOUS
<1>4. PICK m \in T : \A y \in T : m <= y
  <2>1. T \in SUBSET Nat
    OBVIOUS
  <2> HIDE DEF T
  <2> QED BY <1>3, <2>1, LeastNatural
<1>5. m \in 0 .. n /\ f[m] \notin S
  OBVIOUS
<1>6. m # 0
  BY <1>1, <1>5
<1>7. m - 1 \in 0 .. n /\ ~(m <= m - 1)
  BY <1>5, <1>6
<1>8. f[m - 1] \in S
  BY <1>4, <1>7
<1> QED BY <1>1, <1>5, <1>6, <1>8

\* exp_acc of any two words is reduced.
LEMMA PowersAreCanonical ==
  ASSUME NEW n \in Nat, NEW element \in Words, NEW tail \in Words
  PROVE  /\ exp_acc(n, element, tail) \in Canonical
         /\ tail = 0 => exp_acc(n, element, tail) = 0
<1>1. PICK F : F = squared
  OBVIOUS
<1>2. F \in [Words -> Words]
  <2>1. Canonical \subseteq Words
    BY Sizes DEF Words, Canonical
  <2>2. \A x \in Words : mul(x, x) \in Words
    BY <2>1, MulIsOfField
  <2> QED BY <1>1, <2>2 DEF squared
<1> DEFINE Step(f) == [i \in 0 .. n |-> IF i = 0 THEN element ELSE F[f[i - 1]]]
           square == CHOOSE f : f = Step(f)
<1>3. \E f : f = Step(f)
  <2>1. PICK S : F \in [S -> S] /\ element \in S
    BY <1>2
  <2>2. PICK f : AreIterates(f, n, S, F, element)
    BY <2>1, IteratesExist
  <2>3. f = Step(f)
    BY <2>2 DEF AreIterates
  <2> QED BY <2>3
<1>4. square = Step(square)
  BY <1>3
<1>5. exp_acc(n, element, tail) = mul(square[n], tail)
  BY <1>1 DEF exp_acc
<1> HIDE DEF square
<1>6. square \in [0 .. n -> Words]
  <2>1. PICK S, f : S = Words /\ f = square
    OBVIOUS
  <2>2. F \in [S -> S] /\ element \in S
    BY <1>2, <2>1
  <2>3. f = [i \in 0 .. n |-> IF i = 0 THEN element ELSE F[f[i - 1]]]
    BY <1>4, <2>1
  <2>4. f \in [0 .. n -> S]
    BY <2>2, <2>3, IteratesStay, SMTT(30)
  <2> QED BY <2>1, <2>4
<1>7. square[n] \in Words
  BY <1>6
<1>8. tail = 0 => mul(square[n], tail) = 0
  <2>1. PICK w \in Words : w = square[n]
    BY <1>7
  <2>2. w * 0 = 0 /\ 0 = 0 * GOLDILOCKS_PRIME + 0 /\ 0 \in 0 .. GOLDILOCKS_PRIME - 1
    BY Sizes DEF Words
  <2>3. 0 % GOLDILOCKS_PRIME = 0
    BY Sizes
  <2>4. tail = 0 => mul(w, tail) = (w * 0) % GOLDILOCKS_PRIME
    BY MulIsOfField
  <2> QED BY <2>1, <2>2, <2>3, <2>4
<1> QED BY <1>5, <1>7, <1>8, MulIsOfField

=============================================================================
