---------------------------- MODULE DigestsProofs ----------------------------
(***************************************************************************)
(* The blake3 hasher for blocks and chunks of any length, messages of any  *)
(* number of chunks and any sequence of updates; the reads of xxHash; and   *)
(* the calls of g of the compression function, on words of 32 bits.        *)
(***************************************************************************)
EXTENDS Blake3Hasher, Blake3Compress, XxHash, FiniteSetTheorems, SequenceTheorems,
        WellFoundedInduction, TLAPS

-----------------------------------------------------------------------------
(* Numbers                                                                 *)

\* A set of naturals has a least element.
LEMMA LeastNumber ==
  ASSUME NEW T \in SUBSET Nat, T # {}
  PROVE  \E x \in T : \A y \in T : x <= y
<1> DEFINE R == OpToRel(<, Nat)
<1>1. IsWellFoundedOn(R, Nat)
  BY NatLessThanWellFounded
<1>2. \A x, y \in Nat : y < x => <<y, x>> \in R
  BY DEF OpToRel
<1> HIDE DEF R
<1>3. PICK x \in T : \A y \in T : ~ (<<y, x>> \in R)
  <2>1. \E x \in T : \A y \in T : ~ (<<y, x>> \in R)
    BY <1>1, WFMin
  <2> QED BY <2>1
<1>4. ASSUME NEW y \in T
      PROVE  x <= y
  <2>1. x \in Nat /\ y \in Nat
    OBVIOUS
  <2>2. ~(y < x)
    BY <1>2, <1>3, <2>1
  <2> QED BY <2>1, <2>2
<1> QED BY <1>4

\* What holds at 0 and at the next number holds up to n.
LEMMA UpTo ==
  ASSUME NEW n \in Nat, NEW T \in SUBSET (0 .. n), 0 \in T,
         \A k \in 1 .. n : k - 1 \in T => k \in T
  PROVE  T = 0 .. n
<1> DEFINE U == (0 .. n) \ T
<1>1. SUFFICES ASSUME U # {}
               PROVE  FALSE
  OBVIOUS
<1>2. PICK k \in U : \A y \in U : k <= y
  <2>1. U \in SUBSET Nat
    OBVIOUS
  <2> HIDE DEF U
  <2> QED BY <1>1, <2>1, LeastNumber
<1>3. k \in 1 .. n /\ k \notin T
  OBVIOUS
<1>4. k - 1 \in 0 .. n /\ ~(k <= k - 1)
  BY <1>3
<1>5. k - 1 \in T
  BY <1>2, <1>4
<1> QED BY <1>3, <1>5

\* A recursion over 0 .. n in a set has a solution.
Solves(f, n, e, F) == f[0] = e /\ \A k \in 1 .. n : f[k] = F[k][f[k - 1]]

\* A function that is defined step by step exists.
LEMMA StepsExist ==
  ASSUME NEW n \in Nat, NEW V, NEW e \in V, NEW F \in [1 .. n -> [V -> V]]
  PROVE  \E f \in [0 .. n -> V] : Solves(f, n, e, F)
<1> DEFINE Steps(f, m) == \A k \in 0 .. m : f[k] = IF k = 0 THEN e ELSE F[k][f[k - 1]]
           T == {m \in 0 .. n : \E f \in [0 .. m -> V] : Steps(f, m)}
<1>1. 0 \in T
  <2> DEFINE f == [k \in 0 .. 0 |-> e]
  <2>1. f \in [0 .. 0 -> V] /\ Steps(f, 0)
    OBVIOUS
  <2>2. 0 \in 0 .. n
    OBVIOUS
  <2> HIDE DEF f
  <2> QED BY <2>1, <2>2
<1>2. ASSUME NEW m \in 1 .. n, m - 1 \in T
      PROVE  m \in T
  <2>1. PICK fn \in [0 .. m - 1 -> V] : Steps(fn, m - 1)
    BY <1>2
  <2> DEFINE f == [k \in 0 .. m |-> IF k = m THEN F[m][fn[m - 1]] ELSE fn[k]]
  <2>2. ASSUME NEW k \in 0 .. m
        PROVE  f[k] = IF k = 0 THEN e ELSE F[k][f[k - 1]]
    <3>1. CASE k = m
      BY <3>1
    <3>2. CASE k # m
      <4>1. k \in 0 .. m - 1 /\ f[k] = fn[k]
        BY <3>2
      <4>2. fn[k] = IF k = 0 THEN e ELSE F[k][fn[k - 1]]
        BY <2>1, <4>1
      <4>3. k # 0 => f[k - 1] = fn[k - 1]
        BY <4>1
      <4> QED BY <4>1, <4>2, <4>3
    <3> QED BY <3>1, <3>2
  <2>3. f \in [0 .. m -> V]
    <3>1. fn[m - 1] \in V /\ F[m] \in [V -> V]
      OBVIOUS
    <3> QED BY <3>1
  <2>4. Steps(f, m)
    BY <2>2
  <2>5. m \in 0 .. n
    OBVIOUS
  <2> HIDE DEF f
  <2> QED BY <2>3, <2>4, <2>5
<1>3. T = 0 .. n
  <2>1. T \in SUBSET (0 .. n)
    OBVIOUS
  <2> HIDE DEF T
  <2> QED BY <1>1, <1>2, <2>1, UpTo
<1>4. PICK f \in [0 .. n -> V] : Steps(f, n)
  <2>1. n \in 0 .. n
    OBVIOUS
  <2>2. n \in T
    BY <1>3, <2>1
  <2> HIDE DEF Steps
  <2> QED BY <2>2
<1>5. f[0] = e /\ \A k \in 1 .. n : f[k] = F[k][f[k - 1]]
  BY <1>4
<1> QED BY <1>5 DEF Solves

-----------------------------------------------------------------------------
(* Powers of two                                                           *)

LEMMA Lengths ==
  /\ SIZE_BITS \in Nat \ {0} /\ MAX_DEPTH \in 0 .. SIZE_BITS - 1
  /\ BLOCK_LEN \in PowersOfTwo /\ BLOCK_LEN # 1
  /\ CHUNK_LEN \in PowersOfTwo /\ BLOCK_LEN <= CHUNK_LEN
BY HasherAssumption

LEMMA PowerSteps ==
  /\ power_of_two \in [0 .. (SIZE_BITS - 1) -> Nat] /\ power_of_two[0] = 1
  /\ \A n \in 1 .. (SIZE_BITS - 1) : power_of_two[n] = 2 * power_of_two[n - 1]
<1> DEFINE L == (SIZE_BITS - 1)
           Step(f) == [n \in 0 .. L |-> IF n = 0 THEN 1 ELSE 2 * f[n - 1]]
           F == [n \in 1 .. L |-> [x \in Nat |-> 2 * x]]
           p == CHOOSE f : f = Step(f)
<1>1. power_of_two = p
  BY DEF power_of_two
<1>2. L \in Nat
  BY Lengths
<1> HIDE DEF L
<1>3. PICK f \in [0 .. L -> Nat] : Solves(f, L, 1, F)
  <2>1. F \in [1 .. L -> [Nat -> Nat]] /\ 1 \in Nat
    OBVIOUS
  <2> HIDE DEF F
  <2> QED BY <1>2, <2>1, StepsExist
<1>4. f = Step(f)
  <2>1. ASSUME NEW n \in 0 .. L
        PROVE  f[n] = IF n = 0 THEN 1 ELSE 2 * f[n - 1]
    <3>1. CASE n = 0
      BY <1>3, <3>1 DEF Solves
    <3>2. CASE n # 0
      <4>1. n \in 1 .. L /\ f[n - 1] \in Nat
        BY <1>2, <3>2
      <4> QED BY <1>3, <3>2, <4>1 DEF Solves
    <3> QED BY <3>1, <3>2
  <2> QED BY <2>1
<1>5. p = Step(p)
  <2> HIDE DEF Step
  <2> QED BY <1>4
<1>6. \A n \in 0 .. L : p[n] = IF n = 0 THEN 1 ELSE 2 * p[n - 1]
  <2>1. \A n \in 0 .. L : p[n] = Step(p)[n]
    <3> HIDE DEF p, Step
    <3> QED BY <1>5
  <2> HIDE DEF p
  <2> QED BY <2>1
<1>7. p = [n \in 0 .. L |-> p[n]]
  <2> DEFINE q == Step(p)
  <2>1. q = [n \in 0 .. L |-> q[n]]
    OBVIOUS
  <2> HIDE DEF q, p
  <2> QED BY <1>5, <2>1 DEF q
<1> HIDE DEF p
<1> DEFINE T == {n \in 0 .. L : p[n] \in Nat}
<1>8. T = 0 .. L
  <2>1. 0 \in T /\ T \in SUBSET (0 .. L)
    BY <1>2, <1>6
  <2>2. ASSUME NEW k \in 1 .. L, k - 1 \in T
        PROVE  k \in T
    BY <1>6, <2>2
  <2> HIDE DEF T
  <2> QED BY <1>2, <2>1, <2>2, UpTo
<1>9. p \in [0 .. L -> Nat] /\ p[0] = 1 /\ \A n \in 1 .. L : p[n] = 2 * p[n - 1]
  <2>1. \A n \in 0 .. L : p[n] \in Nat
    BY <1>8
  <2>2. p \in [0 .. L -> Nat]
    BY <1>7, <2>1
  <2>3. 0 \in 0 .. L /\ \A n \in 1 .. L : n \in 0 .. L /\ n # 0
    BY <1>2
  <2> QED BY <1>6, <2>2, <2>3
<1> QED BY <1>1, <1>9 DEF L

\* A power of two is 1 or twice another.
LEMMA PowersAre ==
  /\ \A n \in 0 .. SIZE_BITS - 1 : power_of_two[n] \in PowersOfTwo
  /\ \A p \in PowersOfTwo :
       p \in Nat \ {0} /\ (p = 1 \/ \E h \in PowersOfTwo : p = 2 * h)
<1>1. SIZE_BITS - 1 \in Nat
  BY Lengths
<1> DEFINE T == {n \in 0 .. SIZE_BITS - 1 : power_of_two[n] # 0}
<1>2. T = 0 .. SIZE_BITS - 1
  <2>1. 0 \in T /\ T \in SUBSET (0 .. SIZE_BITS - 1)
    BY <1>1, PowerSteps
  <2>2. ASSUME NEW k \in 1 .. SIZE_BITS - 1, k - 1 \in T
        PROVE  k \in T
    <3>1. power_of_two[k - 1] \in Nat /\ power_of_two[k - 1] # 0
          /\ power_of_two[k] = 2 * power_of_two[k - 1] /\ k \in 0 .. SIZE_BITS - 1
      BY <1>1, <2>2, PowerSteps
    <3> QED BY <3>1
  <2> HIDE DEF T
  <2> QED BY <1>1, <2>1, <2>2, UpTo
<1>3. ASSUME NEW p \in PowersOfTwo
      PROVE  p \in Nat \ {0} /\ (p = 1 \/ \E h \in PowersOfTwo : p = 2 * h)
  <2>1. PICK n \in 0 .. SIZE_BITS - 1 : p = power_of_two[n]
    BY DEF PowersOfTwo
  <2>2. p \in Nat \ {0}
    BY <1>2, <2>1, PowerSteps
  <2>3. CASE n = 0
    BY <2>1, <2>2, <2>3, PowerSteps
  <2>4. CASE n # 0
    <3>1. n \in 1 .. SIZE_BITS - 1 /\ n - 1 \in 0 .. SIZE_BITS - 1
      BY <1>1, <2>4
    <3>2. p = 2 * power_of_two[n - 1] /\ power_of_two[n - 1] \in PowersOfTwo
      BY <2>1, <3>1, PowerSteps DEF PowersOfTwo
    <3> QED BY <2>2, <3>2
  <2> QED BY <2>3, <2>4
<1> QED BY <1>3 DEF PowersOfTwo

\* A power is a product of a smaller one and another.
LEMMA PowersMultiply ==
  ASSUME NEW i \in 0 .. SIZE_BITS - 1
  PROVE  \A j \in i .. SIZE_BITS - 1 :
           power_of_two[j] = power_of_two[i] * power_of_two[j - i]
<1> DEFINE m == SIZE_BITS - 1 - i
           T == {d \in 0 .. m : power_of_two[i + d] = power_of_two[i] * power_of_two[d]}
<1>1. m \in Nat /\ SIZE_BITS - 1 \in Nat /\ i \in Nat
  BY Lengths
<1>2. power_of_two[i] \in Nat
  BY PowerSteps
<1>3. 0 \in T /\ T \in SUBSET (0 .. m)
  <2>1. i + 0 = i
    BY <1>1
  <2> QED BY <1>1, <1>2, <2>1, PowerSteps
<1>4. ASSUME NEW k \in 1 .. m, k - 1 \in T
      PROVE  k \in T
  <2>1. /\ k \in 1 .. SIZE_BITS - 1 /\ i + k \in 1 .. SIZE_BITS - 1
        /\ i + k - 1 = i + (k - 1) /\ k - 1 \in 0 .. SIZE_BITS - 1 /\ k \in 0 .. m
    BY <1>1
  <2>2. power_of_two[i + k] = 2 * power_of_two[i + (k - 1)]
        /\ power_of_two[k] = 2 * power_of_two[k - 1]
    BY <2>1, PowerSteps
  <2>3. power_of_two[i + (k - 1)] = power_of_two[i] * power_of_two[k - 1]
    BY <1>4
  <2>4. power_of_two[k - 1] \in Nat
    BY <2>1, PowerSteps
  <2>5. 2 * (power_of_two[i] * power_of_two[k - 1]) = power_of_two[i] * (2 * power_of_two[k - 1])
    BY <1>2, <2>4
  <2> QED BY <2>1, <2>2, <2>3, <2>5
<1>5. T = 0 .. m
  <2> HIDE DEF T, m
  <2> QED BY <1>1, <1>3, <1>4, UpTo
<1>6. ASSUME NEW j \in i .. SIZE_BITS - 1
      PROVE  power_of_two[j] = power_of_two[i] * power_of_two[j - i]
  <2>1. j - i \in 0 .. m /\ i + (j - i) = j
    BY <1>1
  <2> QED BY <1>5, <2>1
<1> QED BY <1>6

\* Of two powers the smaller one divides the larger, and so does its double.
LEMMA PowersDivide ==
  ASSUME NEW p \in PowersOfTwo, NEW q \in PowersOfTwo
  PROVE  /\ p <= q => \E r \in PowersOfTwo : q = p * r
         /\ p < q => 2 * p \in PowersOfTwo /\ 2 * p <= q
<1>1. PICK i \in 0 .. SIZE_BITS - 1, j \in 0 .. SIZE_BITS - 1 :
        p = power_of_two[i] /\ q = power_of_two[j]
  BY DEF PowersOfTwo
<1>2. p \in Nat \ {0} /\ q \in Nat \ {0} /\ SIZE_BITS - 1 \in Nat
  BY PowersAre, Lengths
<1>3. CASE j <= i
  <2>1. PICK r : r = power_of_two[i - j]
    OBVIOUS
  <2>2. i - j \in 0 .. SIZE_BITS - 1 /\ i \in j .. SIZE_BITS - 1
    BY <1>2, <1>3
  <2>3. p = q * r /\ r \in PowersOfTwo /\ r \in Nat \ {0}
    BY <1>1, <2>1, <2>2, PowersMultiply, PowersAre
  <2>4. q <= p
    <3>1. PICK s \in Nat : r = s + 1
      <4>1. r - 1 \in Nat /\ r = (r - 1) + 1
        BY <2>3
      <4> QED BY <4>1
    <3>2. p = q * s + q /\ q * s \in Nat
      BY <1>2, <2>3, <3>1
    <3> QED BY <1>2, <3>2
  <2>5. p <= q => q = p * 1
    BY <1>2, <2>4
  <2>6. 1 \in PowersOfTwo
    BY <1>2, PowerSteps DEF PowersOfTwo
  <2> QED BY <1>2, <2>4, <2>5, <2>6
<1>4. CASE i < j
  <2>1. PICK r, h : r = power_of_two[j - i] /\ h = power_of_two[j - i - 1]
    OBVIOUS
  <2>2. /\ j - i \in 1 .. SIZE_BITS - 1 /\ j - i - 1 \in 0 .. SIZE_BITS - 1
        /\ j \in i .. SIZE_BITS - 1 /\ j - i \in 0 .. SIZE_BITS - 1
        /\ i + 1 \in 1 .. SIZE_BITS - 1 /\ i + 1 - 1 = i
    BY <1>2, <1>4
  <2>3. q = p * r /\ r \in PowersOfTwo
    BY <1>1, <2>1, <2>2, PowersMultiply, PowersAre
  <2>4. r = 2 * h /\ h \in Nat \ {0}
    <3>1. r = 2 * h
      BY <2>1, <2>2, PowerSteps
    <3> QED BY <2>1, <2>2, <3>1, PowersAre
  <2>5. 2 * p \in PowersOfTwo
    <3>1. power_of_two[i + 1] = 2 * p
      BY <1>1, <2>2, PowerSteps
    <3> QED BY <2>2, <3>1, PowersAre
  <2>6. 2 * p <= q
    <3>1. PICK s \in Nat : h = s + 1
      <4>1. h - 1 \in Nat /\ h = (h - 1) + 1
        BY <2>4
      <4> QED BY <4>1
    <3>2. q = 2 * (p * s) + 2 * p
      BY <1>2, <2>3, <2>4, <3>1
    <3>3. p * s \in Nat
      BY <1>2
    <3> QED BY <1>2, <3>2, <3>3
  <2> QED BY <2>3, <2>5, <2>6
<1> QED BY <1>1, <1>3, <1>4

-----------------------------------------------------------------------------
(* Multiples                                                               *)

Divides(p, x) == \E q \in Nat : x = p * q

LEMMA Quotient ==
  ASSUME NEW p \in Nat \ {0}, NEW q \in Nat, NEW r \in 0 .. p - 1
  PROVE  (p * q + r) \div p = q /\ (p * q + r) % p = r
OBVIOUS

\* Division with remainder, with nothing but facts SMT multiplies.
LEMMA QuotientRemainder ==
  ASSUME NEW p \in Nat \ {0}, NEW x \in Nat
  PROVE  /\ x \div p \in Nat /\ x % p \in 0 .. p - 1
         /\ x = p * (x \div p) + (x % p)
<1> DEFINE q == x \div p
           r == x % p
<1>1. q \in Int /\ r \in 0 .. p - 1 /\ x = q * p + r
  OBVIOUS
<1> HIDE DEF q, r
<1>2. q >= 0
  <2> SUFFICES ASSUME q < 0
               PROVE  FALSE
    BY <1>1
  <2>1. PICK e \in Nat : q = -1 - e
    <3>1. -1 - q \in Nat /\ q = -1 - (-1 - q)
      BY <1>1
    <3> QED BY <3>1
  <2>2. q * p = -p - e * p /\ e * p \in Nat
    BY <2>1
  <2> QED BY <1>1, <2>2
<1>3. q \in Nat /\ r \in 0 .. p - 1 /\ x = p * q + r
  BY <1>1, <1>2
<1> QED BY <1>3 DEF q, r

LEMMA RemainderOfMultiple ==
  ASSUME NEW p \in Nat \ {0}, NEW x \in Nat
  PROVE  x % p = 0 <=> Divides(p, x)
<1>1. ASSUME x % p = 0
      PROVE  Divides(p, x)
  <2>1. PICK q, r : q = x \div p /\ r = x % p
    OBVIOUS
  <2>2. q \in Nat /\ r = 0 /\ x = p * q + r
    BY <1>1, <2>1, QuotientRemainder
  <2>3. x = p * q
    BY <2>2
  <2> QED BY <2>2, <2>3 DEF Divides
<1>2. ASSUME Divides(p, x)
      PROVE  x % p = 0
  <2>1. PICK q \in Nat : x = p * q
    BY <1>2 DEF Divides
  <2>2. 0 \in 0 .. p - 1
    OBVIOUS
  <2>3. PICK y : y = p * q
    OBVIOUS
  <2>4. y \in Nat /\ y + 0 = y
    BY <2>3
  <2>5. (y + 0) % p = 0
    BY <2>2, <2>3, Quotient
  <2> QED BY <2>1, <2>3, <2>4, <2>5
<1> QED BY <1>1, <1>2

\* Of three numbers two of which add up to the third, a divisor of two divides
\* all.
LEMMA DividesSums ==
  ASSUME NEW p \in Nat \ {0}, NEW x \in Nat, NEW y \in Nat
  PROVE  /\ Divides(p, x) /\ Divides(p, y) => Divides(p, x + y)
         /\ Divides(p, x + y) /\ Divides(p, x) => Divides(p, y)
         /\ Divides(p, x + y) /\ Divides(p, y) => Divides(p, x)
         /\ Divides(p, 0) /\ Divides(p, p)
<1>1. ASSUME Divides(p, x), Divides(p, y)
      PROVE  Divides(p, x + y)
  <2>1. PICK q \in Nat, r \in Nat : x = p * q /\ y = p * r
    BY <1>1 DEF Divides
  <2>2. x + y = p * (q + r) /\ q + r \in Nat
    BY <2>1
  <2> QED BY <2>2 DEF Divides
<1>2. ASSUME NEW u \in Nat, NEW v \in Nat, Divides(p, u + v), Divides(p, u)
      PROVE  Divides(p, v)
  <2>1. PICK q \in Nat, r \in Nat : u = p * q /\ u + v = p * r
    BY <1>2 DEF Divides
  <2>2. CASE r < q
    <3>1. PICK e \in Nat : q = r + 1 + e
      <4>1. q - r - 1 \in Nat /\ q = r + 1 + (q - r - 1)
        BY <2>2
      <4> QED BY <4>1
    <3>2. p * q = p * r + p + p * e /\ p * e \in Nat /\ p * r \in Nat
      BY <3>1
    <3> QED BY <2>1, <3>2
  <2>3. CASE q <= r
    <3>1. PICK e \in Nat : r = q + e
      <4>1. r - q \in Nat /\ r = q + (r - q)
        BY <2>3
      <4> QED BY <4>1
    <3>2. p * r = p * q + p * e /\ p * e \in Nat /\ p * q \in Nat
      BY <3>1
    <3>3. v = p * e
      BY <2>1, <3>2
    <3> QED BY <3>3 DEF Divides
  <2> QED BY <2>2, <2>3
<1>3. Divides(p, 0) /\ Divides(p, p)
  <2>1. 0 = p * 0 /\ p = p * 1
    OBVIOUS
  <2> QED BY <2>1 DEF Divides
<1>4. x + y = y + x
  OBVIOUS
<1> QED BY <1>1, <1>2, <1>3, <1>4

\* A multiple of a power is one of every smaller power.
LEMMA DividesLess ==
  ASSUME NEW p \in PowersOfTwo, NEW q \in PowersOfTwo, p <= q, NEW x, Divides(q, x)
  PROVE  Divides(p, x)
<1>1. PICK r \in PowersOfTwo : q = p * r
  BY PowersDivide
<1>2. PICK y \in Nat : x = q * y
  BY DEF Divides
<1>3. x = p * (r * y) /\ r * y \in Nat
  BY <1>1, <1>2, PowersAre
<1> QED BY <1>3 DEF Divides

\* A multiple is an even or an odd one.
LEMMA EvenOrOdd ==
  ASSUME NEW p \in Nat \ {0}, NEW x \in Nat
  PROVE  /\ Divides(p, x) => Divides(2 * p, x) \/ \E y \in Nat : Divides(2 * p, y) /\ x = y + p
         /\ Divides(2 * p, x) => Divides(p, x) /\ ~Divides(2 * p, x + p)
<1>1. ASSUME Divides(p, x)
      PROVE  Divides(2 * p, x) \/ \E y \in Nat : Divides(2 * p, y) /\ x = y + p
  <2>1. PICK q \in Nat : x = p * q
    BY <1>1 DEF Divides
  <2>2. PICK h \in Nat : q = 2 * h \/ q = 2 * h + 1
    <3>1. PICK h, r : h = q \div 2 /\ r = q % 2
      OBVIOUS
    <3>2. h \in Nat /\ r \in 0 .. 2 - 1 /\ q = 2 * h + r
      BY <3>1, QuotientRemainder
    <3>3. r = 0 \/ r = 1
      BY <3>2
    <3> QED BY <3>2, <3>3
  <2>3. CASE q = 2 * h
    <3>1. x = (2 * p) * h
      BY <2>1, <2>3
    <3> QED BY <3>1 DEF Divides
  <2>4. CASE q = 2 * h + 1
    <3>1. x = (2 * p) * h + p /\ (2 * p) * h \in Nat
      BY <2>1, <2>4
    <3>2. Divides(2 * p, (2 * p) * h)
      BY DEF Divides
    <3> QED BY <3>1, <3>2
  <2> QED BY <2>2, <2>3, <2>4
<1>2. ASSUME Divides(2 * p, x)
      PROVE  Divides(p, x)
  <2>1. PICK q \in Nat : x = (2 * p) * q
    BY <1>2 DEF Divides
  <2>2. x = p * (2 * q) /\ 2 * q \in Nat
    BY <2>1
  <2> QED BY <2>2 DEF Divides
<1>3. ASSUME Divides(2 * p, x), Divides(2 * p, x + p)
      PROVE  FALSE
  <2>1. 2 * p \in Nat \ {0} /\ p \in Nat
    OBVIOUS
  <2>2. Divides(2 * p, p)
    BY <1>3, <2>1, DividesSums
  <2>3. PICK q \in Nat : p = (2 * p) * q
    BY <2>2 DEF Divides
  <2>4. q # 0
    BY <2>3
  <2>5. PICK e \in Nat : q = e + 1
    <3>1. q - 1 \in Nat /\ q = (q - 1) + 1
      BY <2>4
    <3> QED BY <3>1
  <2>6. p = 2 * (p * e) + 2 * p /\ p * e \in Nat
    BY <2>3, <2>5
  <2> QED BY <2>6
<1> QED BY <1>1, <1>2, <1>3

-----------------------------------------------------------------------------
(* The bits of a number                                                    *)

Bits(x) == {i \in 0 .. SIZE_BITS - 1 : (x \div power_of_two[i]) % 2 = 1}

\* popcnt counts a finite set.
LEMMA BitsAreFinite ==
  ASSUME NEW x
  PROVE  IsFiniteSet(Bits(x)) /\ popcnt(x) = Cardinality(Bits(x)) /\ popcnt(x) \in Nat
<1>1. IsFiniteSet(0 .. SIZE_BITS - 1) /\ Bits(x) \in SUBSET (0 .. SIZE_BITS - 1)
  BY Lengths, FS_Interval DEF Bits
<1>2. IsFiniteSet(Bits(x))
  BY <1>1, FS_Subset
<1> QED BY <1>2, FS_CardinalityType DEF popcnt, Bits

\* Adding a power to a multiple of its double sets its bit.
LEMMA AddingABit ==
  ASSUME NEW k \in 0 .. SIZE_BITS - 1, NEW x \in Nat, Divides(2 * power_of_two[k], x)
  PROVE  k \notin Bits(x) /\ Bits(x + power_of_two[k]) = Bits(x) \cup {k}
<1>1. PICK p \in Nat \ {0} : p = power_of_two[k]
  BY PowersAre
<1>2. PICK q \in Nat : x = (2 * p) * q
  BY <1>1 DEF Divides
<1>3. ASSUME NEW i \in 0 .. SIZE_BITS - 1, i < k
      PROVE  i \notin Bits(x) /\ i \notin Bits(x + p)
  <2>1. PICK s \in Nat \ {0} : s = power_of_two[i]
    BY PowersAre
  <2>2. PICK m \in Nat : p = s * (2 * m)
    <3>1. k - i \in 1 .. SIZE_BITS - 1 /\ k - i - 1 \in 0 .. SIZE_BITS - 1 /\ k \in i .. SIZE_BITS - 1
      BY <1>3, Lengths
    <3>2. p = s * power_of_two[k - i] /\ power_of_two[k - i] = 2 * power_of_two[k - i - 1]
          /\ power_of_two[k - i - 1] \in Nat
      BY <1>1, <2>1, <3>1, PowersMultiply, PowerSteps
    <3> QED BY <3>2
  <2>3. \A y \in Nat : (s * (2 * y)) \div s = 2 * y
    <3>1. ASSUME NEW y \in Nat
          PROVE  (s * (2 * y)) \div s = 2 * y
      <4>1. PICK z \in Nat : z = 2 * y
        OBVIOUS
      <4>2. 0 \in 0 .. s - 1 /\ s * z + 0 = s * z
        BY <4>1
      <4>3. (s * z + 0) \div s = z
        BY <4>2, Quotient
      <4> QED BY <4>1, <4>2, <4>3
    <3> QED BY <3>1
  <2>4. x = s * (2 * (2 * m * q)) /\ 2 * m * q \in Nat
    BY <1>2, <2>2
  <2>5. x + p = s * (2 * (2 * m * q + m)) /\ 2 * m * q + m \in Nat
    <3>1. PICK w : w = 2 * m * q
      OBVIOUS
    <3>2. w \in Nat /\ x = s * (2 * w)
      BY <2>4, <3>1
    <3>3. s * (2 * w) + s * (2 * m) = s * (2 * (w + m))
      BY <3>2
    <3> QED BY <2>2, <3>1, <3>2, <3>3
  <2>6. \A y \in Nat : (2 * y) % 2 # 1
    OBVIOUS
  <2> QED BY <2>1, <2>3, <2>4, <2>5, <2>6 DEF Bits
<1>4. k \notin Bits(x) /\ k \in Bits(x + p)
  <2>1. PICK a \in Nat, b \in Nat : a = 2 * q /\ b = 2 * q + 1
    OBVIOUS
  <2>2. x = p * a + 0 /\ x + p = p * b + 0 /\ 0 \in 0 .. p - 1
    BY <1>2, <2>1
  <2>3. (p * a + 0) \div p = a /\ (p * b + 0) \div p = b
    BY <2>2, Quotient
  <2>4. a % 2 # 1 /\ b % 2 = 1
    BY <2>1
  <2>5. x \div p = a /\ (x + p) \div p = b
    <3>1. p * a + 0 = x /\ p * b + 0 = x + p
      BY <2>2
    <3> QED BY <2>3, <3>1
  <2>6. (x \div power_of_two[k]) % 2 # 1 /\ ((x + p) \div power_of_two[k]) % 2 = 1
    BY <1>1, <2>4, <2>5, Zenon
  <2> QED BY <2>6 DEF Bits
<1>5. ASSUME NEW i \in 0 .. SIZE_BITS - 1, k < i
      PROVE  i \in Bits(x) <=> i \in Bits(x + p)
  <2>1. PICK s \in Nat \ {0} : s = power_of_two[i]
    BY PowersAre
  <2>2. PICK m \in Nat \ {0} : s = (2 * p) * m
    <3>1. i - k \in 1 .. SIZE_BITS - 1 /\ i - k - 1 \in 0 .. SIZE_BITS - 1 /\ i \in k .. SIZE_BITS - 1
      BY <1>5, Lengths
    <3>2. s = p * power_of_two[i - k] /\ power_of_two[i - k] = 2 * power_of_two[i - k - 1]
          /\ power_of_two[i - k - 1] \in Nat \ {0}
      BY <1>1, <2>1, <3>1, PowersMultiply, PowerSteps, PowersAre
    <3>3. PICK h \in Nat \ {0} : h = power_of_two[i - k - 1]
      BY <3>2
    <3>4. s = (2 * p) * h
      BY <3>2, <3>3
    <3> QED BY <3>4
  <2>3. PICK u \in Nat, v \in 0 .. m - 1 : q = m * u + v
    <3>1. q \div m \in Nat /\ q % m \in 0 .. m - 1 /\ q = m * (q \div m) + (q % m)
      BY QuotientRemainder, Zenon
    <3>2. \A a \in Nat, b \in 0 .. m - 1 :
            q = m * a + b => \E u \in Nat, v \in 0 .. m - 1 : q = m * u + v
      BY Zenon
    <3> QED BY <3>1, <3>2, Zenon
  <2>4. PICK w \in Nat, d \in Nat : v = w /\ m = w + 1 + d
    <3>1. m - v - 1 \in Nat /\ m = v + 1 + (m - v - 1)
      OBVIOUS
    <3> QED BY <3>1
  <2>5. s = (2 * p) * w + 2 * p + (2 * p) * d
    BY <2>2, <2>4
  <2>6. PICK e, f : e = (2 * p) * w /\ f = (2 * p) * d
    OBVIOUS
  <2>7. e \in Nat /\ f \in Nat /\ s = e + 2 * p + f
    BY <2>5, <2>6
  <2>8. e \in 0 .. s - 1 /\ e + p \in 0 .. s - 1
    BY <2>7
  <2>9. x = s * u + e
    <3>1. x = (2 * p) * (m * u + w)
      BY <1>2, <2>3, <2>4
    <3>2. (2 * p) * (m * u + w) = ((2 * p) * m) * u + (2 * p) * w
      BY <2>4
    <3> QED BY <2>2, <2>6, <3>1, <3>2
  <2>10. PICK y \in Nat : y = s * u
    OBVIOUS
  <2>11. x + p = s * u + (e + p)
    BY <2>7, <2>9, <2>10
  <2>12. (s * u + e) \div s = u /\ (s * u + (e + p)) \div s = u
    BY <2>8, Quotient
  <2> QED BY <2>1, <2>9, <2>11, <2>12 DEF Bits
<1>6. ASSUME NEW i \in 0 .. SIZE_BITS - 1
      PROVE  i \in Bits(x + p) <=> i \in Bits(x) \cup {k}
  <2>1. i < k \/ i = k \/ k < i
    OBVIOUS
  <2> QED BY <1>3, <1>4, <1>5, <2>1
<1>7. \A y : Bits(y) \in SUBSET (0 .. SIZE_BITS - 1)
  BY DEF Bits
<1> QED BY <1>1, <1>4, <1>6, <1>7

\* Adding a power of two below every bit adds one bit.
LEMMA PopcntOfSum ==
  ASSUME NEW p \in PowersOfTwo, NEW x \in Nat, Divides(2 * p, x)
  PROVE  popcnt(x + p) = popcnt(x) + 1
<1>1. PICK k \in 0 .. SIZE_BITS - 1 : p = power_of_two[k]
  BY DEF PowersOfTwo
<1>2. k \notin Bits(x) /\ Bits(x + p) = Bits(x) \cup {k}
  BY <1>1, AddingABit
<1>3. IsFiniteSet(Bits(x)) /\ popcnt(x) = Cardinality(Bits(x))
      /\ popcnt(x + p) = Cardinality(Bits(x + p))
  BY BitsAreFinite
<1>4. Cardinality(Bits(x) \cup {k}) = Cardinality(Bits(x)) + 1
  BY <1>2, <1>3, FS_AddElement
<1> QED BY <1>2, <1>3, <1>4

LEMMA PopcntOfZero == popcnt(0) = 0
<1>1. ASSUME NEW i \in 0 .. SIZE_BITS - 1
      PROVE  i \notin Bits(0)
  <2>1. PICK s \in Nat \ {0} : s = power_of_two[i]
    BY PowersAre
  <2>2. 0 \in 0 .. s - 1 /\ s * 0 + 0 = 0
    OBVIOUS
  <2>3. 0 \div s = 0
    <3>1. (s * 0 + 0) \div s = 0
      BY <2>2, Quotient
    <3> QED BY <2>2, <3>1
  <2>4. 0 % 2 # 1
    OBVIOUS
  <2> QED BY <2>1, <2>3, <2>4 DEF Bits
<1>2. Bits(0) = {}
  BY <1>1 DEF Bits
<1> QED BY <1>2, BitsAreFinite, FS_EmptySet

\* The largest power.
Top == power_of_two[SIZE_BITS - 1]

\* A size has room for no power of two above this one.
LEMMA TopIsLargest ==
  Top \in PowersOfTwo /\ \A p \in PowersOfTwo : p <= Top
<1>1. SIZE_BITS - 1 \in 0 .. SIZE_BITS - 1
  BY Lengths
<1>2. ASSUME NEW p \in PowersOfTwo
      PROVE  p <= Top
  <2>1. PICK k \in 0 .. SIZE_BITS - 1 : p = power_of_two[k]
    BY DEF PowersOfTwo
  <2>2. SIZE_BITS - 1 \in k .. SIZE_BITS - 1 /\ SIZE_BITS - 1 - k \in 0 .. SIZE_BITS - 1
    BY Lengths
  <2>3. PICK r \in Nat \ {0} : Top = p * r
    BY <2>1, <2>2, PowersMultiply, PowersAre DEF Top
  <2>4. PICK e \in Nat : r = e + 1
    <3>1. r - 1 \in Nat /\ r = (r - 1) + 1
      OBVIOUS
    <3> QED BY <3>1
  <2>5. p \in Nat
    BY PowersAre
  <2>6. Top = p * e + p /\ p * e \in Nat
    BY <2>3, <2>4, <2>5
  <2> QED BY <2>5, <2>6
<1> QED BY <1>1, <1>2, PowersAre DEF Top

\* The double of a power is a power, unless it is above the largest.
LEMMA DoubleIsPower ==
  ASSUME NEW p \in PowersOfTwo, 2 * p <= Top
  PROVE  2 * p \in PowersOfTwo
<1>1. p \in Nat \ {0} /\ Top \in Nat /\ Top \in PowersOfTwo
  BY TopIsLargest, PowersAre
<1>2. p < Top
  BY <1>1
<1> QED BY <1>1, <1>2, PowersDivide

\* Adding a power to an odd multiple of it carries, and sets no more bits.
LEMMA PopcntOfCarry ==
  ASSUME NEW p \in PowersOfTwo, NEW x \in Nat, Divides(p, x), ~Divides(2 * p, x), x + p <= Top
  PROVE  popcnt(x + p) <= popcnt(x)
<1> DEFINE Carries(q) == \A y \in Nat : Divides(q, y) /\ ~Divides(2 * q, y) /\ y + q <= Top
                           => popcnt(y + q) <= popcnt(y)
           T == {d \in 0 .. SIZE_BITS - 1 : Carries(power_of_two[SIZE_BITS - 1 - d])}
<1>1. SIZE_BITS - 1 \in Nat
  BY Lengths
<1>2. Top \in Nat /\ \A q \in PowersOfTwo : q \in Nat \ {0}
  BY TopIsLargest, PowersAre
<1>3. ASSUME NEW q \in PowersOfTwo, NEW y \in Nat, Divides(q, y), ~Divides(2 * q, y), y + q <= Top
      PROVE  \E z \in Nat : /\ y = z + q /\ Divides(2 * q, z) /\ popcnt(y) = popcnt(z) + 1
                            /\ 2 * q \in PowersOfTwo /\ y + q = z + 2 * q
  <2>1. PICK z \in Nat : Divides(2 * q, z) /\ y = z + q
    BY <1>2, <1>3, EvenOrOdd
  <2>2. 2 * q <= Top /\ y + q = z + 2 * q
    BY <1>2, <1>3, <2>1
  <2> QED BY <2>1, <2>2, DoubleIsPower, PopcntOfSum
<1>4. 0 \in T /\ T \in SUBSET (0 .. SIZE_BITS - 1)
  <2>1. ASSUME NEW y \in Nat, Divides(Top, y), ~Divides(2 * Top, y), y + Top <= Top
        PROVE  FALSE
    <3>1. PICK z \in Nat : y = z + Top
      BY <1>3, <2>1, TopIsLargest
    <3> QED BY <1>2, <2>1, <3>1, TopIsLargest
  <2>2. SIZE_BITS - 1 - 0 = SIZE_BITS - 1
    BY <1>1
  <2> QED BY <1>1, <2>1, <2>2 DEF Top
<1>5. ASSUME NEW d \in 1 .. SIZE_BITS - 1, d - 1 \in T
      PROVE  d \in T
  <2>1. PICK q : q = power_of_two[SIZE_BITS - 1 - d]
    OBVIOUS
  <2>2. SIZE_BITS - 1 - d \in 0 .. SIZE_BITS - 1 /\ SIZE_BITS - 1 - (d - 1) \in 1 .. SIZE_BITS - 1
        /\ SIZE_BITS - 1 - (d - 1) - 1 = SIZE_BITS - 1 - d
    BY <1>1
  <2>3. q \in PowersOfTwo /\ power_of_two[SIZE_BITS - 1 - (d - 1)] = 2 * q
    BY <2>1, <2>2, PowersAre, PowerSteps
  <2>4. Carries(2 * q)
    BY <1>5, <2>3
  <2>5. ASSUME NEW y \in Nat, Divides(q, y), ~Divides(2 * q, y), y + q <= Top
        PROVE  popcnt(y + q) <= popcnt(y)
    <3>1. PICK z \in Nat : /\ y = z + q /\ Divides(2 * q, z) /\ popcnt(y) = popcnt(z) + 1
                           /\ 2 * q \in PowersOfTwo /\ y + q = z + 2 * q
      BY <1>3, <2>3, <2>5
    <3>2. popcnt(z) \in Nat
      BY BitsAreFinite
    <3>3. CASE Divides(2 * (2 * q), z)
      <4>1. popcnt(z + 2 * q) = popcnt(z) + 1
        BY <3>1, <3>3, PopcntOfSum
      <4> QED BY <3>1, <3>2, <4>1
    <3>4. CASE ~Divides(2 * (2 * q), z)
      <4>1. z + 2 * q <= Top
        BY <2>5, <3>1
      <4>2. popcnt(z + 2 * q) <= popcnt(z)
        BY <2>4, <3>1, <3>4, <4>1
      <4>3. popcnt(z + 2 * q) \in Nat
        BY BitsAreFinite
      <4>4. popcnt(y + q) = popcnt(z + 2 * q)
        BY <3>1
      <4> HIDE DEF Carries
      <4> QED BY <3>1, <3>2, <4>2, <4>3, <4>4
    <3> QED BY <3>3, <3>4
  <2> QED BY <1>1, <2>1, <2>5
<1>6. T = 0 .. SIZE_BITS - 1
  <2> HIDE DEF T
  <2> QED BY <1>1, <1>4, <1>5, UpTo
<1>7. Carries(p)
  <2>1. PICK k \in 0 .. SIZE_BITS - 1 : p = power_of_two[k]
    BY DEF PowersOfTwo
  <2>2. SIZE_BITS - 1 - k \in T /\ SIZE_BITS - 1 - (SIZE_BITS - 1 - k) = k
    BY <1>1, <1>6
  <2> QED BY <2>1, <2>2
<1> QED BY <1>7

\* A number has no more bits than places.
LEMMA PopcntIsBounded ==
  ASSUME NEW m \in 0 .. SIZE_BITS - 1, NEW x \in Nat, x < power_of_two[m]
  PROVE  popcnt(x) <= m
<1>1. ASSUME NEW i \in m .. SIZE_BITS - 1
      PROVE  i \notin Bits(x)
  <2>1. i \in 0 .. SIZE_BITS - 1 /\ i - m \in 0 .. SIZE_BITS - 1
    BY Lengths
  <2>2. PICK s \in Nat \ {0}, p \in Nat \ {0}, r \in Nat \ {0} :
          s = power_of_two[i] /\ p = power_of_two[m] /\ r = power_of_two[i - m]
    BY <2>1, PowersAre
  <2>3. s = p * r
    BY <2>2, PowersMultiply
  <2>4. x < s
    <3>1. PICK e \in Nat : r = e + 1
      <4>1. r - 1 \in Nat /\ r = (r - 1) + 1
        OBVIOUS
      <4> QED BY <4>1
    <3>2. s = p * e + p /\ p * e \in Nat
      BY <2>3, <3>1
    <3> QED BY <2>2, <3>2
  <2>5. x \in 0 .. s - 1 /\ s * 0 + x = x
    BY <2>4
  <2>6. x \div s = 0
    <3>1. (s * 0 + x) \div s = 0
      BY <2>5, Quotient
    <3> QED BY <2>5, <3>1
  <2>7. 0 % 2 # 1
    OBVIOUS
  <2> QED BY <2>2, <2>6, <2>7 DEF Bits
<1>2. Bits(x) \in SUBSET (0 .. m - 1)
  <2>1. ASSUME NEW i \in Bits(x)
        PROVE  i \in 0 .. m - 1
    <3>1. i \in 0 .. SIZE_BITS - 1
      BY DEF Bits
    <3> QED BY <1>1, <3>1
  <2> QED BY <2>1
<1>3. IsFiniteSet(0 .. m - 1) /\ Cardinality(0 .. m - 1) = m
  <2>1. 0 \in Int /\ m - 1 \in Int /\ m \in Nat
    OBVIOUS
  <2>2. IsFiniteSet(0 .. m - 1) /\ Cardinality(0 .. m - 1) = IF 0 > m - 1 THEN 0 ELSE (m - 1) - 0 + 1
    BY <2>1, FS_Interval
  <2> QED BY <2>1, <2>2
<1>4. Cardinality(Bits(x)) <= Cardinality(0 .. m - 1)
  BY <1>2, <1>3, FS_Subset
<1> QED BY <1>3, <1>4, BitsAreFinite

-----------------------------------------------------------------------------
(* xxHash                                                                  *)

\* The cursor is in the input, whatever loop is going on.
CursorOK ==
  /\ request \in Messages \cup {NoCall}
  /\ step \in {"returned", "stripes", "tail"}
  /\ src \in 0 .. Len(request.input)
  /\ step = "returned" => src = Len(request.input)

\* The calls, and none, are of one of the two widths.
LEMMA CallsAre ==
  ASSUME NEW c \in Messages \cup {NoCall}
  PROVE  c.bits \in {32, 64} /\ Len(c.input) \in Nat
<1>1. CASE c \in Messages
  BY <1>1, MessagesAssumption
<1>2. CASE c = NoCall
  BY <1>2 DEF NoCall
<1> QED BY <1>1, <1>2

\* Every loop stops at its limit, and the last one at the end.
LEMMA CursorStep ==
  ASSUME CursorOK, [XxNext]_xxhashVars
  PROVE  CursorOK'
<1> USE DEF CursorOK
<1>1. ASSUME UNCHANGED xxhashVars
      PROVE  CursorOK'
  BY <1>1 DEF xxhashVars
<1>2. ASSUME NEW c \in Messages, xxh(c)
      PROVE  CursorOK'
  <2>1. request' = c /\ src' = 0 /\ step' \in {"stripes", "tail"}
    BY <1>2 DEF xxh
  <2> QED BY <2>1, CallsAre
<1>3. PICK n : n = Len(request.input)
  OBVIOUS
<1>4. n \in Nat /\ src \in 0 .. n /\ Width \in {4, 8} /\ Stripe \in {16, 32}
  <2>1. request.bits \in {32, 64} /\ n \in Nat
    BY <1>3, CallsAre
  <2>2. 32 \div 8 = 4 /\ 64 \div 8 = 8
    OBVIOUS
  <2>3. Width \in {4, 8}
    BY <2>1, <2>2 DEF Width
  <2> QED BY <1>3, <2>1, <2>3 DEF Stripe
<1>5. ASSUME NEW k \in {1, 4, 8, 16, 32}, GoesOn(k), src' = src + k,
             step \in {"stripes", "tail"}, UNCHANGED <<request, step>>
      PROVE  CursorOK'
  <2>1. n - src >= k
    BY <1>3, <1>5 DEF GoesOn, Left
  <2>2. src + k \in 0 .. n
    BY <1>4, <2>1
  <2> QED BY <1>3, <1>5, <2>2
<1>6. ASSUME stripe
      PROVE  CursorOK'
  BY <1>4, <1>5, <1>6 DEF stripe
<1>7. ASSUME converge
      PROVE  CursorOK'
  BY <1>7 DEF converge
<1>8. ASSUME tail_lane
      PROVE  CursorOK'
  BY <1>5, <1>8 DEF tail_lane
<1>9. ASSUME tail_word
      PROVE  CursorOK'
  BY <1>5, <1>9 DEF tail_word
<1>10. ASSUME tail_byte
      PROVE  CursorOK'
  BY <1>5, <1>10 DEF tail_byte
<1>11. ASSUME return_hash
      PROVE  CursorOK'
  <2>1. ~(n - src >= 1)
    BY <1>3, <1>11 DEF return_hash, GoesOn, Left
  <2>2. src = n
    BY <1>4, <2>1
  <2> QED BY <1>3, <1>4, <1>11, <2>2 DEF return_hash
<1> QED BY <1>1, <1>2, <1>6, <1>7, <1>8, <1>9, <1>10, <1>11 DEF XxNext

\* The reads of xxHash (xxhash_cx.h:290, 315-333): for inputs of any length, no
\* loop reads behind the input, and when the function returns it was read to
\* its end.
THEOREM ReadsStayInside == XxSpec => []ReadsInside
<1>1. XxInit => CursorOK
  BY DEF XxInit, CursorOK, NoCall
<1>2. CursorOK => ReadsInside
  BY CallsAre DEF CursorOK, ReadsInside
<1> QED BY <1>1, <1>2, CursorStep, PTL DEF XxSpec

-----------------------------------------------------------------------------
(* Sequences of anything                                                   *)

\* A sequence of n values, of whatever kind.
Sequence(s, n) == s = [i \in 1 .. n |-> s[i]]

\* What SMT cannot tell of a sequence of unknown values: its length, and when it
\* is empty.
LEMMA SequencesAre ==
  ASSUME NEW n \in Nat, NEW s, Sequence(s, n)
  PROVE  /\ s \in Seq({s[i] : i \in 1 .. n}) /\ Len(s) = n /\ DOMAIN s = 1 .. n
         /\ s = <<>> <=> n = 0
<1> DEFINE S == {s[i] : i \in 1 .. n}
<1>1. \A i \in 1 .. n : s[i] \in S
  OBVIOUS
<1>2. s = [i \in 1 .. n |-> s[i]]
  BY DEF Sequence
<1> HIDE DEF S
<1>3. s \in [1 .. n -> S]
  BY <1>1, <1>2
<1>4. s \in Seq(S)
  BY <1>3, SeqDef
<1>5. DOMAIN s = 1 .. n
  BY <1>3
<1>6. Len(s) = n
  BY <1>3, <1>4, <1>5, LenProperties
<1>7. s = <<>> <=> n = 0
  BY <1>4, <1>6, EmptySeq
<1> QED BY <1>4, <1>5, <1>6, <1>7 DEF S

LEMMA SequencesEqual ==
  ASSUME NEW n \in Nat, NEW s, NEW t, Sequence(s, n), Sequence(t, n),
         \A i \in 1 .. n : s[i] = t[i]
  PROVE  s = t
<1>1. [i \in 1 .. n |-> s[i]] = [i \in 1 .. n |-> t[i]]
  OBVIOUS
<1> QED BY <1>1, Zenon DEF Sequence

LEMMA PartsAre ==
  ASSUME NEW s, NEW a \in Nat, NEW m \in Nat
  PROVE  SubSeq(s, a + 1, a + m) = [i \in 1 .. m |-> s[a + i]]
<1> DEFINE S == {s[i] : i \in a + 1 .. a + m}
           t == SubSeq(s, a + 1, a + m)
<1>1. \A i \in a + 1 .. a + m : s[i] \in S
  OBVIOUS
<1> HIDE DEF S
<1>2. t \in Seq(S) /\ Len(t) = (IF a + 1 <= a + m THEN (a + m) - (a + 1) + 1 ELSE 0)
      /\ \A i \in 1 .. (a + m) - (a + 1) + 1 : t[i] = s[(a + 1) + i - 1]
  BY <1>1, SubSeqProperties
<1>3. Len(t) = m /\ (a + m) - (a + 1) + 1 = m /\ \A i \in 1 .. m : (a + 1) + i - 1 = a + i
  BY <1>2
<1> HIDE DEF t
<1>4. t \in [1 .. m -> S] /\ \A i \in 1 .. m : t[i] = s[a + i]
  BY <1>2, <1>3, LenProperties
<1>5. t = [i \in 1 .. m |-> s[a + i]]
  BY <1>4
<1> QED BY <1>5 DEF t

\* (Names for what the provers otherwise take apart.)
Joined(s, t) == s \o t
Appended(s, v) == Append(s, v)

\* What a concatenation holds.
LEMMA ConcatsAre ==
  ASSUME NEW n \in Nat, NEW m \in Nat, NEW s, NEW t, Sequence(s, n), Sequence(t, m)
  PROVE  /\ Sequence(Joined(s, t), n + m)
         /\ \A i \in 1 .. n : Joined(s, t)[i] = s[i]
         /\ \A i \in 1 .. m : Joined(s, t)[n + i] = t[i]
<1> DEFINE S == {s[i] : i \in 1 .. n}
           T == {t[i] : i \in 1 .. m}
<1>1. s \in Seq(S) /\ Len(s) = n /\ t \in Seq(T) /\ Len(t) = m
  BY SequencesAre
<1> HIDE DEF S, T
<1>2. S \subseteq S \cup T /\ T \subseteq S \cup T
  OBVIOUS
<1>3. PICK V : V = S \cup T
  OBVIOUS
<1>4. s \in Seq(V) /\ t \in Seq(V)
  BY <1>1, <1>2, <1>3, SeqMonotonic
<1>5. /\ s \o t \in Seq(V) /\ Len(s \o t) = n + m
      /\ \A i \in 1 .. n + m : (s \o t)[i] = IF i <= n THEN s[i] ELSE t[i - n]
  BY <1>1, <1>4, ConcatProperties
<1>6. s \o t \in [1 .. n + m -> V]
  BY <1>5, LenProperties
<1>7. \A i \in 1 .. n : i \in 1 .. n + m /\ i <= n
  OBVIOUS
<1>8. \A i \in 1 .. m : n + i \in 1 .. n + m /\ ~(n + i <= n) /\ n + i - n = i
  OBVIOUS
<1>9. \A i \in 1 .. n : (s \o t)[i] = s[i]
  BY <1>5, <1>7
<1>10. \A i \in 1 .. m : (s \o t)[n + i] = t[i]
  BY <1>5, <1>8
<1> QED BY <1>6, <1>9, <1>10 DEF Sequence, Joined

LEMMA AppendsAre ==
  ASSUME NEW n \in Nat, NEW s, NEW v, Sequence(s, n)
  PROVE  /\ Sequence(Appended(s, v), n + 1)
         /\ \A i \in 1 .. n : Appended(s, v)[i] = s[i]
         /\ Appended(s, v)[n + 1] = v
<1> DEFINE S == {s[i] : i \in 1 .. n}
<1>1. s \in Seq(S) /\ Len(s) = n
  BY SequencesAre
<1> HIDE DEF S
<1>2. S \subseteq S \cup {v}
  OBVIOUS
<1>3. PICK V : V = S \cup {v}
  OBVIOUS
<1>4. s \in Seq(V) /\ v \in V
  BY <1>1, <1>2, <1>3, SeqMonotonic
<1>5. /\ Append(s, v) \in Seq(V) /\ Len(Append(s, v)) = n + 1
      /\ \A i \in 1 .. n : Append(s, v)[i] = s[i]
      /\ Append(s, v)[n + 1] = v
  BY <1>1, <1>4, AppendProperties
<1>6. Append(s, v) \in [1 .. n + 1 -> V]
  BY <1>5, LenProperties
<1> QED BY <1>5, <1>6 DEF Sequence, Appended

\* So many bytes of a message, behind the first so many.
Segment(byte, from, n) == [i \in 1 .. n |-> byte[from + i]]

\* A part of a message is a sequence.
LEMMA SegmentsAre ==
  ASSUME NEW byte, NEW from \in Nat, NEW n \in Nat
  PROVE  /\ Sequence(Segment(byte, from, n), n) /\ Len(Segment(byte, from, n)) = n
         /\ Segment(byte, from, n) = <<>> <=> n = 0
         /\ \A i \in 1 .. n : Segment(byte, from, n)[i] = byte[from + i]
<1> DEFINE s == Segment(byte, from, n)
<1>1. \A i \in 1 .. n : s[i] = byte[from + i]
  BY DEF Segment
<1>2. Sequence(s, n)
  BY DEF Segment, Sequence
<1>3. Len(s) = n /\ (s = <<>> <=> n = 0)
  BY <1>2, SequencesAre
<1> QED BY <1>1, <1>2, <1>3 DEF s

Part(s, a, m) == SubSeq(s, a + 1, a + m)

\* A part of a part.
LEMMA SegmentParts ==
  ASSUME NEW byte, NEW from \in Nat, NEW n \in Nat, NEW a \in Nat, NEW m \in Nat, a + m <= n
  PROVE  Part(Segment(byte, from, n), a, m) = Segment(byte, from + a, m)
<1> PICK s : s = Segment(byte, from, n)
  OBVIOUS
<1>1. \A i \in 1 .. n : s[i] = byte[from + i]
  BY SegmentsAre
<1>2. Part(s, a, m) = [i \in 1 .. m |-> s[a + i]]
  BY PartsAre DEF Part
<1>3. \A i \in 1 .. m : s[a + i] = byte[(from + a) + i]
  <2>1. \A i \in 1 .. m : a + i \in 1 .. n /\ from + (a + i) = (from + a) + i
    OBVIOUS
  <2> QED BY <1>1, <2>1
<1> QED BY <1>2, <1>3 DEF Segment

LEMMA SegmentRest ==
  ASSUME NEW byte, NEW from \in Nat, NEW n \in Nat, NEW a \in Nat, NEW m \in Nat, n = a + m
  PROVE  Drop(Segment(byte, from, n), a) = Segment(byte, from + a, m)
<1> PICK s : s = Segment(byte, from, n)
  OBVIOUS
<1>1. Len(s) = n /\ a + m <= n
  BY DEF Segment
<1>2. Part(s, a, m) = Segment(byte, from + a, m)
  BY <1>1, SegmentParts
<1> QED BY <1>1, <1>2 DEF Drop, Part

LEMMA SegmentsJoin ==
  ASSUME NEW byte, NEW from \in Nat, NEW n \in Nat, NEW m \in Nat
  PROVE  Joined(Segment(byte, from, n), Segment(byte, from + n, m)) = Segment(byte, from, n + m)
<1> PICK s, t, u : /\ s = Segment(byte, from, n) /\ t = Segment(byte, from + n, m)
                   /\ u = Segment(byte, from, n + m)
  OBVIOUS
<1>0. from + n \in Nat /\ n + m \in Nat
  OBVIOUS
<1>1. /\ Sequence(s, n) /\ Sequence(t, m) /\ Sequence(u, n + m)
      /\ \A i \in 1 .. n : s[i] = byte[from + i]
      /\ \A i \in 1 .. m : t[i] = byte[from + n + i]
      /\ \A i \in 1 .. n + m : u[i] = byte[from + i]
  BY <1>0, SegmentsAre, ZenonT(40)
<1>2. PICK v : v = Joined(s, t)
  OBVIOUS
<1>3. /\ Sequence(v, n + m)
      /\ \A i \in 1 .. n : v[i] = s[i]
      /\ \A i \in 1 .. m : v[n + i] = t[i]
  BY <1>1, <1>2, ConcatsAre
<1>4. ASSUME NEW i \in 1 .. n + m
      PROVE  v[i] = u[i]
  <2>1. CASE i <= n
    <3>1. i \in 1 .. n
      BY <2>1
    <3> QED BY <1>1, <1>3, <3>1
  <2>2. CASE ~(i <= n)
    <3>1. PICK j \in 1 .. m : i = n + j
      <4>1. i - n \in 1 .. m /\ i = n + (i - n)
        BY <2>2
      <4> QED BY <4>1
    <3>2. from + n + j = from + i
      BY <3>1
    <3> QED BY <1>1, <1>3, <3>1, <3>2
  <2> QED BY <2>1, <2>2
<1>5. v = u
  BY <1>0, <1>1, <1>3, <1>4, SequencesEqual
<1> QED BY <1>1, <1>2, <1>5

-----------------------------------------------------------------------------
(* Chunks                                                                  *)

Blocks == CHUNK_LEN \div BLOCK_LEN

\* A chunk is whole blocks, a block two values.
LEMMA BlocksAre ==
  /\ BLOCK_LEN \in Nat \ {0} /\ CHUNK_LEN \in Nat \ {0} /\ Blocks \in Nat \ {0}
  /\ CHUNK_LEN = BLOCK_LEN * Blocks
  /\ OUT_LEN \in Nat \ {0} /\ BLOCK_LEN = OUT_LEN + OUT_LEN
<1>1. BLOCK_LEN \in Nat \ {0} /\ CHUNK_LEN \in Nat \ {0} /\ BLOCK_LEN <= CHUNK_LEN
  BY Lengths, PowersAre
<1>2. PICK b \in Nat : BLOCK_LEN = b + b
  <2>1. PICK h \in PowersOfTwo : BLOCK_LEN = 2 * h
    BY Lengths, PowersAre
  <2> QED BY <2>1, PowersAre
<1>3. OUT_LEN = b /\ b # 0
  BY <1>1, <1>2 DEF OUT_LEN
<1>4. PICK r \in PowersOfTwo : CHUNK_LEN = BLOCK_LEN * r
  BY <1>1, Lengths, PowersDivide
<1>5. r \in Nat \ {0}
  BY <1>4, PowersAre
<1>6. Blocks = r
  <2>1. 0 \in 0 .. BLOCK_LEN - 1
    BY <1>1
  <2>2. PICK x : x = BLOCK_LEN * r
    OBVIOUS
  <2>3. (x + 0) \div BLOCK_LEN = r
    BY <1>1, <1>5, <2>1, <2>2, Quotient
  <2>4. x \in Nat /\ x + 0 = x
    BY <1>1, <1>5, <2>2
  <2> QED BY <1>4, <2>2, <2>3, <2>4 DEF Blocks
<1> QED BY <1>1, <1>2, <1>3, <1>4, <1>5, <1>6

Node(cv, block, len, counter, flags) ==
  [cv |-> cv, block |-> block, len |-> len, counter |-> counter, flags |-> flags]

\* The words a compression leaves are the first of its bytes.
LEMMA CompressIs ==
  ASSUME NEW cv, NEW block, NEW len, NEW counter, NEW flags
  PROVE  compress_in_place(cv, block, len, counter, flags)
           = FirstBytes(Node(cv, block, len, counter, flags))
<1> DEFINE node == Node(cv, block, len, counter, flags)
           s == [i \in 1 .. BLOCK_LEN |-> [of |-> node, byte |-> i]]
<1>1. OUT_LEN \in Nat /\ BLOCK_LEN \in Nat /\ OUT_LEN <= BLOCK_LEN /\ 0 \in Nat
  BY BlocksAre
<1>2. compress_in_place(cv, block, len, counter, flags) = SubSeq(s, 0 + 1, 0 + OUT_LEN)
  BY <1>1 DEF compress_in_place, compress_xof, Node
<1>3. SubSeq(s, 0 + 1, 0 + OUT_LEN) = [i \in 1 .. OUT_LEN |-> s[0 + i]]
  <2> HIDE DEF s
  <2> QED BY <1>1, PartsAre
<1>4. \A i \in 1 .. OUT_LEN : s[0 + i] = [of |-> node, byte |-> i]
  BY <1>1
<1> HIDE DEF s, node
<1>5. [i \in 1 .. OUT_LEN |-> s[0 + i]] = FirstBytes(node)
  BY <1>4 DEF FirstBytes
<1> QED BY <1>2, <1>3, <1>5 DEF node

Start(q) == IF q = 0 THEN {"CHUNK_START"} ELSE {}

\* The chaining values in the chunk of number c.
NextLink(cv, flags, byte, c, q) ==
  FirstBytes(Node(cv, Segment(byte, c * CHUNK_LEN + q * BLOCK_LEN, BLOCK_LEN), BLOCK_LEN, c,
                  flags \cup Start(q)))

Links(f, m, key, flags, byte, c) ==
  f[0] = key /\ \A q \in 1 .. m : f[q] = NextLink(f[q - 1], flags, byte, c, q - 1)

\* A chunk's chain of values exists.
LEMMA LinksExist ==
  ASSUME NEW m \in Nat, NEW key, NEW flags, NEW byte, NEW c
  PROVE  \E f : Links(f, m, key, flags, byte, c)
<1> DEFINE T == {k \in 0 .. m : \E f : Links(f, k, key, flags, byte, c)}
<1>1. 0 \in T
  <2> DEFINE f == [k \in 0 .. 0 |-> key]
  <2>1. f[0] = key /\ \A q \in 1 .. 0 : f[q] = NextLink(f[q - 1], flags, byte, c, q - 1)
    OBVIOUS
  <2>2. 0 \in 0 .. m
    OBVIOUS
  <2> HIDE DEF f
  <2>3. Links(f, 0, key, flags, byte, c)
    BY <2>1 DEF Links
  <2> QED BY <2>2, <2>3
<1>2. ASSUME NEW k \in 1 .. m, k - 1 \in T
      PROVE  k \in T
  <2>1. PICK fn : Links(fn, k - 1, key, flags, byte, c)
    BY <1>2
  <2> DEFINE f == [q \in 0 .. k |-> IF q = k THEN NextLink(fn[k - 1], flags, byte, c, k - 1)
                                    ELSE fn[q]]
  <2>2. f[0] = key
    BY <2>1 DEF Links
  <2>3. ASSUME NEW q \in 1 .. k
        PROVE  f[q] = NextLink(f[q - 1], flags, byte, c, q - 1)
    <3>1. q - 1 \in 0 .. k /\ q - 1 # k /\ f[q - 1] = fn[q - 1]
      OBVIOUS
    <3>2. CASE q = k
      BY <3>1, <3>2
    <3>3. CASE q # k
      <4>1. q \in 1 .. k - 1
        BY <3>3
      <4>2. fn[q] = NextLink(fn[q - 1], flags, byte, c, q - 1)
        BY <2>1, <4>1 DEF Links
      <4>3. f[q] = fn[q]
        BY <3>3
      <4> QED BY <3>1, <4>2, <4>3
    <3> QED BY <3>2, <3>3
  <2> HIDE DEF f
  <2>4. Links(f, k, key, flags, byte, c)
    BY <2>2, <2>3 DEF Links
  <2>5. k \in 0 .. m
    OBVIOUS
  <2> QED BY <2>4, <2>5
<1>3. T = 0 .. m
  <2>1. T \in SUBSET (0 .. m)
    OBVIOUS
  <2> HIDE DEF T
  <2> QED BY <1>1, <1>2, <2>1, UpTo
<1>4. m \in 0 .. m
  OBVIOUS
<1> QED BY <1>3, <1>4

Link(key, flags, byte, c) == CHOOSE f : Links(f, Blocks, key, flags, byte, c)

\* The value after a block is of the block and the value before it.
LEMMA LinkIs ==
  ASSUME NEW key, NEW flags, NEW byte, NEW c
  PROVE  /\ Link(key, flags, byte, c)[0] = key
         /\ \A q \in 0 .. Blocks - 1 :
              Link(key, flags, byte, c)[q + 1]
                = NextLink(Link(key, flags, byte, c)[q], flags, byte, c, q)
<1> DEFINE f == Link(key, flags, byte, c)
<1>1. Blocks \in Nat \ {0}
  BY BlocksAre
<1>2. Links(f, Blocks, key, flags, byte, c)
  <2>1. \E fn : Links(fn, Blocks, key, flags, byte, c)
    BY <1>1, LinksExist
  <2> QED BY <2>1 DEF Link
<1> HIDE DEF f
<1>3. f[0] = key /\ \A q \in 1 .. Blocks : f[q] = NextLink(f[q - 1], flags, byte, c, q - 1)
  BY <1>2 DEF Links
<1>4. ASSUME NEW q \in 0 .. Blocks - 1
      PROVE  f[q + 1] = NextLink(f[q], flags, byte, c, q)
  <2>1. q + 1 \in 1 .. Blocks /\ q + 1 - 1 = q
    BY <1>1
  <2> QED BY <1>3, <2>1
<1> QED BY <1>3, <1>4 DEF f

\* The state of a chunk, field by field.
State(cv, c, buf, n, q, flags) ==
  [cv |-> cv, chunk_counter |-> c, buf |-> buf, buf_len |-> n, blocks_compressed |-> q,
   flags |-> flags]

\* A block of so many bytes.
Padded(byte, from, n) ==
  [i \in 1 .. BLOCK_LEN |-> IF i <= n THEN byte[from + i] ELSE 0]

LEMMA PaddedEnds ==
  ASSUME NEW byte, NEW from \in Nat
  PROVE  /\ Padded(byte, from, 0) = Zeros
         /\ Padded(byte, from, BLOCK_LEN) = Segment(byte, from, BLOCK_LEN)
<1>1. BLOCK_LEN \in Nat
  BY BlocksAre
<1>2. \A i \in 1 .. BLOCK_LEN : ~(i <= 0) /\ i <= BLOCK_LEN
  BY <1>1
<1> QED BY <1>2 DEF Padded, Zeros, Segment

\* Filling the buffer makes more of the message in the chunk's last block.
LEMMA FillBuf ==
  ASSUME NEW cv, NEW c, NEW byte, NEW from \in Nat, NEW n \in 0 .. BLOCK_LEN, NEW q, NEW flags,
         NEW m \in 0 .. BLOCK_LEN - n
  PROVE  chunk_state_fill_buf(State(cv, c, Padded(byte, from, n), n, q, flags),
                              Segment(byte, from + n, m))
           = State(cv, c, Padded(byte, from, n + m), n + m, q, flags)
<1> DEFINE self == State(cv, c, Padded(byte, from, n), n, q, flags)
           input == Segment(byte, from + n, m)
           buf == [i \in DOMAIN self.buf |->
                     IF i \in self.buf_len + 1 .. self.buf_len + m
                     THEN input[i - self.buf_len] ELSE self.buf[i]]
<1>1. BLOCK_LEN \in Nat /\ n \in Nat /\ m \in Nat /\ from + n \in Nat
  BY BlocksAre
<1>2. Len(input) = m /\ \A i \in 1 .. m : input[i] = byte[from + n + i]
  BY <1>1, SegmentsAre
<1> HIDE DEF input
<1>3. Take(self, input) = m
  BY <1>1, <1>2 DEF Take, State
<1>4. chunk_state_fill_buf(self, input) = [self EXCEPT !.buf = buf, !.buf_len = n + m]
  BY <1>3 DEF chunk_state_fill_buf, State
<1>5. buf = Padded(byte, from, n + m)
  <2>1. DOMAIN self.buf = 1 .. BLOCK_LEN /\ self.buf_len = n
        /\ self.buf = Padded(byte, from, n)
    BY DEF State, Padded
  <2>2. ASSUME NEW i \in 1 .. BLOCK_LEN
        PROVE  (IF i \in n + 1 .. n + m THEN input[i - n] ELSE Padded(byte, from, n)[i])
                 = IF i <= n + m THEN byte[from + i] ELSE 0
    <3>1. CASE i \in n + 1 .. n + m
      <4>1. PICK j \in 1 .. m : j = i - n
        BY <1>1, <3>1
      <4>2. input[j] = byte[from + n + j] /\ from + n + j = from + i
        BY <1>1, <1>2, <4>1
      <4> QED BY <1>1, <3>1, <4>1, <4>2
    <3>2. CASE i \notin n + 1 .. n + m
      <4>1. i <= n <=> i <= n + m
        BY <1>1, <3>2
      <4> QED BY <3>2, <4>1 DEF Padded
    <3> QED BY <3>1, <3>2
  <2> QED BY <2>1, <2>2 DEF Padded
<1> HIDE DEF buf
<1>6. [self EXCEPT !.buf = buf, !.buf_len = n + m] = State(cv, c, buf, n + m, q, flags)
  <2>1. [self EXCEPT !.buf = buf] = State(cv, c, buf, n, q, flags)
    BY DEF State
  <2>2. [State(cv, c, buf, n, q, flags) EXCEPT !.buf_len = n + m]
          = State(cv, c, buf, n + m, q, flags)
    BY DEF State
  <2> HIDE DEF self
  <2> QED BY <2>1, <2>2
<1> QED BY <1>4, <1>5, <1>6 DEF input

\* Compressing a block moves on by one link.
LEMMA AddBlockIs ==
  ASSUME NEW key, NEW flags, NEW byte, NEW c, NEW q \in 0 .. Blocks - 1, NEW buf, NEW n
  PROVE  AddBlock(State(Link(key, flags, byte, c)[q], c, buf, n, q, flags),
                  Segment(byte, c * CHUNK_LEN + q * BLOCK_LEN, BLOCK_LEN))
           = State(Link(key, flags, byte, c)[q + 1], c, buf, n, q + 1, flags)
<1> PICK l : l = Link(key, flags, byte, c)
  OBVIOUS
<1> PICK block : block = Segment(byte, c * CHUNK_LEN + q * BLOCK_LEN, BLOCK_LEN)
  OBVIOUS
<1> DEFINE self == State(l[q], c, buf, n, q, flags)
<1>1. l[q + 1] = FirstBytes(Node(l[q], block, BLOCK_LEN, c, flags \cup Start(q)))
  <2>1. l[q + 1] = NextLink(l[q], flags, byte, c, q)
    BY LinkIs
  <2> QED BY <2>1 DEF NextLink
<1>2. compress_in_place(l[q], block, BLOCK_LEN, c, flags \cup Start(q)) = l[q + 1]
  BY <1>1, CompressIs
<1>3. chunk_state_maybe_start_flag(self) = Start(q)
  BY DEF chunk_state_maybe_start_flag, State, Start
<1>4. AddBlock(self, block)
        = [self EXCEPT !.cv = compress_in_place(l[q], block, BLOCK_LEN, c, flags \cup Start(q)),
                       !.blocks_compressed = q + 1]
  BY <1>3 DEF AddBlock, State
<1>5. AddBlock(self, block) = State(l[q + 1], c, buf, n, q + 1, flags)
  BY <1>2, <1>4 DEF State
<1> QED BY <1>5

\* The state with so many bytes of the chunk in it, and with so many blocks.
LastBlock(n) == IF n = 0 THEN 0 ELSE (n - 1) \div BLOCK_LEN

ChunkState(key, flags, byte, c, q, n) ==
  State(Link(key, flags, byte, c)[q], c, Padded(byte, c * CHUNK_LEN + q * BLOCK_LEN, n), n, q,
        flags)

ChunkOf(key, flags, byte, c, n) ==
  ChunkState(key, flags, byte, c, LastBlock(n), n - LastBlock(n) * BLOCK_LEN)

\* The last block of a chunk is the one that is not compressed yet.
LEMMA LastBlockIs ==
  ASSUME NEW n \in Nat
  PROVE  /\ LastBlock(n) \in Nat /\ n - LastBlock(n) * BLOCK_LEN \in 0 .. BLOCK_LEN
         /\ n = 0 <=> n - LastBlock(n) * BLOCK_LEN = 0
         /\ n <= CHUNK_LEN => LastBlock(n) \in 0 .. Blocks - 1
<1>1. BLOCK_LEN \in Nat \ {0} /\ Blocks \in Nat \ {0} /\ CHUNK_LEN = BLOCK_LEN * Blocks
  BY BlocksAre
<1>2. CASE n = 0
  BY <1>1, <1>2 DEF LastBlock
<1>3. CASE n # 0
  <2>1. PICK q, r, x : x = n - 1 /\ q = x \div BLOCK_LEN /\ r = x % BLOCK_LEN
    OBVIOUS
  <2>2. x \in Nat
    BY <1>3, <2>1
  <2>3. q \in Nat /\ r \in 0 .. BLOCK_LEN - 1 /\ x = BLOCK_LEN * q + r
    BY <1>1, <2>1, <2>2, QuotientRemainder
  <2>4. LastBlock(n) = q
    BY <1>3, <2>1 DEF LastBlock
  <2>5. n - q * BLOCK_LEN = r + 1
    BY <1>1, <2>1, <2>3
  <2>6. n <= CHUNK_LEN => q <= Blocks - 1
    <3> SUFFICES ASSUME n <= CHUNK_LEN, Blocks <= q
                 PROVE  FALSE
      BY <1>1, <2>3
    <3>1. PICK e \in Nat : q = Blocks + e
      <4>1. q - Blocks \in Nat /\ q = Blocks + (q - Blocks)
        BY <1>1, <2>3
      <4> QED BY <4>1
    <3>2. BLOCK_LEN * q = CHUNK_LEN + BLOCK_LEN * e /\ BLOCK_LEN * e \in Nat
      BY <1>1, <3>1
    <3> QED BY <1>1, <2>1, <2>3, <3>2
  <2> QED BY <1>1, <1>3, <2>3, <2>4, <2>5, <2>6
<1> QED BY <1>2, <1>3

LEMMA LastBlockOf ==
  ASSUME NEW q \in Nat, NEW n \in 1 .. BLOCK_LEN
  PROVE  LastBlock(q * BLOCK_LEN + n) = q
<1>1. BLOCK_LEN \in Nat \ {0}
  BY BlocksAre
<1>2. PICK x : x = BLOCK_LEN * q
  OBVIOUS
<1>3. x \in Nat /\ q * BLOCK_LEN + n = x + n /\ x + n # 0 /\ x + n - 1 = x + (n - 1)
      /\ n - 1 \in 0 .. BLOCK_LEN - 1
  BY <1>1, <1>2
<1>4. (x + (n - 1)) \div BLOCK_LEN = q
  BY <1>1, <1>2, <1>3, Quotient
<1> QED BY <1>3, <1>4 DEF LastBlock

LEMMA LessOfProducts ==
  ASSUME NEW p \in Nat \ {0}, NEW x \in Nat, NEW y \in Nat, x * p < y * p
  PROVE  x < y
<1> SUFFICES ASSUME y <= x
             PROVE  FALSE
  OBVIOUS
<1>1. PICK e \in Nat : x = y + e
  <2>1. x - y \in Nat /\ x = y + (x - y)
    OBVIOUS
  <2> QED BY <2>1
<1>2. x * p = y * p + e * p /\ e * p \in Nat /\ y * p \in Nat /\ x * p \in Nat
  BY <1>1
<1> QED BY <1>2

\* The blocks of the chunk, one after the other.
AddBlocks(f, first, blocks, more) ==
  [n \in 0 .. blocks |-> IF n = 0 THEN first
                         ELSE AddBlock(f[n - 1], Piece(more, n, BLOCK_LEN))]

\* The loop over whole blocks moves on by as many links.
LEMMA BlocksAdded ==
  ASSUME NEW key, NEW flags, NEW byte, NEW c \in Nat, NEW q \in Nat, NEW blocks \in Nat,
         q + blocks <= Blocks, NEW size \in Nat, blocks * BLOCK_LEN <= size,
         NEW more, more = Segment(byte, c * CHUNK_LEN + q * BLOCK_LEN, size),
         NEW first, first = ChunkState(key, flags, byte, c, q, 0)
  PROVE  (CHOOSE f : f = AddBlocks(f, first, blocks, more))[blocks]
           = ChunkState(key, flags, byte, c, q + blocks, 0)
<1> DEFINE f == CHOOSE h : h = AddBlocks(h, first, blocks, more)
           fn == [n \in 0 .. blocks |-> ChunkState(key, flags, byte, c, q + n, 0)]
<1>1. BLOCK_LEN \in Nat \ {0} /\ CHUNK_LEN \in Nat \ {0} /\ Blocks \in Nat \ {0}
  BY BlocksAre
<1>2. ASSUME NEW n \in 1 .. blocks
      PROVE  AddBlock(ChunkState(key, flags, byte, c, q + (n - 1), 0), Piece(more, n, BLOCK_LEN))
               = ChunkState(key, flags, byte, c, q + n, 0)
  <2>1. PICK from, at : from = c * CHUNK_LEN + q * BLOCK_LEN /\ at = (n - 1) * BLOCK_LEN
    OBVIOUS
  <2>2. from \in Nat /\ at \in Nat /\ n * BLOCK_LEN = at + BLOCK_LEN
        /\ from + at = c * CHUNK_LEN + (q + (n - 1)) * BLOCK_LEN
    BY <1>1, <2>1
  <2>3. at + BLOCK_LEN <= size
    <3>1. PICK e \in Nat : blocks = n + e
      <4>1. blocks - n \in Nat /\ blocks = n + (blocks - n)
        OBVIOUS
      <4> QED BY <4>1
    <3>2. blocks * BLOCK_LEN = n * BLOCK_LEN + e * BLOCK_LEN /\ e * BLOCK_LEN \in Nat
          /\ n * BLOCK_LEN \in Nat
      BY <1>1, <3>1
    <3> QED BY <1>1, <2>2, <3>2
  <2>4. Piece(more, n, BLOCK_LEN) = Segment(byte, from + at, BLOCK_LEN)
    <3>1. Part(Segment(byte, from, size), at, BLOCK_LEN) = Segment(byte, from + at, BLOCK_LEN)
      BY <1>1, <2>2, <2>3, SegmentParts
    <3> QED BY <2>1, <2>2, <3>1 DEF Part, Piece
  <2>5. q + (n - 1) \in 0 .. Blocks - 1 /\ q + (n - 1) + 1 = q + n
    BY <1>1
  <2>6. PICK p : p = q + (n - 1)
    OBVIOUS
  <2>7. PICK at0, at1 : /\ at0 = c * CHUNK_LEN + p * BLOCK_LEN
                        /\ at1 = c * CHUNK_LEN + (q + n) * BLOCK_LEN
    OBVIOUS
  <2>8. at0 \in Nat /\ at1 \in Nat
    BY <1>1, <2>5, <2>6, <2>7
  <2>9. Padded(byte, at0, 0) = Zeros /\ Padded(byte, at1, 0) = Zeros
    BY <2>8, PaddedEnds
  <2>10. AddBlock(State(Link(key, flags, byte, c)[p], c, Zeros, 0, p, flags),
                  Segment(byte, c * CHUNK_LEN + p * BLOCK_LEN, BLOCK_LEN))
           = State(Link(key, flags, byte, c)[p + 1], c, Zeros, 0, p + 1, flags)
    BY <2>5, <2>6, AddBlockIs
  <2> QED BY <2>2, <2>4, <2>5, <2>6, <2>7, <2>9, <2>10 DEF ChunkState
<1>3. fn = AddBlocks(fn, first, blocks, more)
  <2>1. ASSUME NEW n \in 0 .. blocks
        PROVE  fn[n] = IF n = 0 THEN first ELSE AddBlock(fn[n - 1], Piece(more, n, BLOCK_LEN))
    <3>1. CASE n = 0
      BY <3>1
    <3>2. CASE n # 0
      <4>1. n \in 1 .. blocks /\ n - 1 \in 0 .. blocks
        BY <3>2
      <4> QED BY <1>2, <3>2, <4>1
    <3> QED BY <3>1, <3>2
  <2>2. fn = [n \in 0 .. blocks |-> fn[n]]
    OBVIOUS
  <2> HIDE DEF fn
  <2> QED BY <2>1, <2>2 DEF AddBlocks
<1>4. f = AddBlocks(f, first, blocks, more)
  <2> HIDE DEF fn
  <2> QED BY <1>3
<1> HIDE DEF f
<1>5. \A n \in 0 .. blocks :
        f[n] = IF n = 0 THEN first ELSE AddBlock(f[n - 1], Piece(more, n, BLOCK_LEN))
  <2>1. \A n \in 0 .. blocks : f[n] = AddBlocks(f, first, blocks, more)[n]
    BY <1>4
  <2> QED BY <2>1 DEF AddBlocks
<1> DEFINE T == {n \in 0 .. blocks : f[n] = ChunkState(key, flags, byte, c, q + n, 0)}
<1>6. T = 0 .. blocks
  <2>1. 0 \in T /\ T \in SUBSET (0 .. blocks)
    BY <1>5
  <2>2. ASSUME NEW n \in 1 .. blocks, n - 1 \in T
        PROVE  n \in T
    BY <1>2, <1>5, <2>2
  <2> HIDE DEF T
  <2> QED BY <2>1, <2>2, UpTo
<1>7. blocks \in 0 .. blocks
  OBVIOUS
<1> QED BY <1>6, <1>7 DEF f

\* However many bytes of the chunk come next, the state is the one with all of
\* them in it.
LEMMA ChunkUpdate ==
  ASSUME NEW key, NEW flags, NEW byte, NEW c \in Nat, NEW n \in Nat, NEW m \in Nat,
         n + m <= CHUNK_LEN
  PROVE  chunk_state_update(ChunkOf(key, flags, byte, c, n),
                            Segment(byte, c * CHUNK_LEN + n, m))
           = ChunkOf(key, flags, byte, c, n + m)
<1>a. PICK at : at = c * CHUNK_LEN
  OBVIOUS
<1>b. PICK q : q = LastBlock(n)
  OBVIOUS
<1>c. PICK u, x : x = q * BLOCK_LEN /\ u = n - x
  OBVIOUS
<1>d. CHUNK_LEN = BLOCK_LEN * Blocks
  BY BlocksAre
<1>1. BLOCK_LEN \in Nat \ {0} /\ CHUNK_LEN \in Nat \ {0} /\ Blocks \in Nat \ {0}
      /\ at \in Nat
  BY <1>a, BlocksAre
<1>2. q \in 0 .. Blocks - 1 /\ x \in Nat /\ u \in 0 .. BLOCK_LEN /\ (n = 0 <=> u = 0)
      /\ n = x + u
  <2>1. n <= CHUNK_LEN
    BY <1>1
  <2>2. LastBlock(n) \in Nat /\ n - LastBlock(n) * BLOCK_LEN \in 0 .. BLOCK_LEN
        /\ (n = 0 <=> n - LastBlock(n) * BLOCK_LEN = 0) /\ LastBlock(n) \in 0 .. Blocks - 1
    BY <2>1, LastBlockIs
  <2>3. x \in Nat
    BY <1>1, <1>b, <1>c, <2>2
  <2> QED BY <1>b, <1>c, <2>2, <2>3
<1> DEFINE Of(i, k) == ChunkState(key, flags, byte, c, i, k)
           self == Of(q, u)
           input == Segment(byte, at + n, m)
           take == IF self.buf_len > 0 THEN Take(self, input) ELSE 0
           more == Drop(input, take)
           full == chunk_state_fill_buf(self, SubSeq(input, 1, take))
           flushed == IF self.buf_len > 0 /\ more # <<>>
                      THEN [AddBlock(full, full.buf) EXCEPT !.buf_len = 0, !.buf = Zeros]
                      ELSE full
           blocks == IF more = <<>> THEN 0 ELSE (Len(more) - 1) \div BLOCK_LEN
           after == CHOOSE f : f = AddBlocks(f, flushed, blocks, more)
<1>3. chunk_state_update(self, input)
        = chunk_state_fill_buf(after[blocks], Drop(more, blocks * BLOCK_LEN))
  BY DEF chunk_state_update, AddBlocks
<1>4. ChunkOf(key, flags, byte, c, n) = self
  BY <1>b, <1>c DEF ChunkOf
<1>5. self.buf_len = u
  BY DEF ChunkState, State
<1>6. Len(input) = m
  <2>1. at + n \in Nat
    BY <1>1
  <2> QED BY <2>1, SegmentsAre
<1>e. PICK t : t = IF u > 0 THEN IF BLOCK_LEN - u > m THEN m ELSE BLOCK_LEN - u ELSE 0
  OBVIOUS
<1>7. take = t
  BY <1>e, <1>5, <1>6 DEF Take
<1>8. t \in 0 .. m /\ t \in 0 .. BLOCK_LEN - u
  BY <1>e, <1>1, <1>2
<1> HIDE DEF self, take
<1>9. more = Segment(byte, at + n + t, m - t)
  <2>1. m = t + (m - t) /\ m - t \in Nat /\ t \in Nat /\ at + n \in Nat
    BY <1>1, <1>8
  <2> QED BY <1>7, <2>1, SegmentRest
<1>10. full = Of(q, u + t)
  <2>1. Part(input, 0, t) = Segment(byte, at + n + 0, t)
    <3>1. at + n \in Nat /\ 0 \in Nat /\ t \in Nat /\ 0 + t <= m
      BY <1>1, <1>8
    <3> QED BY <3>1, SegmentParts
  <2>2. SubSeq(input, 1, take) = Segment(byte, (at + x) + u, t)
    <3>1. 0 + 1 = 1 /\ 0 + t = t /\ at + n + 0 = (at + x) + u
      BY <1>1, <1>2, <1>8
    <3> QED BY <1>7, <2>1, <3>1 DEF Part
  <2> HIDE DEF input
  <2>3. at + x \in Nat
    BY <1>1, <1>2
  <2>4. \A k : Of(q, k) = State(Link(key, flags, byte, c)[q], c, Padded(byte, at + x, k), k, q, flags)
    BY <1>a, <1>c DEF ChunkState
  <2>5. u + t \in 0 .. BLOCK_LEN
    BY <1>1, <1>2, <1>8
  <2>6. PICK l : l = Link(key, flags, byte, c)[q]
    OBVIOUS
  <2>7. chunk_state_fill_buf(State(l, c, Padded(byte, at + x, u), u, q, flags),
                             Segment(byte, (at + x) + u, t))
          = State(l, c, Padded(byte, at + x, u + t), u + t, q, flags)
    BY <1>2, <1>8, <2>3, FillBuf
  <2> QED BY <2>2, <2>4, <2>6, <2>7 DEF self
<1> HIDE DEF full
<1>11. CASE m = t
  <2>1. more = <<>>
    <3>1. m - t = 0 /\ 0 \in Nat /\ at + n + t \in Nat
      BY <1>1, <1>8, <1>11
    <3>2. Segment(byte, at + n + t, 0) = <<>>
      BY <3>1, SegmentsAre
    <3> QED BY <1>9, <3>1, <3>2
  <2>2. flushed = full /\ blocks = 0
    BY <2>1
  <2>3. after[blocks] = full
    <3> DEFINE fn == [k \in 0 .. 0 |-> full]
    <3>1. fn = AddBlocks(fn, full, 0, more)
      BY DEF AddBlocks
    <3> HIDE DEF fn
    <3> DEFINE f == CHOOSE h : h = AddBlocks(h, full, 0, more)
    <3>2. f = AddBlocks(f, full, 0, more)
      BY <3>1
    <3> HIDE DEF f
    <3>3. f[0] = full
      <4>1. f[0] = AddBlocks(f, full, 0, more)[0]
        BY <3>2
      <4> QED BY <4>1 DEF AddBlocks
    <3> QED BY <2>2, <3>3 DEF f
  <2>4. Drop(more, blocks * BLOCK_LEN) = Segment(byte, (at + x) + (u + t), 0)
    <3>1. blocks * BLOCK_LEN = 0
      BY <1>1, <2>2
    <3>2. PICK y : y = at + n + t
      OBVIOUS
    <3>3. y \in Nat /\ m - t = 0 /\ 0 \in Nat /\ 0 = 0 + 0 /\ y + 0 = (at + x) + (u + t)
      BY <1>1, <1>2, <1>8, <1>11, <3>2
    <3>4. Drop(Segment(byte, y, 0), 0) = Segment(byte, y + 0, 0)
      BY <3>3, SegmentRest
    <3> QED BY <1>9, <3>1, <3>2, <3>3, <3>4
  <2>5. chunk_state_fill_buf(full, Segment(byte, (at + x) + (u + t), 0)) = Of(q, u + t + 0)
    <3>1. at + x \in Nat /\ u + t \in 0 .. BLOCK_LEN /\ 0 \in 0 .. BLOCK_LEN - (u + t)
      BY <1>1, <1>2, <1>8
    <3>2. \A k : Of(q, k) = State(Link(key, flags, byte, c)[q], c, Padded(byte, at + x, k), k, q, flags)
      BY <1>a, <1>c DEF ChunkState
    <3>3. PICK l, k : l = Link(key, flags, byte, c)[q] /\ k = u + t
      OBVIOUS
    <3>4. chunk_state_fill_buf(State(l, c, Padded(byte, at + x, k), k, q, flags),
                               Segment(byte, (at + x) + k, 0))
            = State(l, c, Padded(byte, at + x, k + 0), k + 0, q, flags)
      BY <3>1, <3>3, FillBuf
    <3> QED BY <1>10, <3>2, <3>3, <3>4
  <2>6. Of(q, u + t + 0) = ChunkOf(key, flags, byte, c, n + m)
    <3>1. LastBlock(n + m) = q /\ (n + m) - q * BLOCK_LEN = u + t + 0
      <4>1. CASE u = 0
        BY <1>b, <1>c, <1>e, <1>2, <1>8, <1>11, <4>1
      <4>2. CASE u # 0
        <5>1. u + t \in 1 .. BLOCK_LEN /\ q \in Nat /\ x + (u + t) = n + m
          BY <1>1, <1>2, <1>8, <1>11, <4>2
        <5>2. LastBlock(q * BLOCK_LEN + (u + t)) = q
          BY <5>1, LastBlockOf
        <5> QED BY <1>c, <1>2, <1>8, <1>11, <5>1, <5>2
      <4> QED BY <4>1, <4>2
    <3> QED BY <3>1 DEF ChunkOf
  <2> QED BY <1>a, <1>3, <1>4, <2>2, <2>3, <2>4, <2>5, <2>6, <1>10, <1>2, <1>8
<1>12. CASE m # t
  <2>a. PICK r, size : r = (IF u = 0 THEN 0 ELSE q + 1) /\ size = m - t
    OBVIOUS
  <2>b. PICK y : y = r * BLOCK_LEN
    OBVIOUS
  <2>1. size \in Nat \ {0} /\ r \in Nat /\ y \in Nat /\ n + t = y
    <3>1. CASE u = 0
      <4>1. r = 0 /\ y = 0 /\ t = 0 /\ n = 0
        BY <1>1, <1>2, <1>e, <2>a, <2>b, <3>1
      <4> QED BY <1>8, <1>12, <2>a, <4>1
    <3>2. CASE u # 0
      <4>1. t = BLOCK_LEN - u
        BY <1>1, <1>2, <1>8, <1>12, <1>e, <3>2
      <4>2. r = q + 1 /\ r \in Nat
        BY <1>1, <1>2, <2>a, <3>2
      <4>3. y = x + BLOCK_LEN
        BY <1>1, <1>2, <1>c, <2>b, <4>2
      <4> QED BY <1>1, <1>2, <1>8, <1>12, <2>a, <4>1, <4>2, <4>3
    <3> QED BY <3>1, <3>2
  <2>2. more = Segment(byte, at + y, size) /\ more # <<>> /\ Len(more) = size
    <3>1. at + n + t = at + y /\ at + y \in Nat
      BY <1>1, <1>2, <1>8, <2>1
    <3>2. more = Segment(byte, at + y, size)
      BY <1>9, <2>a, <3>1
    <3>3. Segment(byte, at + y, size) # <<>> /\ Len(Segment(byte, at + y, size)) = size
      BY <2>1, <3>1, SegmentsAre, ZenonT(40)
    <3> QED BY <3>2, <3>3
  <2> HIDE DEF more
  <2>3. flushed = Of(r, 0)
    <3>1. CASE u = 0
      <4>1. q = 0 /\ t = 0 /\ u + t = 0 /\ r = 0
        BY <3>1, <1>b, <1>e, <1>2, <2>a DEF LastBlock
      <4> QED BY <1>5, <1>10, <3>1, <4>1
    <3>2. CASE u # 0
      <4>1. u > 0 /\ t = BLOCK_LEN - u /\ u + t = BLOCK_LEN /\ r = q + 1
        BY <1>1, <1>2, <1>8, <1>12, <1>e, <2>a, <3>2
      <4>2. at + x \in Nat /\ at + y \in Nat
        BY <1>1, <1>2, <2>1
      <4>3. full.buf = Segment(byte, at + x, BLOCK_LEN)
        <5>1. full.buf = Padded(byte, at + x, BLOCK_LEN)
          BY <1>a, <1>c, <1>10, <4>1 DEF ChunkState, State
        <5> QED BY <4>2, <5>1, PaddedEnds
      <4>4. PICK l, buf : l = Link(key, flags, byte, c) /\ buf = full.buf
        OBVIOUS
      <4>5. full = State(l[q], c, buf, BLOCK_LEN, q, flags)
        BY <1>10, <4>1, <4>4 DEF ChunkState, State
      <4>6. AddBlock(full, buf) = State(l[q + 1], c, buf, BLOCK_LEN, q + 1, flags)
        <5>1. AddBlock(State(l[q], c, buf, BLOCK_LEN, q, flags),
                       Segment(byte, c * CHUNK_LEN + q * BLOCK_LEN, BLOCK_LEN))
                = State(l[q + 1], c, buf, BLOCK_LEN, q + 1, flags)
          BY <1>2, <4>4, AddBlockIs
        <5> QED BY <1>a, <1>c, <4>3, <4>4, <4>5, <5>1
      <4>7. [State(l[r], c, buf, BLOCK_LEN, r, flags) EXCEPT !.buf_len = 0]
              = State(l[r], c, buf, 0, r, flags)
            /\ [State(l[r], c, buf, 0, r, flags) EXCEPT !.buf = Zeros]
              = State(l[r], c, Zeros, 0, r, flags)
        BY DEF State
      <4>8. Zeros = Padded(byte, at + y, 0)
        BY <4>2, PaddedEnds
      <4>9. Of(r, 0) = State(l[r], c, Zeros, 0, r, flags)
        BY <1>a, <2>b, <4>4, <4>8 DEF ChunkState
      <4>10. flushed = [AddBlock(full, buf) EXCEPT !.buf_len = 0, !.buf = Zeros]
        BY <1>5, <2>2, <4>1, <4>4
      <4> QED BY <4>1, <4>6, <4>7, <4>9, <4>10
    <3> QED BY <3>1, <3>2
  <2>4. PICK k, z : k = blocks /\ z = k * BLOCK_LEN
    OBVIOUS
  <2>5. k \in Nat /\ z \in Nat /\ size - z \in 1 .. BLOCK_LEN
    <3>1. k = LastBlock(size)
      BY <2>1, <2>2, <2>4 DEF LastBlock
    <3>2. k \in Nat
      BY <2>1, <3>1, LastBlockIs
    <3>3. size - z \in 0 .. BLOCK_LEN /\ size - z # 0
      BY <2>1, <2>4, <3>1, LastBlockIs
    <3>4. z \in Nat
      BY <1>1, <2>4, <3>2
    <3> QED BY <1>1, <3>2, <3>3, <3>4
  <2>6. r + k <= Blocks - 1
    <3>0. y + z < CHUNK_LEN
      BY <1>1, <1>2, <1>8, <2>a, <2>1, <2>5
    <3>1. (r + k) * BLOCK_LEN = y + z /\ CHUNK_LEN = Blocks * BLOCK_LEN
      BY <1>1, <1>d, <2>b, <2>1, <2>4, <2>5
    <3>2. r + k \in Nat /\ (r + k) * BLOCK_LEN < Blocks * BLOCK_LEN
      BY <2>1, <2>5, <3>0, <3>1
    <3>3. r + k < Blocks
      BY <1>1, <3>2, LessOfProducts
    <3> QED BY <1>1, <3>2, <3>3
  <2>7. after[k] = Of(r + k, 0)
    <3>1. more = Segment(byte, c * CHUNK_LEN + r * BLOCK_LEN, size)
      BY <1>a, <2>b, <2>2
    <3>2. r + k <= Blocks /\ k * BLOCK_LEN <= size
      <4>1. r + k <= Blocks /\ z <= size
        BY <1>1, <2>1, <2>5, <2>6
      <4> QED BY <2>4, <4>1
    <3> HIDE DEF flushed, blocks
    <3> QED BY <2>1, <2>3, <2>4, <2>5, <3>1, <3>2, BlocksAdded
  <2>8. PICK w, rest : w = (r + k) * BLOCK_LEN /\ rest = size - z
    OBVIOUS
  <2>9. w \in Nat /\ w = y + z /\ rest \in 1 .. BLOCK_LEN /\ n + m = w + rest
    <3>1. w = y + z
      BY <1>1, <2>b, <2>1, <2>4, <2>5, <2>8
    <3>2. rest = size - z
      BY <2>8
    <3> QED BY <1>1, <1>2, <1>8, <2>a, <2>1, <2>5, <3>1, <3>2
  <2>10. Drop(more, blocks * BLOCK_LEN) = Segment(byte, (at + w) + 0, rest)
    <3>1. size = z + rest /\ at + y \in Nat /\ rest \in Nat /\ at + y + z = (at + w) + 0
      <4>1. rest = size - z
        BY <2>8
      <4> QED BY <1>1, <2>1, <2>5, <2>9, <4>1
    <3>2. Drop(Segment(byte, at + y, size), z) = Segment(byte, at + y + z, rest)
      BY <2>1, <2>5, <3>1, SegmentRest
    <3> QED BY <2>2, <2>4, <3>1, <3>2
  <2>11. chunk_state_fill_buf(Of(r + k, 0), Segment(byte, (at + w) + 0, rest)) = Of(r + k, 0 + rest)
    <3>1. at + w \in Nat /\ 0 \in 0 .. BLOCK_LEN /\ rest \in 0 .. BLOCK_LEN - 0
      BY <1>1, <2>9
    <3>2. \A i : Of(r + k, i)
                  = State(Link(key, flags, byte, c)[r + k], c, Padded(byte, at + w, i), i, r + k, flags)
      BY <1>a, <2>8 DEF ChunkState
    <3>3. PICK l, i : l = Link(key, flags, byte, c)[r + k] /\ i = r + k
      OBVIOUS
    <3>4. chunk_state_fill_buf(State(l, c, Padded(byte, at + w, 0), 0, i, flags),
                               Segment(byte, (at + w) + 0, rest))
            = State(l, c, Padded(byte, at + w, 0 + rest), 0 + rest, i, flags)
      BY <3>1, FillBuf
    <3> QED BY <3>2, <3>3, <3>4
  <2>12. Of(r + k, 0 + rest) = ChunkOf(key, flags, byte, c, n + m)
    <3>1. LastBlock(w + rest) = r + k
      BY <2>1, <2>5, <2>8, <2>9, LastBlockOf
    <3>2. n + m - w = 0 + rest
      BY <2>9
    <3> QED BY <2>8, <2>9, <3>1, <3>2 DEF ChunkOf
  <2> QED BY <1>a, <1>3, <1>4, <2>4, <2>7, <2>10, <2>11, <2>12
<1> QED BY <1>11, <1>12

\* The chain of a chunk in the tree is that of its states.
ChainLinks(f, last, key, flags, byte, c, length) ==
  [n \in 0 .. last |->
     IF n = 0 THEN key
     ELSE FirstBytes(Node(f[n - 1],
            [i \in 1 .. BLOCK_LEN |-> IF (n - 1) * BLOCK_LEN + i <= length
                                      THEN byte[c * CHUNK_LEN + (n - 1) * BLOCK_LEN + i] ELSE 0],
            BLOCK_LEN, c, flags \cup Start(n - 1) \cup {}))]

\* The tree's chain of a chunk is the same.
LEMMA ChainIsOfLinks ==
  ASSUME NEW key, NEW flags, NEW byte, NEW c \in Nat,
         NEW last \in 0 .. Blocks - 1, NEW length \in Nat, last * BLOCK_LEN <= length
  PROVE  (CHOOSE f : f = ChainLinks(f, last, key, flags, byte, c, length))[last]
           = Link(key, flags, byte, c)[last]
<1>a. PICK l : l = Link(key, flags, byte, c)
  OBVIOUS
<1> DEFINE f == CHOOSE h : h = ChainLinks(h, last, key, flags, byte, c, length)
           fn == [n \in 0 .. last |-> l[n]]
           Block(n) == [i \in 1 .. BLOCK_LEN |-> IF (n - 1) * BLOCK_LEN + i <= length
                                      THEN byte[c * CHUNK_LEN + (n - 1) * BLOCK_LEN + i] ELSE 0]
           Next(n, cv) == FirstBytes(Node(cv, Block(n), BLOCK_LEN, c,
                                          flags \cup Start(n - 1) \cup {}))
<1>1. BLOCK_LEN \in Nat \ {0} /\ CHUNK_LEN \in Nat \ {0} /\ Blocks \in Nat \ {0} /\ last \in Nat
  BY BlocksAre
<1>3. ASSUME NEW n \in 1 .. last
      PROVE  Next(n, l[n - 1]) = l[n]
  <2>1. n - 1 \in 0 .. Blocks - 1 /\ n - 1 + 1 = n
    BY <1>1
  <2>2. PICK p, at : p = n - 1 /\ at = p * BLOCK_LEN
    OBVIOUS
  <2>3. l[n] = NextLink(l[p], flags, byte, c, p)
    BY <1>a, <2>1, <2>2, LinkIs
  <2>4. Block(n) = Segment(byte, c * CHUNK_LEN + p * BLOCK_LEN, BLOCK_LEN)
    <3>1. at \in Nat /\ at + BLOCK_LEN <= length
      <4>1. PICK e \in Nat : last = p + 1 + e
        <5>1. last - n \in Nat /\ last = p + 1 + (last - n)
          BY <1>1, <2>2
        <5> QED BY <5>1
      <4>2. p \in Nat
        BY <2>1, <2>2
      <4>3. last * BLOCK_LEN = p * BLOCK_LEN + BLOCK_LEN + e * BLOCK_LEN /\ e * BLOCK_LEN \in Nat
            /\ p * BLOCK_LEN \in Nat
        BY <1>1, <4>1, <4>2
      <4>4. PICK z, w : z = last * BLOCK_LEN /\ w = e * BLOCK_LEN
        OBVIOUS
      <4>5. z = at + BLOCK_LEN + w /\ w \in Nat /\ at \in Nat /\ z <= length
        BY <2>2, <4>3, <4>4
      <4> QED BY <1>1, <4>5
    <3>2. \A i \in 1 .. BLOCK_LEN : at + i <= length
      BY <1>1, <3>1
    <3>3. Block(n) = [i \in 1 .. BLOCK_LEN |-> byte[c * CHUNK_LEN + at + i]]
      BY <2>2, <3>2
    <3> QED BY <2>2, <3>3 DEF Segment
  <2>5. flags \cup Start(n - 1) \cup {} = flags \cup Start(p)
    BY <2>2
  <2> HIDE DEF Block
  <2> QED BY <2>2, <2>3, <2>4, <2>5 DEF NextLink
<1>4. \A h : ChainLinks(h, last, key, flags, byte, c, length)
               = [n \in 0 .. last |-> IF n = 0 THEN key ELSE Next(n, h[n - 1])]
  BY DEF ChainLinks
<1> HIDE DEF Next
<1>5. fn = ChainLinks(fn, last, key, flags, byte, c, length)
  <2>1. ASSUME NEW n \in 0 .. last
        PROVE  fn[n] = IF n = 0 THEN key ELSE Next(n, fn[n - 1])
    <3>1. CASE n = 0
      BY <1>a, <3>1, LinkIs
    <3>2. CASE n # 0
      <4>1. n \in 1 .. last /\ n - 1 \in 0 .. last
        BY <3>2
      <4> QED BY <1>3, <3>2, <4>1
    <3> QED BY <3>1, <3>2
  <2>2. fn = [n \in 0 .. last |-> fn[n]]
    OBVIOUS
  <2> HIDE DEF fn
  <2>3. [n \in 0 .. last |-> fn[n]] = [n \in 0 .. last |-> IF n = 0 THEN key ELSE Next(n, fn[n - 1])]
    BY <2>1
  <2>4. ChainLinks(fn, last, key, flags, byte, c, length)
          = [n \in 0 .. last |-> IF n = 0 THEN key ELSE Next(n, fn[n - 1])]
    BY <1>4
  <2> QED BY <2>2, <2>3, <2>4
<1>6. f = ChainLinks(f, last, key, flags, byte, c, length)
  <2> HIDE DEF fn
  <2> QED BY <1>5
<1> HIDE DEF f
<1>7. \A n \in 0 .. last : f[n] = IF n = 0 THEN key ELSE Next(n, f[n - 1])
  <2>1. f = [n \in 0 .. last |-> IF n = 0 THEN key ELSE Next(n, f[n - 1])]
    BY <1>4, <1>6
  <2> QED BY <2>1
<1> DEFINE T == {n \in 0 .. last : f[n] = l[n]}
<1>8. T = 0 .. last
  <2>1. 0 \in T /\ T \in SUBSET (0 .. last)
    BY <1>1, <1>a, <1>7, LinkIs
  <2>2. ASSUME NEW n \in 1 .. last, n - 1 \in T
        PROVE  n \in T
    BY <1>3, <1>7, <2>2
  <2> HIDE DEF T
  <2> QED BY <1>1, <2>1, <2>2, UpTo
<1>9. last \in 0 .. last
  BY <1>1
<1> QED BY <1>a, <1>8, <1>9 DEF f

\* The node of a chunk is of its last link and its last block.
LEMMA TreeChunkIs ==
  ASSUME NEW key, NEW flags, NEW byte, NEW c \in Nat, NEW from, from = c * CHUNK_LEN,
         NEW n \in 0 .. CHUNK_LEN, NEW q, q = LastBlock(n), NEW u, u = n - q * BLOCK_LEN
  PROVE  TreeChunk(key, flags, byte, c, n)
           = Node(Link(key, flags, byte, c)[q], Padded(byte, from + q * BLOCK_LEN, u), u, c,
                  flags \cup Start(q) \cup {"CHUNK_END"})
<1>1. BLOCK_LEN \in Nat \ {0} /\ CHUNK_LEN \in Nat \ {0} /\ Blocks \in Nat \ {0} /\ n \in Nat
  BY BlocksAre
<1>2. q \in 0 .. Blocks - 1 /\ u \in 0 .. BLOCK_LEN
  BY <1>1, LastBlockIs
<1>a. PICK at : at = q * BLOCK_LEN
  OBVIOUS
<1>3. at \in Nat /\ u = n - at /\ at <= n
  <2>1. at \in Nat
    BY <1>1, <1>2, <1>a
  <2> QED BY <1>1, <1>2, <1>a, <2>1
<1> DEFINE block == [i \in 1 .. BLOCK_LEN |-> IF q * BLOCK_LEN + i <= n
                                              THEN byte[c * CHUNK_LEN + q * BLOCK_LEN + i] ELSE 0]
           link == CHOOSE f : f = ChainLinks(f, q, key, flags, byte, c, n)
<1>5. TreeChunk(key, flags, byte, c, n)
        = Node(link[q], block, u, c, flags \cup Start(q) \cup {"CHUNK_END"})
  BY DEF TreeChunk, ChainLinks, Node, Start, LastBlock
<1>6. block = Padded(byte, from + at, u)
  <2>1. \A i \in 1 .. BLOCK_LEN : at + i <= n <=> i <= u
    BY <1>1, <1>3
  <2>2. block = [i \in 1 .. BLOCK_LEN |-> IF at + i <= n THEN byte[from + at + i] ELSE 0]
    BY <1>a
  <2> QED BY <2>1, <2>2 DEF Padded
<1>7. link[q] = Link(key, flags, byte, c)[q]
  <2>1. q * BLOCK_LEN <= n
    BY <1>3, <1>a
  <2> QED BY <1>1, <1>2, <2>1, ChainIsOfLinks
<1> HIDE DEF block, link
<1> QED BY <1>a, <1>5, <1>6, <1>7

OutputOf(x) == make_output(x.cv, x.block, x.len, x.counter, x.flags)

\* An output is a node that is not yet compressed.
LEMMA OutputIs ==
  ASSUME NEW cv, NEW block, NEW len, NEW counter, NEW flags
  PROVE  /\ make_output(cv, block, len, counter, flags)
              = OutputOf(Node(cv, block, len, counter, flags))
         /\ output_chaining_value(OutputOf(Node(cv, block, len, counter, flags)))
              = FirstBytes(Node(cv, block, len, counter, flags))
<1>1. make_output(cv, block, len, counter, flags) = OutputOf(Node(cv, block, len, counter, flags))
  BY DEF OutputOf, Node
<1>2. output_chaining_value(make_output(cv, block, len, counter, flags))
        = compress_in_place(cv, block, len, counter, flags)
  BY DEF output_chaining_value, make_output
<1> QED BY <1>1, <1>2, CompressIs

Parent(block, key, flags) == Node(key, block, BLOCK_LEN, 0, flags \cup {"PARENT"})

LEMMA ParentIs ==
  ASSUME NEW block, NEW key, NEW flags
  PROVE  /\ parent_output(block, key, flags) = OutputOf(Parent(block, key, flags))
         /\ output_chaining_value(parent_output(block, key, flags))
              = FirstBytes(Parent(block, key, flags))
BY OutputIs DEF parent_output, Parent

\* The output of a chunk's state is the node of the bytes it was fed.
LEMMA ChunkIs ==
  ASSUME NEW key, NEW flags, NEW byte, NEW c \in Nat, NEW n \in 0 .. CHUNK_LEN
  PROVE  /\ chunk_state_output(ChunkOf(key, flags, byte, c, n))
              = OutputOf(TreeChunk(key, flags, byte, c, n))
         /\ output_chaining_value(OutputOf(TreeChunk(key, flags, byte, c, n)))
              = FirstBytes(TreeChunk(key, flags, byte, c, n))
         /\ chunk_state_len(ChunkOf(key, flags, byte, c, n)) = n
         /\ ChunkOf(key, flags, byte, c, n).chunk_counter = c
         /\ ChunkOf(key, flags, byte, c, n).flags = flags
<1>a. PICK q, u, from : q = LastBlock(n) /\ u = n - q * BLOCK_LEN /\ from = c * CHUNK_LEN
  OBVIOUS
<1>1. ChunkOf(key, flags, byte, c, n)
        = State(Link(key, flags, byte, c)[q], c, Padded(byte, from + q * BLOCK_LEN, u), u, q, flags)
  BY <1>a DEF ChunkOf, ChunkState
<1>b. PICK l, buf : l = Link(key, flags, byte, c)[q] /\ buf = Padded(byte, from + q * BLOCK_LEN, u)
  OBVIOUS
<1>2. TreeChunk(key, flags, byte, c, n)
        = Node(l, buf, u, c, flags \cup Start(q) \cup {"CHUNK_END"})
  BY <1>a, <1>b, TreeChunkIs
<1>c. PICK self : self = State(l, c, buf, u, q, flags)
  OBVIOUS
<1>3. chunk_state_output(self) = make_output(l, buf, u, c, flags \cup Start(q) \cup {"CHUNK_END"})
  BY <1>c DEF chunk_state_output, chunk_state_maybe_start_flag, Start, State
<1>4. chunk_state_len(self) = n
  <2>1. n \in Nat /\ BLOCK_LEN \in Nat
    BY BlocksAre
  <2>2. q \in Nat
    BY <1>a, <2>1, LastBlockIs
  <2>3. chunk_state_len(self) = BLOCK_LEN * q + u
    BY <1>c DEF chunk_state_len, State
  <2> QED BY <1>a, <2>1, <2>2, <2>3
<1>5. self.chunk_counter = c /\ self.flags = flags
  BY <1>c DEF State
<1> QED BY <1>1, <1>2, <1>3, <1>4, <1>5, <1>a, <1>b, <1>c, OutputIs

\* A new state is that of a chunk with no bytes.
LEMMA NewChunk ==
  ASSUME NEW key, NEW flags, NEW byte, NEW c \in Nat
  PROVE  chunk_state_init(key, flags, c) = ChunkOf(key, flags, byte, c, 0)
<1>1. LastBlock(0) = 0 /\ 0 - LastBlock(0) * BLOCK_LEN = 0
  BY BlocksAre DEF LastBlock
<1>2. c * CHUNK_LEN + 0 * BLOCK_LEN \in Nat
  BY BlocksAre
<1>3. Padded(byte, c * CHUNK_LEN + 0 * BLOCK_LEN, 0) = Zeros
  BY <1>2, PaddedEnds
<1>4. Link(key, flags, byte, c)[0] = key
  BY LinkIs
<1> QED BY <1>1, <1>3, <1>4 DEF ChunkOf, ChunkState, State, chunk_state_init

-----------------------------------------------------------------------------
(* Hashing at once                                                         *)

HashBlocks(f, blocks, input, key, counter, flags, flags_start, flags_end) ==
  [n \in 0 .. blocks |->
     IF n = 0 THEN key
     ELSE compress_in_place(f[n - 1], Piece(input, n, BLOCK_LEN), BLOCK_LEN, counter,
                            flags \cup (IF n = 1 THEN flags_start ELSE {})
                                  \cup (IF n = blocks THEN flags_end ELSE {}))]

LEMMA HashOne ==
  ASSUME NEW input, NEW key, NEW counter, NEW flags, NEW flags_start, NEW flags_end,
         NEW blocks \in Nat, blocks = Len(input) \div BLOCK_LEN,
         NEW fn, fn = HashBlocks(fn, blocks, input, key, counter, flags, flags_start, flags_end)
  PROVE  hash_one(input, key, counter, flags, flags_start, flags_end) = fn[blocks]
<1> DEFINE f == CHOOSE h : h = HashBlocks(h, blocks, input, key, counter, flags,
                                          flags_start, flags_end)
           Next(n, cv) ==
             compress_in_place(cv, Piece(input, n, BLOCK_LEN), BLOCK_LEN, counter,
                            flags \cup (IF n = 1 THEN flags_start ELSE {})
                                  \cup (IF n = blocks THEN flags_end ELSE {}))
<1>1. hash_one(input, key, counter, flags, flags_start, flags_end) = f[blocks]
  BY DEF hash_one, HashBlocks
<1>2. f = HashBlocks(f, blocks, input, key, counter, flags, flags_start, flags_end)
  OBVIOUS
<1> HIDE DEF f
<1>3. \A h : HashBlocks(h, blocks, input, key, counter, flags, flags_start, flags_end)
               = [n \in 0 .. blocks |-> IF n = 0 THEN key ELSE Next(n, h[n - 1])]
  BY DEF HashBlocks
<1> HIDE DEF Next
<1>4. \A n \in 0 .. blocks : f[n] = IF n = 0 THEN key ELSE Next(n, f[n - 1])
  <2>1. f = [n \in 0 .. blocks |-> IF n = 0 THEN key ELSE Next(n, f[n - 1])]
    BY <1>2, <1>3
  <2> QED BY <2>1
<1>5. \A n \in 0 .. blocks : fn[n] = IF n = 0 THEN key ELSE Next(n, fn[n - 1])
  <2>1. fn = [n \in 0 .. blocks |-> IF n = 0 THEN key ELSE Next(n, fn[n - 1])]
    BY <1>3
  <2> QED BY <2>1
<1> DEFINE T == {n \in 0 .. blocks : f[n] = fn[n]}
<1>6. T = 0 .. blocks
  <2>1. 0 \in T /\ T \in SUBSET (0 .. blocks)
    BY <1>4, <1>5
  <2>2. ASSUME NEW n \in 1 .. blocks, n - 1 \in T
        PROVE  n \in T
    BY <1>4, <1>5, <2>2
  <2> HIDE DEF T
  <2> QED BY <2>1, <2>2, UpTo
<1>7. blocks \in 0 .. blocks
  OBVIOUS
<1> QED BY <1>1, <1>6, <1>7

\* Hashing a whole chunk at once gives the value of its node.
LEMMA HashChunk ==
  ASSUME NEW key, NEW flags, NEW byte, NEW c \in Nat,
         NEW input, input = Segment(byte, c * CHUNK_LEN, CHUNK_LEN)
  PROVE  hash_one(input, key, c, flags, {"CHUNK_START"}, {"CHUNK_END"})
           = FirstBytes(TreeChunk(key, flags, byte, c, CHUNK_LEN))
<1>a. PICK l, from : l = Link(key, flags, byte, c) /\ from = c * CHUNK_LEN
  OBVIOUS
<1>b. PICK root : root = TreeChunk(key, flags, byte, c, CHUNK_LEN)
  OBVIOUS
<1>d. CHUNK_LEN = BLOCK_LEN * Blocks
  BY BlocksAre
<1>1. BLOCK_LEN \in Nat \ {0} /\ CHUNK_LEN \in Nat \ {0} /\ Blocks \in Nat \ {0} /\ from \in Nat
  BY <1>a, BlocksAre
<1>2. Blocks = Len(input) \div BLOCK_LEN
  <2>1. Len(input) = CHUNK_LEN
    BY <1>1, <1>a, SegmentsAre
  <2> QED BY <2>1 DEF Blocks
<1> DEFINE Flagged(n) == flags \cup (IF n = 1 THEN {"CHUNK_START"} ELSE {})
                               \cup (IF n = Blocks THEN {"CHUNK_END"} ELSE {})
           fn == [n \in 0 .. Blocks |-> IF n = Blocks THEN FirstBytes(root) ELSE l[n]]
<1>3. ASSUME NEW n \in 1 .. Blocks
      PROVE  Piece(input, n, BLOCK_LEN) = Segment(byte, from + (n - 1) * BLOCK_LEN, BLOCK_LEN)
  <2>1. PICK p, at : p = n - 1 /\ at = p * BLOCK_LEN
    OBVIOUS
  <2>2. at \in Nat /\ at + BLOCK_LEN <= CHUNK_LEN
    <3>1. PICK e \in Nat : Blocks = p + 1 + e
      <4>1. Blocks - n \in Nat /\ Blocks = p + 1 + (Blocks - n)
        BY <1>1, <2>1
      <4> QED BY <4>1
    <3>2. p \in Nat
      BY <1>1, <2>1
    <3>3. CHUNK_LEN = p * BLOCK_LEN + BLOCK_LEN + e * BLOCK_LEN /\ e * BLOCK_LEN \in Nat
          /\ p * BLOCK_LEN \in Nat
      BY <1>1, <1>d, <3>1, <3>2
    <3>4. PICK z : z = e * BLOCK_LEN
      OBVIOUS
    <3>5. CHUNK_LEN = at + BLOCK_LEN + z /\ z \in Nat /\ at \in Nat
      BY <2>1, <3>3, <3>4
    <3> QED BY <1>1, <3>5
  <2>3. Part(Segment(byte, from, CHUNK_LEN), at, BLOCK_LEN) = Segment(byte, from + at, BLOCK_LEN)
    BY <1>1, <2>2, SegmentParts
  <2>4. n * BLOCK_LEN = at + BLOCK_LEN
    BY <1>1, <2>1
  <2> QED BY <1>a, <2>1, <2>3, <2>4 DEF Piece, Part
<1>4. ASSUME NEW n \in 1 .. Blocks - 1
      PROVE  compress_in_place(l[n - 1], Piece(input, n, BLOCK_LEN), BLOCK_LEN, c, Flagged(n)) = l[n]
  <2>1. PICK p : p = n - 1
    OBVIOUS
  <2>2. p \in 0 .. Blocks - 1 /\ p + 1 = n /\ n # Blocks /\ n \in 1 .. Blocks
    BY <1>1, <2>1
  <2>3. Flagged(n) = flags \cup Start(p)
    BY <2>1, <2>2 DEF Start
  <2>4. l[n] = NextLink(l[p], flags, byte, c, p)
    BY <1>a, <2>2, LinkIs
  <2> HIDE DEF Flagged
  <2> QED BY <1>3, <1>a, <2>1, <2>2, <2>3, <2>4, CompressIs DEF NextLink
<1>5. compress_in_place(l[Blocks - 1], Piece(input, Blocks, BLOCK_LEN), BLOCK_LEN, c, Flagged(Blocks))
        = FirstBytes(root)
  <2>1. PICK p, at : p = Blocks - 1 /\ at = p * BLOCK_LEN
    OBVIOUS
  <2>2. p \in Nat /\ at \in Nat /\ CHUNK_LEN = at + BLOCK_LEN
    BY <1>1, <1>d, <2>1
  <2>3. p = LastBlock(CHUNK_LEN)
    <3>1. BLOCK_LEN \in 1 .. BLOCK_LEN
      BY <1>1
    <3> QED BY <2>1, <2>2, <3>1, LastBlockOf
  <2>4. root = Node(l[p], Padded(byte, from + at, BLOCK_LEN), BLOCK_LEN, c,
                    flags \cup Start(p) \cup {"CHUNK_END"})
    <3>1. BLOCK_LEN = CHUNK_LEN - p * BLOCK_LEN /\ CHUNK_LEN \in 0 .. CHUNK_LEN
      BY <1>1, <2>1, <2>2
    <3> QED BY <1>a, <1>b, <2>1, <2>3, <3>1, TreeChunkIs
  <2>5. Padded(byte, from + at, BLOCK_LEN) = Segment(byte, from + at, BLOCK_LEN)
    BY <1>1, <2>2, PaddedEnds
  <2>6. Flagged(Blocks) = flags \cup Start(p) \cup {"CHUNK_END"}
    BY <1>1, <2>1 DEF Start
  <2>7. Piece(input, Blocks, BLOCK_LEN) = Segment(byte, from + at, BLOCK_LEN)
    BY <1>1, <1>3, <2>1
  <2> HIDE DEF Flagged
  <2> QED BY <2>1, <2>4, <2>5, <2>6, <2>7, CompressIs
<1>6. fn = HashBlocks(fn, Blocks, input, key, c, flags, {"CHUNK_START"}, {"CHUNK_END"})
  <2>1. ASSUME NEW n \in 0 .. Blocks
        PROVE  fn[n] = IF n = 0 THEN key
                      ELSE compress_in_place(fn[n - 1], Piece(input, n, BLOCK_LEN), BLOCK_LEN, c,
                                             Flagged(n))
    <3>1. CASE n = 0
      BY <1>1, <1>a, <3>1, LinkIs
    <3>2. CASE n \in 1 .. Blocks - 1
      <4>1. n # 0 /\ n # Blocks /\ n - 1 # Blocks /\ n - 1 \in 0 .. Blocks
        BY <1>1, <3>2
      <4> HIDE DEF Flagged
      <4> QED BY <1>4, <3>2, <4>1
    <3>3. CASE n = Blocks
      <4>1. n # 0 /\ n - 1 # Blocks /\ n - 1 \in 0 .. Blocks
        BY <1>1, <3>3
      <4> HIDE DEF Flagged
      <4> QED BY <1>5, <3>3, <4>1
    <3> QED BY <1>1, <3>1, <3>2, <3>3
  <2>2. fn = [n \in 0 .. Blocks |-> fn[n]]
    OBVIOUS
  <2> HIDE DEF fn
  <2>3. [n \in 0 .. Blocks |-> fn[n]]
          = [n \in 0 .. Blocks |->
               IF n = 0 THEN key
               ELSE compress_in_place(fn[n - 1], Piece(input, n, BLOCK_LEN), BLOCK_LEN, c,
                                      Flagged(n))]
    BY <2>1
  <2> QED BY <2>2, <2>3 DEF HashBlocks
<1>7. fn[Blocks] = FirstBytes(root)
  <2>1. Blocks \in 0 .. Blocks
    BY <1>1
  <2> QED BY <2>1
<1> HIDE DEF fn
<1>8. Blocks \in Nat
  BY <1>1
<1> QED BY <1>2, <1>6, <1>7, <1>8, <1>a, <1>b, HashOne

-----------------------------------------------------------------------------
(* Halves                                                                  *)

LEMMA MaxIs ==
  ASSUME NEW S \in SUBSET Nat, NEW m \in S, \A x \in S : x <= m
  PROVE  Max(S) = m
<1>1. \E x \in S : \A y \in S : x >= y
  OBVIOUS
<1>2. Max(S) \in S /\ \A y \in S : Max(S) >= y
  BY <1>1 DEF Max
<1>3. Max(S) \in Nat /\ m \in Nat /\ Max(S) >= m /\ Max(S) <= m
  BY <1>2
<1> QED BY <1>3

\* The power of two a number is rounded down to is the one it lies above.
LEMMA RoundDown ==
  ASSUME NEW p \in PowersOfTwo, NEW x \in Nat, p <= x, x < 2 * p
  PROVE  round_down_to_power_of_2(x) = p
<1> DEFINE S == {r \in PowersOfTwo : r <= x}
<1>1. p \in Nat \ {0} /\ S \in SUBSET Nat /\ p \in S
  BY PowersAre
<1>2. ASSUME NEW r \in S
      PROVE  r <= p
  <2>1. r \in Nat /\ r \in PowersOfTwo /\ r <= x
    BY <1>1
  <2>2. p < r => 2 * p <= r
    BY <2>1, PowersDivide
  <2> QED BY <1>1, <2>1, <2>2
<1>3. Max(S) = p
  <2> HIDE DEF S
  <2> QED BY <1>1, <1>2, MaxIs
<1>4. x # 0
  BY <1>1
<1> QED BY <1>3, <1>4 DEF round_down_to_power_of_2

\* The full half of so many chunks.
Half(chunks) == CHOOSE p \in PowersOfTwo : p < chunks /\ chunks <= 2 * p

LEMMA HalfIs ==
  ASSUME NEW p \in PowersOfTwo, NEW chunks \in Nat, p < chunks, chunks <= 2 * p
  PROVE  Half(chunks) = p
<1>1. \E r \in PowersOfTwo : r < chunks /\ chunks <= 2 * r
  OBVIOUS
<1>2. PICK r \in PowersOfTwo : r = Half(chunks) /\ r < chunks /\ chunks <= 2 * r
  BY <1>1 DEF Half
<1>3. p \in Nat /\ r \in Nat
  BY PowersAre
<1>4. (p < r => 2 * p <= r) /\ (r < p => 2 * r <= p)
  BY PowersDivide
<1> QED BY <1>2, <1>3, <1>4

\* There is a left half for every number of chunks that a message may have.
LEMMA HalfExists ==
  ASSUME NEW chunks \in Nat, 1 < chunks, chunks <= power_of_two[MAX_DEPTH]
  PROVE  \E p \in PowersOfTwo : p < chunks /\ chunks <= 2 * p
<1> DEFINE S == {q \in PowersOfTwo : chunks <= q}
<1>1. power_of_two[MAX_DEPTH] \in S /\ S \in SUBSET Nat
  BY Lengths, PowersAre
<1>2. PICK q \in S : \A r \in S : q <= r
  <2> HIDE DEF S
  <2> QED BY <1>1, LeastNumber
<1>3. q \in PowersOfTwo /\ q \in Nat /\ chunks <= q
  BY <1>1, <1>2
<1>4. PICK p \in PowersOfTwo : q = 2 * p
  BY <1>3, PowersAre
<1>5. p \in Nat \ {0}
  BY PowersAre
<1>6. ~(chunks <= p)
  BY <1>2, <1>3, <1>4, <1>5
<1> QED BY <1>3, <1>4, <1>5, <1>6

\* The chunks of so many bytes, the last one not empty.
Chunks(length) == (length + CHUNK_LEN - 1) \div CHUNK_LEN

\* A length is whole chunks and a last one that is not empty.
LEMMA InChunks ==
  ASSUME NEW length \in Nat \ {0}
  PROVE  \E y \in Nat, r \in 1 .. CHUNK_LEN :
           /\ length = y * CHUNK_LEN + r
           /\ Chunks(length) = y + 1 /\ (length - 1) \div CHUNK_LEN = y
<1>1. CHUNK_LEN \in Nat \ {0}
  BY BlocksAre
<1>2. PICK x, y, r : x = length - 1 /\ y = x \div CHUNK_LEN /\ r = x % CHUNK_LEN
  OBVIOUS
<1>3. x \in Nat /\ y \in Nat /\ r \in 0 .. CHUNK_LEN - 1 /\ x = CHUNK_LEN * y + r
  <2>1. x \in Nat
    BY <1>2
  <2> QED BY <1>1, <1>2, <2>1, QuotientRemainder
<1>4. PICK z : z = CHUNK_LEN * y
  OBVIOUS
<1>5. z \in Nat /\ y * CHUNK_LEN = z
  BY <1>1, <1>3, <1>4
<1>6. r + 1 \in 1 .. CHUNK_LEN /\ length = z + (r + 1)
  BY <1>1, <1>2, <1>3, <1>4, <1>5
<1>7. Chunks(length) = y + 1
  <2>1. length + CHUNK_LEN - 1 = CHUNK_LEN * (y + 1) + r
    <3>1. CHUNK_LEN * (y + 1) = z + CHUNK_LEN
      BY <1>1, <1>3, <1>4
    <3> QED BY <1>1, <1>3, <1>5, <1>6, <3>1
  <2>2. y + 1 \in Nat
    BY <1>3
  <2>3. (CHUNK_LEN * (y + 1) + r) \div CHUNK_LEN = y + 1
    BY <1>1, <1>3, <2>2, Quotient
  <2> QED BY <2>1, <2>3 DEF Chunks
<1> QED BY <1>2, <1>3, <1>5, <1>6, <1>7

LEMMA MaxLengthIs ==
  /\ MaxLength \in Nat /\ MaxLength = CHUNK_LEN * power_of_two[MAX_DEPTH]
  /\ power_of_two[MAX_DEPTH] \in Nat \ {0} /\ power_of_two[MAX_DEPTH] \in PowersOfTwo
<1>1. power_of_two[MAX_DEPTH] \in Nat \ {0} /\ power_of_two[MAX_DEPTH] \in PowersOfTwo
  BY Lengths, PowersAre
<1> QED BY <1>1, BlocksAre DEF MaxLength

\* Products with the length of a chunk keep the order.
LEMMA ChunksOrder ==
  ASSUME NEW x \in Nat, NEW y \in Nat
  PROVE  /\ x < y <=> x * CHUNK_LEN < y * CHUNK_LEN
         /\ x <= y <=> x * CHUNK_LEN <= y * CHUNK_LEN
         /\ x < y <=> x * CHUNK_LEN + CHUNK_LEN <= y * CHUNK_LEN
         /\ x * CHUNK_LEN \in Nat
<1>1. CHUNK_LEN \in Nat \ {0}
  BY BlocksAre
<1>2. CASE x < y
  <2>1. PICK e \in Nat : y = x + 1 + e
    <3>1. y - x - 1 \in Nat /\ y = x + 1 + (y - x - 1)
      BY <1>2
    <3> QED BY <3>1
  <2>2. PICK a, b, c : a = x * CHUNK_LEN /\ b = y * CHUNK_LEN /\ c = e * CHUNK_LEN
    OBVIOUS
  <2>3. a \in Nat /\ c \in Nat /\ b = a + CHUNK_LEN + c
    BY <1>1, <2>1, <2>2
  <2> QED BY <1>1, <1>2, <2>2, <2>3
<1>3. CASE y <= x
  <2>1. PICK e \in Nat : x = y + e
    <3>1. x - y \in Nat /\ x = y + (x - y)
      BY <1>3
    <3> QED BY <3>1
  <2>2. PICK a, b, c : a = x * CHUNK_LEN /\ b = y * CHUNK_LEN /\ c = e * CHUNK_LEN
    OBVIOUS
  <2>3. b \in Nat /\ c \in Nat /\ a = b + c /\ (e = 0 => c = 0) /\ (e # 0 => c > 0)
    BY <1>1, <2>1, <2>2
  <2> QED BY <1>1, <1>3, <2>1, <2>2, <2>3
<1> QED BY <1>2, <1>3

\* A message of more than a chunk has a full left half.
LEMMA HalvesAre ==
  ASSUME NEW length \in 0 .. MaxLength, CHUNK_LEN < length
  PROVE  /\ \E p \in PowersOfTwo : p * CHUNK_LEN < length /\ length <= 2 * p * CHUNK_LEN
         /\ Half(Chunks(length)) \in PowersOfTwo
         /\ Half(Chunks(length)) * CHUNK_LEN < length
         /\ length <= 2 * Half(Chunks(length)) * CHUNK_LEN
<1>a. CHUNK_LEN \in Nat \ {0} /\ length \in Nat \ {0}
  BY BlocksAre, MaxLengthIs
<1>1. PICK y \in Nat, r \in 1 .. CHUNK_LEN :
         length = y * CHUNK_LEN + r /\ Chunks(length) = y + 1
  BY <1>a, InChunks
<1>b. PICK top : top = power_of_two[MAX_DEPTH]
  OBVIOUS
<1>c. top \in Nat /\ MaxLength = top * CHUNK_LEN
  BY <1>a, <1>b, MaxLengthIs
<1>2. 1 < y + 1 /\ y + 1 <= top
  <2>1. PICK z : z = y * CHUNK_LEN
    OBVIOUS
  <2>2. y # 0
    <3>1. y = 0 => z = 0
      BY <1>a, <2>1
    <3> QED BY <1>a, <1>1, <2>1, <3>1
  <2>3. y < top
    <3>1. PICK t : t = top * CHUNK_LEN
      OBVIOUS
    <3>2. t \in Nat /\ z \in Nat
      BY <1>c, <2>1, <3>1, ChunksOrder
    <3>3. z < t
      BY <1>a, <1>c, <1>1, <2>1, <3>1, <3>2
    <3> QED BY <1>c, <2>1, <3>1, <3>3, ChunksOrder
  <2> QED BY <1>c, <2>2, <2>3
<1>3. PICK p \in PowersOfTwo : p < y + 1 /\ y + 1 <= 2 * p
  BY <1>2, <1>b, HalfExists
<1>4. Half(y + 1) = p
  BY <1>3, HalfIs
<1>5. p * CHUNK_LEN < length /\ length <= 2 * p * CHUNK_LEN
  <2>1. p \in Nat /\ 2 * p \in Nat /\ p <= y /\ y < 2 * p
    BY <1>3, PowersAre
  <2>2. p * CHUNK_LEN <= y * CHUNK_LEN /\ y * CHUNK_LEN + CHUNK_LEN <= (2 * p) * CHUNK_LEN
    BY <2>1, ChunksOrder
  <2>3. PICK a, b, z : a = p * CHUNK_LEN /\ b = (2 * p) * CHUNK_LEN /\ z = y * CHUNK_LEN
    OBVIOUS
  <2>4. a \in Nat /\ b \in Nat /\ z \in Nat
    BY <2>1, <2>3, ChunksOrder
  <2>5. a < length /\ length <= b
    BY <1>a, <1>1, <2>2, <2>3, <2>4
  <2> QED BY <2>3, <2>5
<1> QED BY <1>1, <1>4, <1>5

\* blake3's left_len is the tree's left half.
LEMMA HalfOfLength ==
  ASSUME NEW length \in 0 .. MaxLength, NEW p \in PowersOfTwo,
         p * CHUNK_LEN < length, length <= 2 * p * CHUNK_LEN
  PROVE  /\ Half(Chunks(length)) = p /\ CHUNK_LEN < length
         /\ left_len(length) = p * CHUNK_LEN
         /\ ~(Chunks(length) <= 1)
<1>a. CHUNK_LEN \in Nat \ {0} /\ length \in Nat /\ p \in Nat \ {0} /\ 2 * p \in Nat
  BY BlocksAre, MaxLengthIs, PowersAre
<1>b. PICK a, b : a = p * CHUNK_LEN /\ b = (2 * p) * CHUNK_LEN
  OBVIOUS
<1>1. a \in Nat /\ b \in Nat /\ CHUNK_LEN <= a /\ a < length /\ length <= b
  <2>1. a \in Nat /\ b \in Nat
    BY <1>a, <1>b, ChunksOrder
  <2>2. 1 * CHUNK_LEN <= p * CHUNK_LEN
    BY <1>a, ChunksOrder
  <2> QED BY <1>a, <1>b, <2>1, <2>2
<1>2. PICK y \in Nat, r \in 1 .. CHUNK_LEN :
         /\ length = y * CHUNK_LEN + r /\ Chunks(length) = y + 1
         /\ (length - 1) \div CHUNK_LEN = y
  <2>1. length \in Nat \ {0}
    BY <1>a, <1>1
  <2> QED BY <2>1, InChunks
<1>3. p <= y /\ y < 2 * p
  <2>1. PICK z, w : z = y * CHUNK_LEN /\ w = (y + 1) * CHUNK_LEN
    OBVIOUS
  <2>2. z \in Nat /\ w = z + CHUNK_LEN
    BY <1>a, <2>1
  <2>3. z < b /\ a < w
    BY <1>a, <1>1, <1>2, <2>1, <2>2
  <2>4. p < y + 1 /\ y < 2 * p
    BY <1>a, <1>b, <2>1, <2>3, ChunksOrder
  <2> QED BY <1>a, <2>4
<1>4. Half(y + 1) = p
  <2>1. p < y + 1 /\ y + 1 <= 2 * p
    BY <1>a, <1>3
  <2> QED BY <2>1, HalfIs
<1>5. round_down_to_power_of_2(y) = p
  BY <1>3, RoundDown
<1>6. CHUNK_LEN < length /\ ~(y + 1 <= 1)
  BY <1>a, <1>1, <1>3
<1> QED BY <1>2, <1>4, <1>5, <1>6 DEF left_len

-----------------------------------------------------------------------------
(* The tree                                                                *)

TreeNode(f, key, flags, byte, length, chunk) ==
  IF Chunks(length) <= 1 THEN TreeChunk(key, flags, byte, chunk, length)
  ELSE Parent(Joined(FirstBytes(f[Half(Chunks(length)) * CHUNK_LEN][chunk]),
                     FirstBytes(f[length - Half(Chunks(length)) * CHUNK_LEN]
                                 [chunk + Half(Chunks(length))])), key, flags)

TreeRow(f, key, flags, byte, length) ==
  [chunk \in 0 .. (MaxLength - length) \div CHUNK_LEN |->
     TreeNode(f, key, flags, byte, length, chunk)]

TreeRows(f, m, key, flags, byte) ==
  [length \in 0 .. m |-> TreeRow(f, key, flags, byte, length)]

\* A chunk or less is one chunk, or none.
LEMMA OneChunk ==
  ASSUME NEW length \in Nat
  PROVE  Chunks(length) <= 1 <=> length <= CHUNK_LEN
<1>1. CHUNK_LEN \in Nat \ {0}
  BY BlocksAre
<1>2. CASE length = 0
  <2>1. (CHUNK_LEN - 1) \div CHUNK_LEN = 0
    <3>1. CHUNK_LEN - 1 \in 0 .. CHUNK_LEN - 1 /\ 0 \in Nat /\ CHUNK_LEN * 0 + (CHUNK_LEN - 1) = CHUNK_LEN - 1
      BY <1>1
    <3>2. (CHUNK_LEN * 0 + (CHUNK_LEN - 1)) \div CHUNK_LEN = 0
      BY <1>1, <3>1, Quotient
    <3> QED BY <3>1, <3>2
  <2>2. length + CHUNK_LEN - 1 = CHUNK_LEN - 1
    BY <1>1, <1>2
  <2> QED BY <1>1, <1>2, <2>1, <2>2 DEF Chunks
<1>3. CASE length # 0
  <2>1. PICK y \in Nat, r \in 1 .. CHUNK_LEN :
           length = y * CHUNK_LEN + r /\ Chunks(length) = y + 1
    BY <1>3, InChunks
  <2>2. PICK z : z = y * CHUNK_LEN
    OBVIOUS
  <2>3. z \in Nat /\ (y = 0 => z = 0) /\ (1 <= y => CHUNK_LEN <= z)
    <3>1. z \in Nat /\ (y = 0 => z = 0)
      BY <1>1, <2>2
    <3>2. 1 <= y => 1 * CHUNK_LEN <= y * CHUNK_LEN
      BY ChunksOrder
    <3> QED BY <1>1, <2>2, <3>1, <3>2
  <2> QED BY <1>1, <2>1, <2>2, <2>3
<1> QED BY <1>2, <1>3

\* A node needs only the nodes of shorter parts.
LEMMA RowsAgree ==
  ASSUME NEW f, NEW fn, NEW key, NEW flags, NEW byte, NEW length \in 0 .. MaxLength,
         \A k \in 0 .. length - 1 : f[k] = fn[k]
  PROVE  TreeRow(f, key, flags, byte, length) = TreeRow(fn, key, flags, byte, length)
<1>1. ASSUME NEW chunk
      PROVE  TreeNode(f, key, flags, byte, length, chunk)
               = TreeNode(fn, key, flags, byte, length, chunk)
  <2>a. length \in Nat
    BY MaxLengthIs
  <2>1. CASE length <= CHUNK_LEN
    <3>1. Chunks(length) <= 1
      BY <2>a, <2>1, OneChunk
    <3> QED BY <3>1 DEF TreeNode
  <2>2. CASE ~(length <= CHUNK_LEN)
    <3>1. CHUNK_LEN < length
      BY <2>a, <2>2, BlocksAre
    <3>2. PICK half, size : half = Half(Chunks(length)) /\ size = half * CHUNK_LEN
      OBVIOUS
    <3>3. size \in 0 .. length - 1 /\ length - size \in 0 .. length - 1
      <4>1. half \in PowersOfTwo /\ size < length
        BY <3>1, <3>2, HalvesAre
      <4>2. half \in Nat \ {0}
        BY <4>1, PowersAre
      <4>3. size \in Nat /\ 1 * CHUNK_LEN <= half * CHUNK_LEN
        BY <3>2, <4>2, ChunksOrder
      <4>4. size > 0
        BY <3>2, <4>3, BlocksAre
      <4> QED BY <2>a, <4>1, <4>3, <4>4
    <3>4. f[size] = fn[size] /\ f[length - size] = fn[length - size]
      BY <3>3
    <3> QED BY <3>2, <3>4 DEF TreeNode
  <2> QED BY <2>1, <2>2
<1> QED BY <1>1 DEF TreeRow

\* The tree exists.
LEMMA RowsExist ==
  ASSUME NEW key, NEW flags, NEW byte
  PROVE  \E f : f = TreeRows(f, MaxLength, key, flags, byte)
<1> DEFINE T == {m \in 0 .. MaxLength : \E f : f = TreeRows(f, m, key, flags, byte)}
<1>a. MaxLength \in Nat
  BY MaxLengthIs
<1>0. ASSUME NEW m \in 0 .. MaxLength, NEW fn,
             \A k \in 0 .. m - 1 : fn[k] = TreeRow(fn, key, flags, byte, k)
      PROVE  m \in T
  <2> DEFINE f == [k \in 0 .. m |-> IF k = m THEN TreeRow(fn, key, flags, byte, m) ELSE fn[k]]
  <2>1. \A k \in 0 .. m - 1 : f[k] = fn[k]
    BY <1>a
  <2>2. ASSUME NEW k \in 0 .. m
        PROVE  f[k] = TreeRow(f, key, flags, byte, k)
    <3>1. f[k] = TreeRow(fn, key, flags, byte, k)
      <4>1. CASE k = m
        BY <4>1
      <4>2. CASE k # m
        <5>1. k \in 0 .. m - 1
          BY <1>a, <4>2
        <5> QED BY <1>0, <2>1, <5>1
      <4> QED BY <4>1, <4>2
    <3>2. \A j \in 0 .. k - 1 : f[j] = fn[j]
      <4>1. \A j \in 0 .. k - 1 : j \in 0 .. m - 1
        BY <1>a
      <4> HIDE DEF f
      <4> QED BY <2>1, <4>1
    <3>3. k \in 0 .. MaxLength
      BY <1>a
    <3>4. TreeRow(f, key, flags, byte, k) = TreeRow(fn, key, flags, byte, k)
      <4> HIDE DEF f
      <4> QED BY <3>2, <3>3, RowsAgree
    <3> HIDE DEF f
    <3> QED BY <3>1, <3>4
  <2>3. f = [k \in 0 .. m |-> f[k]]
    OBVIOUS
  <2> HIDE DEF f
  <2>4. f = TreeRows(f, m, key, flags, byte)
    BY <2>2, <2>3 DEF TreeRows
  <2> QED BY <2>4
<1>1. 0 \in T
  <2>1. 0 \in 0 .. MaxLength /\ \A k \in 0 .. 0 - 1 : FALSE
    BY <1>a
  <2> HIDE DEF T
  <2> QED BY <1>0, <2>1
<1>2. ASSUME NEW m \in 1 .. MaxLength, m - 1 \in T
      PROVE  m \in T
  <2>1. PICK fn : fn = TreeRows(fn, m - 1, key, flags, byte)
    BY <1>2
  <2>2. \A k \in 0 .. m - 1 : fn[k] = TreeRow(fn, key, flags, byte, k)
    <3>1. \A k \in 0 .. m - 1 : TreeRows(fn, m - 1, key, flags, byte)[k] = TreeRow(fn, key, flags, byte, k)
      BY DEF TreeRows
    <3> QED BY <2>1, <3>1
  <2>3. m \in 0 .. MaxLength
    BY <1>a
  <2> HIDE DEF T
  <2> QED BY <1>0, <2>2, <2>3
<1>3. T = 0 .. MaxLength
  <2>1. T \in SUBSET (0 .. MaxLength)
    OBVIOUS
  <2> HIDE DEF T
  <2> QED BY <1>a, <1>1, <1>2, <2>1, UpTo
<1>4. MaxLength \in 0 .. MaxLength
  BY <1>a
<1> QED BY <1>3, <1>4

\* The tree is what its recursion says.
LEMMA TreeIs ==
  ASSUME NEW key, NEW flags, NEW byte, NEW length \in 0 .. MaxLength,
         NEW chunk \in Nat, chunk * CHUNK_LEN + length <= MaxLength
  PROVE  Tree(key, flags, byte)[length][chunk]
           = TreeNode(Tree(key, flags, byte), key, flags, byte, length, chunk)
<1> DEFINE t == CHOOSE f : f = TreeRows(f, MaxLength, key, flags, byte)
<1>1. Tree(key, flags, byte) = t
  BY DEF Tree, TreeRows, TreeRow, TreeNode, Chunks, Half, Parent, Node, Joined
<1>2. t = TreeRows(t, MaxLength, key, flags, byte)
  BY RowsExist
<1> HIDE DEF t
<1>3. t[length] = TreeRow(t, key, flags, byte, length)
  <2>1. TreeRows(t, MaxLength, key, flags, byte)[length] = TreeRow(t, key, flags, byte, length)
    BY DEF TreeRows
  <2> QED BY <1>2, <2>1
<1>4. chunk \in 0 .. (MaxLength - length) \div CHUNK_LEN
  <2>a. CHUNK_LEN \in Nat \ {0} /\ MaxLength \in Nat
    BY BlocksAre, MaxLengthIs
  <2>1. PICK x, y, r : x = MaxLength - length /\ y = x \div CHUNK_LEN /\ r = x % CHUNK_LEN
    OBVIOUS
  <2>2. x \in Nat /\ y \in Nat /\ r \in 0 .. CHUNK_LEN - 1 /\ x = CHUNK_LEN * y + r
    <3>1. x \in Nat
      BY <2>a, <2>1
    <3> QED BY <2>a, <2>1, <3>1, QuotientRemainder
  <2>3. PICK a, b : a = chunk * CHUNK_LEN /\ b = (y + 1) * CHUNK_LEN
    OBVIOUS
  <2>4. a \in Nat /\ b \in Nat /\ a <= x /\ x < b
    <3>1. b = (CHUNK_LEN * y) + CHUNK_LEN
      BY <2>a, <2>2, <2>3
    <3>2. CHUNK_LEN * y \in Nat
      BY <2>a, <2>2
    <3>3. a \in Nat
      BY <2>a, <2>3
    <3>4. a + length <= MaxLength
      BY <2>3
    <3>5. length \in Nat
      BY <2>a
    <3>6. x < b
      BY <2>a, <2>2, <3>1, <3>2
    <3> QED BY <2>a, <2>1, <2>2, <3>1, <3>2, <3>3, <3>4, <3>5, <3>6
  <2>5. a < b
    BY <2>2, <2>4
  <2>6. chunk < y + 1
    <3>1. y + 1 \in Nat
      BY <2>2
    <3> QED BY <2>3, <2>5, <3>1, ChunksOrder
  <2> QED BY <2>1, <2>2, <2>6
<1>5. t[length][chunk] = TreeNode(t, key, flags, byte, length, chunk)
  BY <1>3, <1>4 DEF TreeRow
<1> QED BY <1>1, <1>5

\* The node over so many bytes, from a chunk on.
NodeOf(key, flags, byte, chunk, length) == Tree(key, flags, byte)[length][chunk]

LEMMA NodeOfChunk ==
  ASSUME NEW key, NEW flags, NEW byte, NEW length \in 0 .. CHUNK_LEN,
         NEW chunk \in Nat, chunk * CHUNK_LEN + length <= MaxLength
  PROVE  NodeOf(key, flags, byte, chunk, length) = TreeChunk(key, flags, byte, chunk, length)
<1>1. length \in 0 .. MaxLength
  <2>1. PICK a : a = chunk * CHUNK_LEN
    OBVIOUS
  <2>2. a \in Nat /\ a + length <= MaxLength /\ length \in Nat
    BY <2>1, ChunksOrder, BlocksAre
  <2> QED BY <2>2, MaxLengthIs
<1>2. Chunks(length) <= 1
  BY OneChunk, BlocksAre
<1> QED BY <1>1, <1>2, TreeIs DEF TreeNode, NodeOf

\* The node of more than a chunk is of its halves.
LEMMA NodeOfHalves ==
  ASSUME NEW key, NEW flags, NEW byte, NEW length \in Nat,
         NEW chunk \in Nat, chunk * CHUNK_LEN + length <= MaxLength,
         NEW p \in PowersOfTwo, p * CHUNK_LEN < length, length <= 2 * p * CHUNK_LEN
  PROVE  NodeOf(key, flags, byte, chunk, length)
           = Parent(Joined(FirstBytes(NodeOf(key, flags, byte, chunk, p * CHUNK_LEN)),
                           FirstBytes(NodeOf(key, flags, byte, chunk + p,
                                             length - p * CHUNK_LEN))), key, flags)
<1>1. length \in 0 .. MaxLength
  <2>1. PICK a : a = chunk * CHUNK_LEN
    OBVIOUS
  <2>2. a \in Nat /\ a + length <= MaxLength
    BY <2>1, ChunksOrder
  <2> QED BY <2>2, MaxLengthIs
<1>2. ~(Chunks(length) <= 1) /\ Half(Chunks(length)) = p
  BY <1>1, HalfOfLength
<1> QED BY <1>1, <1>2, TreeIs DEF TreeNode, NodeOf

-----------------------------------------------------------------------------
(* Values and their parents                                                *)

LEMMA TuplesAre ==
  ASSUME NEW a, NEW b, NEW c, NEW d
  PROVE  Sequence(<< >>, 0) /\ Sequence(<<a>>, 1) /\ Sequence(<<a, b>>, 2)
         /\ Sequence(<<a, b, c>>, 3) /\ Sequence(<<a, b, c, d>>, 4)
BY DEF Sequence

LEMMA TuplesJoin ==
  ASSUME NEW a, NEW b, NEW c, NEW d
  PROVE  /\ Joined(<<a>>, << >>) = <<a>> /\ Joined(<<a, b>>, << >>) = <<a, b>>
         /\ Joined(<<a>>, <<b>>) = <<a, b>> /\ Joined(<<a, b>>, <<c>>) = <<a, b, c>>
         /\ Joined(<<a, b>>, <<c, d>>) = <<a, b, c, d>>
<1>a. 0 \in Nat /\ 1 \in Nat /\ 2 \in Nat /\ 3 \in Nat /\ 4 \in Nat
  OBVIOUS
<1>1. Joined(<<a>>, << >>) = <<a>>
  <2> DEFINE s == Joined(<<a>>, << >>)
             t == <<a>>
  <2>1. Sequence(s, 1) /\ s[1] = a
    <3>1. 1 + 0 = 1 /\ 1 \in 1 .. 1
      OBVIOUS
    <3>2. Sequence(<<a>>, 1) /\ Sequence(<< >>, 0)
      BY TuplesAre
    <3>3. <<a>>[1] = a
      OBVIOUS
    <3>4. Sequence(Joined(<<a>>, << >>), 1 + 0)
          /\ (\A i \in 1 .. 1 : Joined(<<a>>, << >>)[i] = <<a>>[i])
          /\ (\A i \in 1 .. 0 : Joined(<<a>>, << >>)[1 + i] = << >>[i])
      BY <1>a, <3>2, ConcatsAre
    <3> QED BY <3>1, <3>3, <3>4
  <2>2. Sequence(t, 1) /\ \A i \in 1 .. 1 : t[i] = s[i]
    <3>1. Sequence(t, 1)
      BY TuplesAre
    <3>2. t[1] = a
      OBVIOUS
    <3> HIDE DEF s, t
    <3> QED BY <2>1, <3>1, <3>2
  <2>3. s = t
    <3> HIDE DEF s, t
    <3> QED BY <1>a, <2>1, <2>2, SequencesEqual
  <2> QED BY <2>3
<1>2. Joined(<<a, b>>, << >>) = <<a, b>>
  <2> DEFINE s == Joined(<<a, b>>, << >>)
             t == <<a, b>>
  <2>1. Sequence(s, 2) /\ s[1] = a /\ s[2] = b
    <3>1. 2 + 0 = 2 /\ 1 \in 1 .. 2 /\ 2 \in 1 .. 2
      OBVIOUS
    <3>2. Sequence(<<a, b>>, 2) /\ Sequence(<< >>, 0)
      BY TuplesAre
    <3>3. <<a, b>>[1] = a /\ <<a, b>>[2] = b
      OBVIOUS
    <3>4. Sequence(Joined(<<a, b>>, << >>), 2 + 0)
          /\ (\A i \in 1 .. 2 : Joined(<<a, b>>, << >>)[i] = <<a, b>>[i])
          /\ (\A i \in 1 .. 0 : Joined(<<a, b>>, << >>)[2 + i] = << >>[i])
      BY <1>a, <3>2, ConcatsAre
    <3> QED BY <3>1, <3>3, <3>4
  <2>2. Sequence(t, 2) /\ \A i \in 1 .. 2 : t[i] = s[i]
    <3>1. Sequence(t, 2)
      BY TuplesAre
    <3>2. t[1] = a /\ t[2] = b
      OBVIOUS
    <3> HIDE DEF s, t
    <3> QED BY <2>1, <3>1, <3>2
  <2>3. s = t
    <3> HIDE DEF s, t
    <3> QED BY <1>a, <2>1, <2>2, SequencesEqual
  <2> QED BY <2>3
<1>3. Joined(<<a>>, <<b>>) = <<a, b>>
  <2> DEFINE s == Joined(<<a>>, <<b>>)
             t == <<a, b>>
  <2>1. Sequence(s, 2) /\ s[1] = a /\ s[2] = b
    <3>1. 1 + 1 = 2 /\ 1 \in 1 .. 1 /\ 1 \in 1 .. 1 /\ 1 + 1 = 2
      OBVIOUS
    <3>2. Sequence(<<a>>, 1) /\ Sequence(<<b>>, 1)
      BY TuplesAre
    <3>3. <<a>>[1] = a /\ <<b>>[1] = b
      OBVIOUS
    <3>4. Sequence(Joined(<<a>>, <<b>>), 1 + 1)
          /\ (\A i \in 1 .. 1 : Joined(<<a>>, <<b>>)[i] = <<a>>[i])
          /\ (\A i \in 1 .. 1 : Joined(<<a>>, <<b>>)[1 + i] = <<b>>[i])
      BY <1>a, <3>2, ConcatsAre
    <3> QED BY <3>1, <3>3, <3>4
  <2>2. Sequence(t, 2) /\ \A i \in 1 .. 2 : t[i] = s[i]
    <3>1. Sequence(t, 2)
      BY TuplesAre
    <3>2. t[1] = a /\ t[2] = b
      OBVIOUS
    <3> HIDE DEF s, t
    <3> QED BY <2>1, <3>1, <3>2
  <2>3. s = t
    <3> HIDE DEF s, t
    <3> QED BY <1>a, <2>1, <2>2, SequencesEqual
  <2> QED BY <2>3
<1>4. Joined(<<a, b>>, <<c>>) = <<a, b, c>>
  <2> DEFINE s == Joined(<<a, b>>, <<c>>)
             t == <<a, b, c>>
  <2>1. Sequence(s, 3) /\ s[1] = a /\ s[2] = b /\ s[3] = c
    <3>1. 2 + 1 = 3 /\ 1 \in 1 .. 2 /\ 2 \in 1 .. 2 /\ 1 \in 1 .. 1 /\ 2 + 1 = 3
      OBVIOUS
    <3>2. Sequence(<<a, b>>, 2) /\ Sequence(<<c>>, 1)
      BY TuplesAre
    <3>3. <<a, b>>[1] = a /\ <<a, b>>[2] = b /\ <<c>>[1] = c
      OBVIOUS
    <3>4. Sequence(Joined(<<a, b>>, <<c>>), 2 + 1)
          /\ (\A i \in 1 .. 2 : Joined(<<a, b>>, <<c>>)[i] = <<a, b>>[i])
          /\ (\A i \in 1 .. 1 : Joined(<<a, b>>, <<c>>)[2 + i] = <<c>>[i])
      BY <1>a, <3>2, ConcatsAre
    <3> QED BY <3>1, <3>3, <3>4
  <2>2. Sequence(t, 3) /\ \A i \in 1 .. 3 : t[i] = s[i]
    <3>1. Sequence(t, 3)
      BY TuplesAre
    <3>2. t[1] = a /\ t[2] = b /\ t[3] = c
      OBVIOUS
    <3> HIDE DEF s, t
    <3> QED BY <2>1, <3>1, <3>2
  <2>3. s = t
    <3> HIDE DEF s, t
    <3> QED BY <1>a, <2>1, <2>2, SequencesEqual
  <2> QED BY <2>3
<1>5. Joined(<<a, b>>, <<c, d>>) = <<a, b, c, d>>
  <2> DEFINE s == Joined(<<a, b>>, <<c, d>>)
             t == <<a, b, c, d>>
  <2>1. Sequence(s, 4) /\ s[1] = a /\ s[2] = b /\ s[3] = c /\ s[4] = d
    <3>1. 2 + 2 = 4 /\ 1 \in 1 .. 2 /\ 2 \in 1 .. 2 /\ 1 \in 1 .. 2 /\ 2 + 1 = 3 /\ 2 \in 1 .. 2 /\ 2 + 2 = 4
      OBVIOUS
    <3>2. Sequence(<<a, b>>, 2) /\ Sequence(<<c, d>>, 2)
      BY TuplesAre
    <3>3. <<a, b>>[1] = a /\ <<a, b>>[2] = b /\ <<c, d>>[1] = c /\ <<c, d>>[2] = d
      OBVIOUS
    <3>4. Sequence(Joined(<<a, b>>, <<c, d>>), 2 + 2)
          /\ (\A i \in 1 .. 2 : Joined(<<a, b>>, <<c, d>>)[i] = <<a, b>>[i])
          /\ (\A i \in 1 .. 2 : Joined(<<a, b>>, <<c, d>>)[2 + i] = <<c, d>>[i])
      BY <1>a, <3>2, ConcatsAre
    <3> QED BY <3>1, <3>3, <3>4
  <2>2. Sequence(t, 4) /\ \A i \in 1 .. 4 : t[i] = s[i]
    <3>1. Sequence(t, 4)
      BY TuplesAre
    <3>2. t[1] = a /\ t[2] = b /\ t[3] = c /\ t[4] = d
      OBVIOUS
    <3> HIDE DEF s, t
    <3> QED BY <2>1, <3>1, <3>2
  <2>3. s = t
    <3> HIDE DEF s, t
    <3> QED BY <1>a, <2>1, <2>2, SequencesEqual
  <2> QED BY <2>3
<1> QED BY <1>1, <1>2, <1>3, <1>4, <1>5

\* All of a sequence.
LEMMA WholePart ==
  ASSUME NEW n \in Nat, NEW s, Sequence(s, n)
  PROVE  SubSeq(s, 1, n) = s
<1>1. SubSeq(s, 0 + 1, 0 + n) = [i \in 1 .. n |-> s[0 + i]]
  BY PartsAre
<1>2. \A i \in 1 .. n : 0 + i = i
  OBVIOUS
<1>3. 0 + 1 = 1 /\ 0 + n = n
  OBVIOUS
<1>4. SubSeq(s, 1, n) = [i \in 1 .. n |-> s[i]]
  BY <1>1, <1>2, <1>3
<1> QED BY <1>4 DEF Sequence

Value(x) == Sequence(x, OUT_LEN)

LEMMA FirstBytesAre ==
  ASSUME NEW node
  PROVE  Value(FirstBytes(node))
BY DEF Value, Sequence, FirstBytes

\* Hashing two values at once gives that of their parent.
LEMMA HashParent ==
  ASSUME NEW x, NEW y, Value(x), Value(y), NEW key, NEW flags
  PROVE  hash_one(Joined(x, y), key, 0, flags \cup {"PARENT"}, {}, {})
           = FirstBytes(Parent(Joined(x, y), key, flags))
<1> DEFINE input == Joined(x, y)
           cv == FirstBytes(Parent(input, key, flags))
           fn == [n \in 0 .. 1 |-> IF n = 0 THEN key ELSE cv]
<1>1. BLOCK_LEN \in Nat \ {0} /\ OUT_LEN \in Nat \ {0} /\ BLOCK_LEN = OUT_LEN + OUT_LEN
  BY BlocksAre
<1>2. Sequence(input, BLOCK_LEN)
  BY <1>1, ConcatsAre DEF Value
<1> HIDE DEF input
<1>3. Len(input) = BLOCK_LEN /\ SubSeq(input, 1, BLOCK_LEN) = input
  BY <1>1, <1>2, SequencesAre, WholePart
<1>4. Len(input) \div BLOCK_LEN = 1
  <2>1. 0 \in 0 .. BLOCK_LEN - 1 /\ BLOCK_LEN * 1 + 0 = BLOCK_LEN
    BY <1>1
  <2>2. (BLOCK_LEN * 1 + 0) \div BLOCK_LEN = 1
    BY <1>1, <2>1, Quotient
  <2> QED BY <1>3, <2>1, <2>2
<1>5. Piece(input, 1, BLOCK_LEN) = input
  <2>1. (1 - 1) * BLOCK_LEN + 1 = 1 /\ 1 * BLOCK_LEN = BLOCK_LEN
    BY <1>1
  <2> QED BY <1>3, <2>1 DEF Piece
<1>6. compress_in_place(key, Piece(input, 1, BLOCK_LEN), BLOCK_LEN, 0,
                        (flags \cup {"PARENT"}) \cup {} \cup {}) = cv
  <2>1. (flags \cup {"PARENT"}) \cup {} \cup {} = flags \cup {"PARENT"}
    OBVIOUS
  <2> QED BY <1>5, <2>1, CompressIs DEF Parent
<1> HIDE DEF cv
<1>7. fn = HashBlocks(fn, 1, input, key, 0, flags \cup {"PARENT"}, {}, {})
  <2>1. ASSUME NEW n \in 0 .. 1
        PROVE  fn[n] = IF n = 0 THEN key
                      ELSE compress_in_place(fn[n - 1], Piece(input, n, BLOCK_LEN), BLOCK_LEN, 0,
                             (flags \cup {"PARENT"}) \cup (IF n = 1 THEN {} ELSE {})
                                                     \cup (IF n = 1 THEN {} ELSE {}))
    <3>1. CASE n = 0
      BY <3>1
    <3>2. CASE n = 1
      <4>1. n - 1 \in 0 .. 1 /\ n # 0 /\ fn[n - 1] = key /\ fn[n] = cv
        BY <3>2
      <4> HIDE DEF fn
      <4> QED BY <1>6, <3>2, <4>1
    <3> QED BY <3>1, <3>2
  <2>2. fn = [n \in 0 .. 1 |-> fn[n]]
    OBVIOUS
  <2> HIDE DEF fn
  <2>3. [n \in 0 .. 1 |-> fn[n]]
          = [n \in 0 .. 1 |-> IF n = 0 THEN key
                      ELSE compress_in_place(fn[n - 1], Piece(input, n, BLOCK_LEN), BLOCK_LEN, 0,
                             (flags \cup {"PARENT"}) \cup (IF n = 1 THEN {} ELSE {})
                                                     \cup (IF n = 1 THEN {} ELSE {}))]
    BY <2>1
  <2> QED BY <2>2, <2>3 DEF HashBlocks
<1>8. fn[1] = cv
  OBVIOUS
<1> HIDE DEF fn
<1>9. hash_one(input, key, 0, flags \cup {"PARENT"}, {}, {}) = cv
  <2>1. 1 \in Nat
    OBVIOUS
  <2> QED BY <1>4, <1>7, <1>8, <2>1, HashOne
<1> QED BY <1>9 DEF cv, input

\* Of three values two have a parent and one goes up as it is.
LEMMA ParentsOfThree ==
  ASSUME NEW a, NEW b, NEW c, Value(a), Value(b), NEW key, NEW flags
  PROVE  compress_parents_parallel(<<a, b, c>>, key, flags)
           = <<FirstBytes(Parent(Joined(a, b), key, flags)), c>>
<1> DEFINE cvs == <<a, b, c>>
           Hash(input) == hash_one(input, key, 0, flags \cup {"PARENT"}, {}, {})
<1>1. Len(cvs) \div 2 = 1 /\ 2 * 1 - 1 = 1 /\ 2 * 1 = 2 /\ cvs[1] = a /\ cvs[2] = b /\ Len(cvs) = 3
  OBVIOUS
<1>2. Drop(cvs, 2) = <<c>>
  <2>1. SubSeq(cvs, 2 + 1, 2 + 1) = [i \in 1 .. 1 |-> cvs[2 + i]]
    <3>1. 2 \in Nat /\ 1 \in Nat
      OBVIOUS
    <3> HIDE DEF cvs
    <3> QED BY <3>1, PartsAre
  <2>2. [i \in 1 .. 1 |-> cvs[2 + i]] = <<c>>
    OBVIOUS
  <2>3. 2 + 1 = 3
    OBVIOUS
  <2> HIDE DEF cvs
  <2> QED BY <1>1, <2>1, <2>2, <2>3 DEF Drop
<1> HIDE DEF cvs
<1>3. compress_parents_parallel(cvs, key, flags)
        = [n \in DOMAIN [m \in 1 .. 1 |-> cvs[2 * m - 1] \o cvs[2 * m]] |->
             Hash([m \in 1 .. 1 |-> cvs[2 * m - 1] \o cvs[2 * m]][n])] \o Drop(cvs, 2)
  BY <1>1 DEF compress_parents_parallel, hash_many
<1>4. [m \in 1 .. 1 |-> cvs[2 * m - 1] \o cvs[2 * m]] = <<Joined(a, b)>>
  <2> DEFINE G(m) == cvs[2 * m - 1] \o cvs[2 * m]
  <2>1. G(1) = Joined(a, b)
    <3>1. cvs[2 * 1 - 1] = a /\ cvs[2 * 1] = b
      BY <1>1
    <3> QED BY <3>1 DEF Joined
  <2> HIDE DEF G
  <2>2. [m \in 1 .. 1 |-> G(m)] = <<Joined(a, b)>>
    BY <2>1
  <2> QED BY <2>2 DEF G
<1> HIDE DEF Hash
<1>5. [n \in DOMAIN <<Joined(a, b)>> |-> Hash(<<Joined(a, b)>>[n])] = <<Hash(Joined(a, b))>>
  <2>1. DOMAIN <<Joined(a, b)>> = 1 .. 1 /\ <<Joined(a, b)>>[1] = Joined(a, b)
    OBVIOUS
  <2>2. \A n \in 1 .. 1 : Hash(<<Joined(a, b)>>[n]) = Hash(Joined(a, b))
    BY <2>1
  <2>3. [n \in 1 .. 1 |-> Hash(<<Joined(a, b)>>[n])] = [n \in 1 .. 1 |-> Hash(Joined(a, b))]
    BY <2>2
  <2> QED BY <2>1, <2>3
<1>6. Hash(Joined(a, b)) = FirstBytes(Parent(Joined(a, b), key, flags))
  BY HashParent DEF Hash
<1>7. compress_parents_parallel(cvs, key, flags)
        = Joined(<<FirstBytes(Parent(Joined(a, b), key, flags))>>, <<c>>)
  BY <1>2, <1>3, <1>4, <1>5, <1>6 DEF Joined
<1> QED BY <1>7, TuplesJoin DEF cvs

LEMMA ParentsOfFour ==
  ASSUME NEW a, NEW b, NEW c, NEW d, Value(a), Value(b), Value(c), Value(d), NEW key, NEW flags
  PROVE  compress_parents_parallel(<<a, b, c, d>>, key, flags)
           = <<FirstBytes(Parent(Joined(a, b), key, flags)),
               FirstBytes(Parent(Joined(c, d), key, flags))>>
<1> DEFINE cvs == <<a, b, c, d>>
           Hash(input) == hash_one(input, key, 0, flags \cup {"PARENT"}, {}, {})
           x == Joined(a, b)
           y == Joined(c, d)
<1>1. /\ Len(cvs) \div 2 = 2 /\ 2 * 2 = 4 /\ Len(cvs) = 4
      /\ cvs[1] = a /\ cvs[2] = b /\ cvs[3] = c /\ cvs[4] = d
  OBVIOUS
<1>2. Drop(cvs, 4) = << >>
  <2>1. SubSeq(cvs, 4 + 1, 4 + 0) = [i \in 1 .. 0 |-> cvs[4 + i]]
    <3>1. 4 \in Nat /\ 0 \in Nat
      OBVIOUS
    <3> HIDE DEF cvs
    <3> QED BY <3>1, PartsAre
  <2>2. 4 + 0 = 4
    OBVIOUS
  <2> HIDE DEF cvs
  <2>3. [i \in 1 .. 0 |-> cvs[4 + i]] = << >>
    OBVIOUS
  <2> QED BY <1>1, <2>1, <2>2, <2>3 DEF Drop
<1> HIDE DEF cvs
<1>3. compress_parents_parallel(cvs, key, flags)
        = [n \in DOMAIN [m \in 1 .. 2 |-> cvs[2 * m - 1] \o cvs[2 * m]] |->
             Hash([m \in 1 .. 2 |-> cvs[2 * m - 1] \o cvs[2 * m]][n])] \o Drop(cvs, 4)
  BY <1>1 DEF compress_parents_parallel, hash_many
<1>4. [m \in 1 .. 2 |-> cvs[2 * m - 1] \o cvs[2 * m]] = <<x, y>>
  <2> DEFINE G(m) == cvs[2 * m - 1] \o cvs[2 * m]
  <2>1. G(1) = x
    <3>1. cvs[2 * 1 - 1] = a /\ cvs[2 * 1] = b
      BY <1>1
    <3> QED BY <3>1 DEF Joined
  <2>2. G(2) = y
    <3>1. cvs[2 * 2 - 1] = c /\ cvs[2 * 2] = d
      BY <1>1
    <3> QED BY <3>1 DEF Joined
  <2> HIDE DEF G, x, y
  <2>3. [m \in 1 .. 2 |-> G(m)] = <<x, y>>
    BY <2>1, <2>2
  <2> QED BY <2>3 DEF G
<1> HIDE DEF Hash
<1>5. [n \in DOMAIN <<x, y>> |-> Hash(<<x, y>>[n])] = <<Hash(x), Hash(y)>>
  <2> HIDE DEF x, y
  <2> DEFINE G(n) == Hash(<<x, y>>[n])
  <2>1. DOMAIN <<x, y>> = 1 .. 2 /\ <<x, y>>[1] = x /\ <<x, y>>[2] = y
    OBVIOUS
  <2>2. G(1) = Hash(x) /\ G(2) = Hash(y)
    BY <2>1
  <2> HIDE DEF G
  <2>3. [n \in 1 .. 2 |-> G(n)] = <<Hash(x), Hash(y)>>
    BY <2>2
  <2> QED BY <2>1, <2>3 DEF G
<1>6. Hash(x) = FirstBytes(Parent(x, key, flags)) /\ Hash(y) = FirstBytes(Parent(y, key, flags))
  BY HashParent DEF Hash
<1> HIDE DEF x, y
<1>7. compress_parents_parallel(cvs, key, flags)
        = Joined(<<FirstBytes(Parent(x, key, flags)), FirstBytes(Parent(y, key, flags))>>, << >>)
  BY <1>2, <1>3, <1>4, <1>5, <1>6 DEF Joined
<1> QED BY <1>7, TuplesJoin DEF cvs, x, y

\* The two values of the halves, put side by side.
LEMMA HalvesOfOne ==
  ASSUME NEW a, NEW b, NEW key, NEW flags
  PROVE  compress_halves(<<a>>, <<b>>, CHUNK_LEN, key, flags) = <<a, b>>
<1>1. ~(CHUNK_LEN > CHUNK_LEN /\ blake3_simd_degree = 1) /\ blake3_simd_degree = 1
  BY BlocksAre DEF blake3_simd_degree
<1>2. Len(<<a>>) = 1 /\ 1 - 1 = 0
  OBVIOUS
<1>3. [n \in 1 .. 0 |-> Zeros] = << >>
  OBVIOUS
<1>4. Joined(Joined(<<a>>, << >>), <<b>>) = <<a, b>>
  BY TuplesJoin
<1>5. <<a>> \o [n \in 1 .. 0 |-> Zeros] \o <<b>> = <<a, b>>
  BY <1>3, <1>4 DEF Joined
<1>6. SubSeq(<<a, b>>, 1, 2) = <<a, b>>
  BY WholePart, TuplesAre
<1> QED BY <1>1, <1>2, <1>5, <1>6 DEF compress_halves

LEMMA HalvesOfThree ==
  ASSUME NEW a, NEW b, NEW c, Value(a), Value(b), Value(c), NEW key, NEW flags,
         NEW left \in Nat, CHUNK_LEN < left
  PROVE  compress_halves(<<a, b>>, <<c>>, left, key, flags)
           = <<FirstBytes(Parent(Joined(a, b), key, flags)), c>>
<1>1. left > CHUNK_LEN /\ blake3_simd_degree = 1
  BY BlocksAre DEF blake3_simd_degree
<1>2. /\ Len(<<a, b>>) = 2 /\ 2 - 2 = 0 /\ 2 # 1 /\ Len(<<c>>) = 1
      /\ 2 + 1 = 3 /\ 3 \in Nat
  OBVIOUS
<1>3. [n \in 1 .. 0 |-> Zeros] = << >>
  OBVIOUS
<1>4. Joined(Joined(<<a, b>>, << >>), <<c>>) = <<a, b, c>>
  <2>1. Joined(<<a, b>>, << >>) = <<a, b>> /\ Joined(<<a, b>>, <<c>>) = <<a, b, c>>
    BY TuplesJoin
  <2> QED BY <2>1
<1>5. <<a, b>> \o [n \in 1 .. 0 |-> Zeros] \o <<c>> = <<a, b, c>>
  BY <1>3, <1>4 DEF Joined
<1>6. SubSeq(<<a, b, c>>, 1, 3) = <<a, b, c>>
  <2>1. Sequence(<<a, b, c>>, 3)
    BY TuplesAre
  <2> QED BY <1>2, <2>1, WholePart
<1>7. compress_halves(<<a, b>>, <<c>>, left, key, flags)
        = compress_parents_parallel(<<a, b, c>>, key, flags)
  BY <1>1, <1>2, <1>5, <1>6 DEF compress_halves
<1> QED BY <1>7, ParentsOfThree

LEMMA HalvesOfFour ==
  ASSUME NEW a, NEW b, NEW c, NEW d, Value(a), Value(b), Value(c), Value(d), NEW key, NEW flags,
         NEW left \in Nat, CHUNK_LEN < left
  PROVE  compress_halves(<<a, b>>, <<c, d>>, left, key, flags)
           = <<FirstBytes(Parent(Joined(a, b), key, flags)),
               FirstBytes(Parent(Joined(c, d), key, flags))>>
<1>1. left > CHUNK_LEN /\ blake3_simd_degree = 1
  BY BlocksAre DEF blake3_simd_degree
<1>2. /\ Len(<<a, b>>) = 2 /\ 2 - 2 = 0 /\ 2 # 1 /\ Len(<<c, d>>) = 2
      /\ 2 + 2 = 4 /\ 4 \in Nat
  OBVIOUS
<1>3. [n \in 1 .. 0 |-> Zeros] = << >>
  OBVIOUS
<1>4. Joined(Joined(<<a, b>>, << >>), <<c, d>>) = <<a, b, c, d>>
  <2>1. Joined(<<a, b>>, << >>) = <<a, b>> /\ Joined(<<a, b>>, <<c, d>>) = <<a, b, c, d>>
    BY TuplesJoin, ZenonT(40)
  <2> QED BY <2>1
<1>5. <<a, b>> \o [n \in 1 .. 0 |-> Zeros] \o <<c, d>> = <<a, b, c, d>>
  BY <1>3, <1>4 DEF Joined
<1>6. SubSeq(<<a, b, c, d>>, 1, 4) = <<a, b, c, d>>
  <2>1. Sequence(<<a, b, c, d>>, 4)
    BY TuplesAre
  <2> QED BY <1>2, <2>1, WholePart
<1>7. compress_halves(<<a, b>>, <<c, d>>, left, key, flags)
        = compress_parents_parallel(<<a, b, c, d>>, key, flags)
  BY <1>1, <1>2, <1>5, <1>6 DEF compress_halves
<1> QED BY <1>7, ParentsOfFour

\* A new chunk that is fed at once.
LEMMA NewChunkUpdate ==
  ASSUME NEW key, NEW flags, NEW byte, NEW c \in Nat, NEW n \in Nat, n <= CHUNK_LEN
  PROVE  chunk_state_update(chunk_state_init(key, flags, c), Segment(byte, c * CHUNK_LEN, n))
           = ChunkOf(key, flags, byte, c, n)
<1>1. PICK o \in Nat : o = 0
  OBVIOUS
<1>2. PICK from : from = c * CHUNK_LEN
  OBVIOUS
<1>3. o + n <= CHUNK_LEN /\ o + n = n /\ from + o = from
  BY <1>1, <1>2, ChunksOrder
<1>4. chunk_state_update(ChunkOf(key, flags, byte, c, o), Segment(byte, c * CHUNK_LEN + o, n))
           = ChunkOf(key, flags, byte, c, o + n)
  BY <1>3, ChunkUpdate
<1> QED BY <1>1, <1>2, <1>3, <1>4, NewChunk

\* A chunk or less gives one value.
LEMMA ChunksInParallel ==
  ASSUME NEW key, NEW flags, NEW byte, NEW c \in Nat, NEW n \in 1 .. CHUNK_LEN
  PROVE  compress_chunks_parallel(Segment(byte, c * CHUNK_LEN, n), key, c, flags)
           = <<FirstBytes(TreeChunk(key, flags, byte, c, n))>>
<1>1. CHUNK_LEN \in Nat \ {0} /\ n \in Nat /\ 0 \in Nat
  BY BlocksAre
<1>2. PICK from : from = c * CHUNK_LEN
  OBVIOUS
<1>3. from \in Nat
  BY <1>2, ChunksOrder
<1>4. PICK input : input = Segment(byte, from, n)
  OBVIOUS
<1>5. Len(input) = n /\ Sequence(input, n)
  BY <1>1, <1>3, <1>4, SegmentsAre
<1>6. CASE n = CHUNK_LEN
  <2>1. Len(input) \div CHUNK_LEN = 1
    <3>1. CHUNK_LEN * 1 + 0 = CHUNK_LEN /\ 1 \in Nat /\ 0 \in 0 .. CHUNK_LEN - 1
      BY <1>1
    <3>2. (CHUNK_LEN * 1 + 0) \div CHUNK_LEN = 1
      BY <1>1, <3>1, Quotient
    <3> QED BY <1>5, <1>6, <3>1, <3>2
  <2>2. Drop(input, 1 * CHUNK_LEN) = << >>
    <3>1. 1 * CHUNK_LEN = CHUNK_LEN /\ CHUNK_LEN = CHUNK_LEN + 0 /\ from + CHUNK_LEN \in Nat
      BY <1>1, <1>3
    <3>2. Drop(input, CHUNK_LEN) = Segment(byte, from + CHUNK_LEN, 0)
      BY <1>1, <1>3, <1>4, <1>6, <3>1, SegmentRest
    <3> QED BY <1>1, <3>1, <3>2, SegmentsAre
  <2>3. [m \in 1 .. 1 |-> Piece(input, m, CHUNK_LEN)] = <<input>>
    <3> DEFINE G(m) == Piece(input, m, CHUNK_LEN)
    <3>1. G(1) = input
      <4>1. (1 - 1) * CHUNK_LEN + 1 = 1 /\ 1 * CHUNK_LEN = n
        BY <1>1, <1>6
      <4>2. SubSeq(input, 1, n) = input
        BY <1>1, <1>5, WholePart
      <4> QED BY <4>1, <4>2 DEF Piece
    <3> HIDE DEF G
    <3>2. [m \in 1 .. 1 |-> G(m)] = <<input>>
      BY <3>1
    <3> QED BY <3>2 DEF G
  <2> DEFINE Hash(x, i) == hash_one(x, key, IF TRUE THEN c + i - 1 ELSE c, flags,
                                    {"CHUNK_START"}, {"CHUNK_END"})
  <2>4. [i \in DOMAIN <<input>> |-> Hash(<<input>>[i], i)] = <<Hash(input, 1)>>
    <3> HIDE DEF Hash
    <3> DEFINE G(i) == Hash(<<input>>[i], i)
    <3>1. DOMAIN <<input>> = 1 .. 1 /\ <<input>>[1] = input
      OBVIOUS
    <3>2. G(1) = Hash(input, 1)
      BY <3>1
    <3> HIDE DEF G
    <3>3. [i \in 1 .. 1 |-> G(i)] = <<Hash(input, 1)>>
      BY <3>2
    <3> QED BY <3>1, <3>3 DEF G
  <2>5. Hash(input, 1) = FirstBytes(TreeChunk(key, flags, byte, c, n))
    <3>1. c + 1 - 1 = c
      OBVIOUS
    <3>2. hash_one(input, key, c, flags, {"CHUNK_START"}, {"CHUNK_END"})
            = FirstBytes(TreeChunk(key, flags, byte, c, CHUNK_LEN))
      BY <1>2, <1>4, <1>6, HashChunk
    <3> QED BY <1>6, <3>1, <3>2
  <2>6. compress_chunks_parallel(input, key, c, flags)
          = [i \in DOMAIN <<input>> |-> Hash(<<input>>[i], i)]
    BY <2>1, <2>2, <2>3 DEF compress_chunks_parallel, hash_many
  <2> QED BY <1>2, <1>4, <2>4, <2>5, <2>6
<1>7. CASE n < CHUNK_LEN
  <2>1. Len(input) \div CHUNK_LEN = 0
    <3>1. CHUNK_LEN * 0 + n = n /\ n \in 0 .. CHUNK_LEN - 1
      BY <1>1, <1>7
    <3>2. (CHUNK_LEN * 0 + n) \div CHUNK_LEN = 0
      BY <1>1, <3>1, Quotient
    <3> QED BY <1>5, <3>1, <3>2
  <2>2. Drop(input, 0 * CHUNK_LEN) = input
    <3>1. 0 * CHUNK_LEN = 0 /\ n = 0 + n /\ from + 0 = from
      BY <1>1, <1>3
    <3>2. Drop(input, 0) = Segment(byte, from + 0, n)
      BY <1>1, <1>3, <1>4, <3>1, SegmentRest
    <3> QED BY <1>4, <3>1, <3>2
  <2>3. input # << >>
    BY <1>1, <1>5, SequencesAre
  <2>4. chunk_state_update(chunk_state_init(key, flags, c + 0), input)
          = ChunkOf(key, flags, byte, c, n)
    <3>1. c + 0 = c /\ n <= CHUNK_LEN
      BY <1>1
    <3> QED BY <1>1, <1>2, <1>4, <3>1, NewChunkUpdate
  <2>5. output_chaining_value(chunk_state_output(ChunkOf(key, flags, byte, c, n)))
          = FirstBytes(TreeChunk(key, flags, byte, c, n))
    BY <1>1, ChunkIs
  <2>6. hash_many([m \in 1 .. 0 |-> Piece(input, m, CHUNK_LEN)], key, c, TRUE, flags,
                  {"CHUNK_START"}, {"CHUNK_END"}) = << >>
    <3>1. [m \in 1 .. 0 |-> Piece(input, m, CHUNK_LEN)] = << >> /\ DOMAIN << >> = {}
      OBVIOUS
    <3> QED BY <3>1 DEF hash_many
  <2>7. compress_chunks_parallel(input, key, c, flags)
          = Append(<< >>, FirstBytes(TreeChunk(key, flags, byte, c, n)))
    BY <2>1, <2>2, <2>3, <2>4, <2>5, <2>6 DEF compress_chunks_parallel
  <2> QED BY <1>2, <1>4, <2>7
<1> QED BY <1>1, <1>6, <1>7

-----------------------------------------------------------------------------
(* Subtrees                                                                *)

\* The chunks a subtree can begin with.
LEMMA PlacesAre ==
  ASSUME NEW m \in Nat, NEW length \in 0 .. m, NEW at
  PROVE  /\ at \in 0 .. (m - length) \div CHUNK_LEN => at \in Nat /\ at * CHUNK_LEN + length <= m
         /\ at \in Nat /\ at * CHUNK_LEN + length <= m => at \in 0 .. (m - length) \div CHUNK_LEN
<1>a. CHUNK_LEN \in Nat \ {0} /\ length \in Nat
  BY BlocksAre
<1>1. PICK x, y, r : x = m - length /\ y = x \div CHUNK_LEN /\ r = x % CHUNK_LEN
  OBVIOUS
<1>2. x \in Nat /\ y \in Nat /\ r \in 0 .. CHUNK_LEN - 1 /\ x = CHUNK_LEN * y + r
  <2>1. x \in Nat
    BY <1>a, <1>1
  <2> QED BY <1>a, <1>1, <2>1, QuotientRemainder
<1>3. PICK b, d : b = y * CHUNK_LEN /\ d = (y + 1) * CHUNK_LEN
  OBVIOUS
<1>4. b \in Nat /\ d = b + CHUNK_LEN /\ x = b + r
  BY <1>a, <1>2, <1>3
<1>5. ASSUME at \in Nat
      PROVE  at * CHUNK_LEN + length <= m <=> at <= y
  <2>1. PICK a : a = at * CHUNK_LEN
    OBVIOUS
  <2>2. a \in Nat
    BY <1>5, <2>1, ChunksOrder
  <2>3. a + length <= m <=> a <= x
    BY <1>a, <1>1, <2>2
  <2>4. ASSUME at <= y PROVE a <= x
    <3>1. a <= b
      BY <1>2, <1>3, <1>5, <2>1, <2>4, ChunksOrder
    <3> QED BY <1>2, <1>4, <2>2, <3>1
  <2>5. ASSUME a <= x PROVE at <= y
    <3>1. a < d
      BY <1>a, <1>2, <1>4, <2>2, <2>5
    <3>2. y + 1 \in Nat
      BY <1>2
    <3>3. at < y + 1
      BY <1>3, <1>5, <2>1, <3>1, <3>2, ChunksOrder
    <3> QED BY <1>2, <1>5, <3>3
  <2> QED BY <2>1, <2>3, <2>4, <2>5
<1>6. 0 .. (m - length) \div CHUNK_LEN = 0 .. y
  BY <1>1
<1>7. at \in 0 .. y <=> at \in Nat /\ at <= y
  BY <1>2
<1> QED BY <1>5, <1>6, <1>7

\* The values of a subtree: its own of a chunk, of more those of its halves.
WideOf(key, flags, byte, chunk, length) ==
  IF length <= CHUNK_LEN THEN <<FirstBytes(NodeOf(key, flags, byte, chunk, length))>>
  ELSE <<FirstBytes(NodeOf(key, flags, byte, chunk, Half(Chunks(length)) * CHUNK_LEN)),
         FirstBytes(NodeOf(key, flags, byte, chunk + Half(Chunks(length)),
                           length - Half(Chunks(length)) * CHUNK_LEN))>>

\* The two values of a part are those its parent is made of.
LEMMA WideOfHalves ==
  ASSUME NEW key, NEW flags, NEW byte, NEW chunk \in Nat, NEW length \in Nat,
         chunk * CHUNK_LEN + length <= MaxLength, CHUNK_LEN < length
  PROVE  \E a, b :
           /\ WideOf(key, flags, byte, chunk, length) = <<a, b>> /\ Value(a) /\ Value(b)
           /\ FirstBytes(Parent(Joined(a, b), key, flags))
                = FirstBytes(NodeOf(key, flags, byte, chunk, length))
<1>1. length \in 0 .. MaxLength
  <2>1. PICK a : a = chunk * CHUNK_LEN
    OBVIOUS
  <2>2. a \in Nat /\ a + length <= MaxLength
    BY <2>1, ChunksOrder
  <2> QED BY <2>2, MaxLengthIs
<1>2. PICK p : p = Half(Chunks(length))
  OBVIOUS
<1>3. p \in PowersOfTwo /\ p * CHUNK_LEN < length /\ length <= 2 * p * CHUNK_LEN
  BY <1>1, <1>2, HalvesAre
<1>4. PICK a, b : /\ a = FirstBytes(NodeOf(key, flags, byte, chunk, p * CHUNK_LEN))
                  /\ b = FirstBytes(NodeOf(key, flags, byte, chunk + p,
                                             length - p * CHUNK_LEN))
  OBVIOUS
<1>5. NodeOf(key, flags, byte, chunk, length) = Parent(Joined(a, b), key, flags)
  BY <1>3, <1>4, NodeOfHalves
<1>6. Value(a) /\ Value(b)
  BY <1>4, FirstBytesAre
<1>7. WideOf(key, flags, byte, chunk, length) = <<a, b>>
  <2>1. ~(length <= CHUNK_LEN)
    BY BlocksAre
  <2> QED BY <1>2, <1>4, <2>1 DEF WideOf
<1> QED BY <1>5, <1>6, <1>7

WideStep(f, input, key, counter, flags, length, at) ==
  IF length <= blake3_simd_degree * CHUNK_LEN
  THEN compress_chunks_parallel(SubSeq(input, at * CHUNK_LEN + 1, at * CHUNK_LEN + length), key,
                                counter + at, flags)
  ELSE compress_halves(f[left_len(length)][at],
                       f[length - left_len(length)][at + left_len(length) \div CHUNK_LEN],
                       left_len(length), key, flags)

WideRow(f, input, key, counter, flags, length) ==
  [at \in 0 .. (Len(input) - length) \div CHUNK_LEN |->
     WideStep(f, input, key, counter, flags, length, at)]

WideRows(f, input, key, counter, flags) ==
  [length \in 1 .. Len(input) |-> WideRow(f, input, key, counter, flags, length)]

\* One chunk gives one value.
LEMMA WideStepOfChunk ==
  ASSUME NEW key, NEW flags, NEW byte, NEW c \in Nat, NEW m \in Nat,
         c * CHUNK_LEN + m <= MaxLength, NEW f,
         NEW length \in Nat \ {0}, length <= CHUNK_LEN,
         NEW at \in Nat, at * CHUNK_LEN + length <= m
  PROVE  WideStep(f, Segment(byte, c * CHUNK_LEN, m), key, c, flags, length, at)
           = WideOf(key, flags, byte, c + at, length)
<1>1. CHUNK_LEN \in Nat \ {0} /\ MaxLength \in Nat
  BY BlocksAre, MaxLengthIs
<1>2. PICK x, y, z : x = c * CHUNK_LEN /\ y = at * CHUNK_LEN /\ z = (c + at) * CHUNK_LEN
  OBVIOUS
<1>3. x \in Nat /\ y \in Nat /\ z = x + y /\ y + length <= m /\ x + m <= MaxLength
  BY <1>1, <1>2
<1>4. PICK input : input = Segment(byte, x, m)
  OBVIOUS
<1>5. SubSeq(input, y + 1, y + length) = Segment(byte, z, length)
  <2>1. Part(input, y, length) = Segment(byte, x + y, length)
    BY <1>3, <1>4, SegmentParts
  <2> QED BY <1>3, <2>1 DEF Part
<1>6. compress_chunks_parallel(Segment(byte, z, length), key, c + at, flags)
        = <<FirstBytes(TreeChunk(key, flags, byte, c + at, length))>>
  <2>1. c + at \in Nat /\ length \in 1 .. CHUNK_LEN
    BY <1>1
  <2> QED BY <1>2, <2>1, ChunksInParallel
<1>7. NodeOf(key, flags, byte, c + at, length) = TreeChunk(key, flags, byte, c + at, length)
  <2>1. c + at \in Nat /\ length \in 0 .. CHUNK_LEN /\ z + length <= MaxLength
    BY <1>1, <1>3
  <2> QED BY <1>2, <2>1, NodeOfChunk
<1>8. blake3_simd_degree * CHUNK_LEN = CHUNK_LEN
  BY <1>1 DEF blake3_simd_degree
<1> QED BY <1>2, <1>4, <1>5, <1>6, <1>7, <1>8 DEF WideStep, WideOf

\* More than a chunk gives two, whichever of its halves gave one or two.
LEMMA WideStepOfHalves ==
  ASSUME NEW key, NEW flags, NEW byte, NEW c \in Nat, NEW m \in Nat,
         c * CHUNK_LEN + m <= MaxLength, NEW f, NEW input,
         NEW length \in Nat, CHUNK_LEN < length,
         NEW at \in Nat, at * CHUNK_LEN + length <= m,
         \A k \in 1 .. length - 1 : \A i \in Nat :
           i * CHUNK_LEN + k <= m => f[k][i] = WideOf(key, flags, byte, c + i, k)
  PROVE  WideStep(f, input, key, c, flags, length, at)
           = WideOf(key, flags, byte, c + at, length)
<1>1. CHUNK_LEN \in Nat \ {0} /\ MaxLength \in Nat
  BY BlocksAre, MaxLengthIs
<1>2. PICK x, y, z : x = c * CHUNK_LEN /\ y = at * CHUNK_LEN /\ z = (c + at) * CHUNK_LEN
  OBVIOUS
<1>3. x \in Nat /\ y \in Nat /\ z = x + y /\ y + length <= m /\ x + m <= MaxLength
  BY <1>1, <1>2
<1>4. length \in 0 .. MaxLength
  BY <1>1, <1>3
<1>5. PICK p : p = Half(Chunks(length))
  OBVIOUS
<1>6. p \in PowersOfTwo /\ p * CHUNK_LEN < length /\ length <= 2 * p * CHUNK_LEN
  BY <1>4, <1>5, HalvesAre
<1>7. p \in Nat \ {0}
  BY <1>6, PowersAre
<1>8. PICK left, right : left = p * CHUNK_LEN /\ right = length - left
  OBVIOUS
<1>9. left \in Nat /\ CHUNK_LEN <= left /\ right \in Nat \ {0} /\ length = left + right
      /\ (p = 1 => left = CHUNK_LEN) /\ left + CHUNK_LEN <= length + CHUNK_LEN
  <2>1. left \in Nat /\ left < length
    BY <1>6, <1>7, <1>8, ChunksOrder
  <2>2. 1 * CHUNK_LEN <= p * CHUNK_LEN
    BY <1>7, ChunksOrder
  <2>3. CHUNK_LEN <= left
    BY <1>1, <1>8, <2>2
  <2>4. p = 1 => left = CHUNK_LEN
    BY <1>1, <1>8
  <2> QED BY <1>1, <1>8, <2>1, <2>3, <2>4
<1>10. left_len(length) = left /\ left \div CHUNK_LEN = p
  <2>1. left_len(length) = left
    BY <1>4, <1>6, <1>8, HalfOfLength
  <2>2. 0 \in 0 .. CHUNK_LEN - 1 /\ CHUNK_LEN * p + 0 = left
    BY <1>1, <1>7, <1>8
  <2>3. (CHUNK_LEN * p + 0) \div CHUNK_LEN = p
    BY <1>1, <1>7, <2>2, Quotient
  <2> QED BY <2>1, <2>2, <2>3
<1>11. PICK u, v, w : u = (at + p) * CHUNK_LEN /\ v = (c + at + p) * CHUNK_LEN /\ w = p * CHUNK_LEN
  OBVIOUS
<1>12. u = y + left /\ v = z + left
  BY <1>1, <1>2, <1>7, <1>8, <1>11
<1>13. at + p \in Nat /\ c + at \in Nat /\ c + at + p \in Nat /\ c + (at + p) = c + at + p
  BY <1>7
<1>14. f[left][at] = WideOf(key, flags, byte, c + at, left)
  <2>1. left \in 1 .. length - 1 /\ at * CHUNK_LEN + left <= m
    BY <1>1, <1>2, <1>3, <1>9
  <2> QED BY <2>1
<1>15. f[right][at + p] = WideOf(key, flags, byte, c + at + p, right)
  <2>1. right \in 1 .. length - 1
    BY <1>1, <1>9
  <2>2. u + right <= m
    BY <1>1, <1>3, <1>9, <1>12
  <2> QED BY <1>11, <1>13, <2>1, <2>2
<1>16. WideStep(f, input, key, c, flags, length, at)
         = compress_halves(WideOf(key, flags, byte, c + at, left),
                           WideOf(key, flags, byte, c + at + p, right), left, key, flags)
  <2>1. ~(length <= blake3_simd_degree * CHUNK_LEN)
    BY <1>1 DEF blake3_simd_degree
  <2> QED BY <1>8, <1>10, <1>14, <1>15, <2>1 DEF WideStep
<1>17. WideOf(key, flags, byte, c + at, length)
         = <<FirstBytes(NodeOf(key, flags, byte, c + at, left)),
             FirstBytes(NodeOf(key, flags, byte, c + at + p, right))>>
  <2>1. ~(length <= CHUNK_LEN)
    BY <1>1
  <2> QED BY <1>5, <1>8, <2>1 DEF WideOf
<1>18. z + left <= MaxLength /\ v + right <= MaxLength
  BY <1>1, <1>3, <1>9, <1>12
<1>19. CASE p = 1
  <2>1. left <= CHUNK_LEN
    BY <1>1, <1>9, <1>19
  <2>2. right <= CHUNK_LEN
    <3>1. PICK a : a = 2 * p * CHUNK_LEN
      OBVIOUS
    <3>2. a = CHUNK_LEN + CHUNK_LEN /\ length <= a
      BY <1>1, <1>6, <1>19, <3>1
    <3> QED BY <1>1, <1>9, <1>19, <3>2
  <2>3. left = CHUNK_LEN
    BY <1>9, <1>19
  <2> QED BY <1>16, <1>17, <2>1, <2>2, <2>3, HalvesOfOne DEF WideOf
<1>20. CASE p # 1
  <2>1. CHUNK_LEN < left
    <3>1. 1 < p
      BY <1>7, <1>20
    <3>2. 1 * CHUNK_LEN < p * CHUNK_LEN
      BY <1>7, <3>1, ChunksOrder
    <3> QED BY <1>1, <1>8, <3>2
  <2>2. PICK a, b : /\ WideOf(key, flags, byte, c + at, left) = <<a, b>> /\ Value(a) /\ Value(b)
                    /\ FirstBytes(Parent(Joined(a, b), key, flags))
                         = FirstBytes(NodeOf(key, flags, byte, c + at, left))
    BY <1>2, <1>9, <1>13, <1>18, <2>1, WideOfHalves
  <2>3. CASE right <= CHUNK_LEN
    <3>1. WideOf(key, flags, byte, c + at + p, right)
            = <<FirstBytes(NodeOf(key, flags, byte, c + at + p, right))>>
      BY <2>3 DEF WideOf
    <3>2. PICK d : d = FirstBytes(NodeOf(key, flags, byte, c + at + p, right))
      OBVIOUS
    <3>3. Value(d)
      BY <3>2, FirstBytesAre
    <3>4. compress_halves(<<a, b>>, <<d>>, left, key, flags)
            = <<FirstBytes(Parent(Joined(a, b), key, flags)), d>>
      BY <1>9, <2>1, <2>2, <3>3, HalvesOfThree
    <3> QED BY <1>16, <1>17, <2>2, <3>1, <3>2, <3>4
  <2>4. CASE ~(right <= CHUNK_LEN)
    <3>1. CHUNK_LEN < right
      BY <1>1, <1>9, <2>4
    <3>2. PICK d, e : /\ WideOf(key, flags, byte, c + at + p, right) = <<d, e>> /\ Value(d) /\ Value(e)
                      /\ FirstBytes(Parent(Joined(d, e), key, flags))
                           = FirstBytes(NodeOf(key, flags, byte, c + at + p, right))
      BY <1>9, <1>11, <1>13, <1>18, <3>1, WideOfHalves
    <3>a. Value(a) /\ Value(b) /\ Value(d) /\ Value(e) /\ left \in Nat /\ CHUNK_LEN < left
      BY <1>9, <2>1, <2>2, <3>2
    <3>3. compress_halves(<<a, b>>, <<d, e>>, left, key, flags)
            = <<FirstBytes(Parent(Joined(a, b), key, flags)),
                FirstBytes(Parent(Joined(d, e), key, flags))>>
      BY <3>a, HalvesOfFour
    <3> QED BY <1>16, <1>17, <2>2, <3>2, <3>3
  <2> QED BY <2>3, <2>4
<1> QED BY <1>19, <1>20

LEMMA WideStepIs ==
  ASSUME NEW key, NEW flags, NEW byte, NEW c \in Nat, NEW m \in Nat,
         c * CHUNK_LEN + m <= MaxLength, NEW f,
         NEW length \in Nat \ {0}, NEW at \in Nat, at * CHUNK_LEN + length <= m,
         \A k \in 1 .. length - 1 : \A i \in Nat :
           i * CHUNK_LEN + k <= m => f[k][i] = WideOf(key, flags, byte, c + i, k)
  PROVE  WideStep(f, Segment(byte, c * CHUNK_LEN, m), key, c, flags, length, at)
           = WideOf(key, flags, byte, c + at, length)
<1>1. CASE length <= CHUNK_LEN
  BY <1>1, WideStepOfChunk
<1>2. CASE ~(length <= CHUNK_LEN)
  <2>1. CHUNK_LEN < length /\ length \in Nat
    BY <1>2, BlocksAre
  <2>2. PICK input : input = Segment(byte, c * CHUNK_LEN, m)
    OBVIOUS
  <2>3. WideStep(f, input, key, c, flags, length, at) = WideOf(key, flags, byte, c + at, length)
    BY <2>1, WideStepOfHalves
  <2> QED BY <2>2, <2>3
<1> QED BY <1>1, <1>2

\* compress_subtree_wide gives the values of the part's two halves.
LEMMA WideIs ==
  ASSUME NEW key, NEW flags, NEW byte, NEW c \in Nat, NEW m \in Nat \ {0},
         c * CHUNK_LEN + m <= MaxLength, NEW input, input = Segment(byte, c * CHUNK_LEN, m)
  PROVE  compress_subtree_wide(input, key, c, flags) = WideOf(key, flags, byte, c, m)
<1> DEFINE fn == [length \in 1 .. m |-> [at \in 0 .. (m - length) \div CHUNK_LEN |->
                   WideOf(key, flags, byte, c + at, length)]]
           f == CHOOSE h : h = WideRows(h, input, key, c, flags)
           Good(h, k) == \A i \in Nat :
                           i * CHUNK_LEN + k <= m => h[k][i] = WideOf(key, flags, byte, c + i, k)
<1>1. Len(input) = m
  BY ChunksOrder, SegmentsAre
<1>2. compress_subtree_wide(input, key, c, flags) = f[m][0]
  BY <1>1 DEF compress_subtree_wide, WideRows, WideRow, WideStep
<1>3. ASSUME NEW k \in 1 .. m, NEW i \in Nat, i * CHUNK_LEN + k <= m
      PROVE  i \in 0 .. (m - k) \div CHUNK_LEN
  <2>1. k \in 0 .. m
    OBVIOUS
  <2> QED BY <1>3, <2>1, PlacesAre
<1>4. ASSUME NEW k \in 1 .. m, NEW i \in 0 .. (m - k) \div CHUNK_LEN
      PROVE  i \in Nat /\ i * CHUNK_LEN + k <= m
  <2>1. k \in 0 .. m
    OBVIOUS
  <2> QED BY <1>4, <2>1, PlacesAre
<1>5. ASSUME NEW h, NEW k \in 1 .. m, \A j \in 1 .. k - 1 : Good(h, j)
      PROVE  WideRow(h, input, key, c, flags, k) = [at \in 0 .. (m - k) \div CHUNK_LEN |->
                   WideOf(key, flags, byte, c + at, k)]
  <2>1. ASSUME NEW at \in 0 .. (m - k) \div CHUNK_LEN
        PROVE  WideStep(h, input, key, c, flags, k, at) = WideOf(key, flags, byte, c + at, k)
    <3>1. at \in Nat /\ at * CHUNK_LEN + k <= m /\ k \in Nat \ {0}
      BY <1>4
    <3>2. m \in Nat
      OBVIOUS
    <3> QED BY <1>5, <3>1, <3>2, WideStepIs
  <2> QED BY <1>1, <2>1 DEF WideRow
<1>6. fn = WideRows(fn, input, key, c, flags)
  <2>1. ASSUME NEW k \in 1 .. m
        PROVE  Good(fn, k)
    BY <1>3
  <2>2. ASSUME NEW k \in 1 .. m
        PROVE  fn[k] = WideRow(fn, input, key, c, flags, k)
    <3>1. \A j \in 1 .. k - 1 : j \in 1 .. m
      OBVIOUS
    <3>2. \A j \in 1 .. k - 1 : Good(fn, j)
      BY <2>1, <3>1
    <3>3. fn[k] = [at \in 0 .. (m - k) \div CHUNK_LEN |-> WideOf(key, flags, byte, c + at, k)]
      OBVIOUS
    <3> HIDE DEF fn, Good
    <3> QED BY <1>5, <3>2, <3>3
  <2>3. fn = [k \in 1 .. m |-> fn[k]]
    OBVIOUS
  <2> HIDE DEF fn
  <2>4. [k \in 1 .. m |-> fn[k]] = [k \in 1 .. m |-> WideRow(fn, input, key, c, flags, k)]
    BY <2>2
  <2> QED BY <1>1, <2>3, <2>4 DEF WideRows
<1>7. f = WideRows(f, input, key, c, flags)
  <2> HIDE DEF fn
  <2> QED BY <1>6
<1> HIDE DEF f, fn
<1>8. \A k \in 1 .. m : f[k] = WideRow(f, input, key, c, flags, k)
  <2>1. \A k \in 1 .. m : WideRows(f, input, key, c, flags)[k] = WideRow(f, input, key, c, flags, k)
    BY <1>1 DEF WideRows
  <2> QED BY <1>7, <2>1
<1> DEFINE T == {k \in 0 .. m : \A j \in 1 .. k : Good(f, j)}
<1>9. T = 0 .. m
  <2>1. 0 \in T /\ T \in SUBSET (0 .. m)
    OBVIOUS
  <2>2. ASSUME NEW k \in 1 .. m, k - 1 \in T
        PROVE  k \in T
    <3>1. \A j \in 1 .. k - 1 : Good(f, j)
      BY <2>2
    <3>2. f[k] = [at \in 0 .. (m - k) \div CHUNK_LEN |-> WideOf(key, flags, byte, c + at, k)]
      <4> HIDE DEF Good
      <4> QED BY <1>5, <1>8, <3>1
    <3>3. Good(f, k)
      BY <1>3, <3>2
    <3>4. \A j \in 1 .. k : j = k \/ j \in 1 .. k - 1
      OBVIOUS
    <3> HIDE DEF Good
    <3> QED BY <3>1, <3>3, <3>4
  <2> HIDE DEF T
  <2> QED BY <2>1, <2>2, UpTo
<1>10. Good(f, m)
  <2>1. m \in 0 .. m /\ m \in 1 .. m
    OBVIOUS
  <2> HIDE DEF Good
  <2> QED BY <1>9, <2>1
<1>11. f[m][0] = WideOf(key, flags, byte, c, m)
  <2>1. 0 \in Nat /\ 0 * CHUNK_LEN + m <= m /\ c + 0 = c
    BY BlocksAre
  <2> QED BY <1>10, <2>1
<1> QED BY <1>2, <1>11

-----------------------------------------------------------------------------
(* However much has been fed, a subtree of it gives a pair.                *)

Fed == fed \in 0 .. MaxLength

\* No more is fed than a message may have.
LEMMA FedStep ==
  ASSUME Fed, [HasherNext]_hasherVars
  PROVE  Fed'
<1>1. MaxLength \in Nat
  BY MaxLengthIs
<1>2. CASE Reset
  BY <1>1, <1>2 DEF Reset, Fed
<1>3. ASSUME NEW n \in 0 .. MaxLength, Update(n)
      PROVE  Fed'
  BY <1>1, <1>3 DEF Update, Fed
<1>4. CASE UNCHANGED hasherVars
  BY <1>4 DEF hasherVars, Fed
<1> QED BY <1>2, <1>3, <1>4 DEF HasherNext

LEMMA MessageIs ==
  ASSUME NEW n \in Nat, NEW m \in Nat, n + m <= MaxLength
  PROVE  [i \in 1 .. m |-> n + i] = Segment(Message, n, m)
<1>1. MaxLength \in Nat
  BY MaxLengthIs
<1>2. \A i \in 1 .. m : Message[n + i] = n + i
  BY <1>1 DEF Message
<1> QED BY <1>2 DEF Segment

LEMMA PairsAreTwo ==
  ASSUME Fed
  PROVE  SubtreesGivePairs
<1>1. SUFFICES ASSUME fed > CHUNK_LEN
               PROVE  Len(compress_subtree_wide([i \in 1 .. fed |-> i], hasher.key, 0,
                              hasher.chunk.flags)) = MAX_SIMD_DEGREE_OR_2
  BY DEF SubtreesGivePairs
<1>2. CHUNK_LEN \in Nat \ {0} /\ MaxLength \in Nat
  BY BlocksAre, MaxLengthIs
<1>3. fed \in Nat \ {0} /\ fed <= MaxLength /\ ~(fed <= CHUNK_LEN)
  BY <1>1, <1>2 DEF Fed
<1>4. PICK o \in Nat : o = 0
  OBVIOUS
<1>5. [i \in 1 .. fed |-> i] = Segment(Message, o, fed)
  <2>1. [i \in 1 .. fed |-> o + i] = Segment(Message, o, fed)
    <3>1. o + fed <= MaxLength /\ fed \in Nat
      BY <1>2, <1>3, <1>4
    <3> QED BY <3>1, MessageIs
  <2>2. \A i \in 1 .. fed : o + i = i
    BY <1>3, <1>4
  <2> QED BY <2>1, <2>2
<1>6. o * CHUNK_LEN = o /\ o + fed <= MaxLength
  BY <1>2, <1>3, <1>4
<1>7. compress_subtree_wide([i \in 1 .. fed |-> i], hasher.key, o, hasher.chunk.flags)
        = WideOf(hasher.key, hasher.chunk.flags, Message, o, fed)
  BY <1>3, <1>5, <1>6, WideIs
<1>8. \A a, b : Len(<<a, b>>) = 2
  OBVIOUS
<1> QED BY <1>3, <1>4, <1>7, <1>8 DEF WideOf, MAX_SIMD_DEGREE_OR_2

\* (blake3.cpp:344)  compress_subtree_wide gives two values of more than a
\* chunk, however long the message.
THEOREM SubtreesArePairs == HasherSpec => []SubtreesGivePairs
<1>1. HasherInit => Fed
  BY MaxLengthIs DEF HasherInit, Fed
<1>2. Fed /\ [HasherNext]_hasherVars => Fed'
  BY FedStep
<1>3. Fed => SubtreesGivePairs
  BY PairsAreTwo
<1> QED BY <1>1, <1>2, <1>3, PTL DEF HasherSpec

-----------------------------------------------------------------------------
(* The sizes of the subtrees on the stack                                  *)

\* The numbers of chunks below and up to each subtree, each subtree a power of
\* two that divides what is below it, all but the top one so as to leave room
\* for another of the same size.
Size(b, i) == b[i] - b[i - 1]

Even(b, d) == \A i \in 1 .. d : Divides(2 * Size(b, i), b[i - 1])

Shape(b, d, c) ==
  /\ b[0] = 0 /\ b[d] = c /\ \A i \in 0 .. d : b[i] \in Nat
  /\ \A i \in 1 .. d : Size(b, i) \in PowersOfTwo /\ Divides(Size(b, i), b[i - 1])
  /\ Even(b, d - 1)

LEMMA BelowOrSame ==
  ASSUME NEW p \in PowersOfTwo, NEW q \in PowersOfTwo, NEW x \in Nat,
         Divides(2 * q, x)
  PROVE  /\ Divides(p, x + q) => p <= q
         /\ Divides(2 * p, x + q) => 2 * p <= q
<1>1. p \in Nat \ {0} /\ q \in Nat \ {0} /\ x + q \in Nat
  BY PowersAre
<1>2. ~Divides(2 * q, x + q)
  BY <1>1, EvenOrOdd
<1>3. ASSUME Divides(p, x + q)
      PROVE  p <= q
  <2>1. SUFFICES ASSUME q < p PROVE FALSE
    BY <1>1
  <2>2. 2 * q \in PowersOfTwo /\ 2 * q <= p
    BY <2>1, PowersDivide
  <2>3. Divides(2 * q, x + q)
    BY <1>3, <2>2, DividesLess
  <2> QED BY <1>2, <2>3
<1>4. ASSUME Divides(2 * p, x + q)
      PROVE  2 * p <= q
  <2>1. Divides(p, x + q)
    BY <1>1, <1>4, EvenOrOdd
  <2>2. p <= q
    BY <1>3, <2>1
  <2>3. p # q
    BY <1>2, <1>4
  <2>4. p < q
    BY <1>1, <2>2, <2>3
  <2> QED BY <2>4, PowersDivide
<1> QED BY <1>3, <1>4

\* Each subtree but the top one is at least twice the next, or the same as the top.
LEMMA SizesAre ==
  ASSUME NEW b, NEW d \in Nat, NEW c \in Nat, Shape(b, d, c), NEW i \in 1 .. d
  PROVE  /\ b[i] \in Nat /\ b[i - 1] \in Nat /\ Size(b, i) \in Nat \ {0}
         /\ Size(b, i) \in PowersOfTwo /\ b[i] = b[i - 1] + Size(b, i)
<1>1. i \in 0 .. d /\ i - 1 \in 0 .. d
  OBVIOUS
<1>2. b[i] \in Nat /\ b[i - 1] \in Nat /\ Size(b, i) \in PowersOfTwo
  BY <1>1 DEF Shape
<1>3. Size(b, i) \in Nat \ {0}
  BY <1>2, PowersAre
<1>4. b[i] = b[i - 1] + Size(b, i)
  BY <1>2 DEF Size
<1> QED BY <1>2, <1>3, <1>4

\* Towards the top the subtrees get smaller, at the top two may be equal.
LEMMA SizesFall ==
  ASSUME NEW b, NEW d \in Nat, NEW c \in Nat, Shape(b, d, c), NEW i \in 1 .. d - 1
  PROVE  /\ Size(b, i + 1) <= Size(b, i)
         /\ i + 1 < d \/ Even(b, d) => 2 * Size(b, i + 1) <= Size(b, i)
<1>1. i \in 1 .. d /\ i + 1 \in 1 .. d /\ i + 1 - 1 = i
  OBVIOUS
<1>2. PICK p, q, x : p = Size(b, i + 1) /\ q = Size(b, i) /\ x = b[i - 1]
  OBVIOUS
<1>3. p \in PowersOfTwo /\ q \in PowersOfTwo /\ x \in Nat /\ b[i] = x + q /\ p \in Nat /\ q \in Nat
  BY <1>1, <1>2, SizesAre
<1>4. Divides(2 * q, x)
  BY <1>2 DEF Shape, Even
<1>5. Divides(p, x + q)
  <2>1. Divides(Size(b, i + 1), b[i + 1 - 1])
    BY <1>1 DEF Shape
  <2> QED BY <1>1, <1>2, <1>3, <2>1
<1>6. ASSUME i + 1 < d \/ Even(b, d)
      PROVE  Divides(2 * p, x + q)
  <2>1. Divides(2 * Size(b, i + 1), b[i + 1 - 1])
    <3>1. CASE i + 1 < d
      <4>1. i + 1 \in 1 .. d - 1
        BY <3>1
      <4> QED BY <4>1 DEF Shape, Even
    <3>2. CASE Even(b, d)
      BY <1>1, <3>2 DEF Even
    <3> QED BY <1>6, <3>1, <3>2
  <2> QED BY <1>1, <1>2, <1>3, <2>1
<1>7. p <= q
  BY <1>3, <1>4, <1>5, BelowOrSame
<1>8. i + 1 < d \/ Even(b, d) => 2 * p <= q
  BY <1>3, <1>4, <1>6, BelowOrSame
<1> QED BY <1>2, <1>7, <1>8

\* What is above a subtree is no larger, and smaller if no two are the same.
LEMMA AboveIs ==
  ASSUME NEW b, NEW d \in Nat, NEW c \in Nat, Shape(b, d, c), NEW i \in 1 .. d
  PROVE  /\ b[i] \in Nat /\ b[i] <= c /\ (i < d => b[i] < c)
         /\ c - b[i] <= Size(b, i)
         /\ Even(b, d) => c - b[i] < Size(b, i)
<1> DEFINE Good(j) == /\ b[d - j] <= c /\ (0 < j => b[d - j] < c)
                      /\ c - b[d - j] <= Size(b, d - j)
                      /\ Even(b, d) => c - b[d - j] < Size(b, d - j)
           T == {j \in 0 .. d - 1 : Good(j)}
<1>1. d - 1 \in Nat /\ d \in 1 .. d
  OBVIOUS
<1>2. 0 \in T
  <2>1. d - 0 = d /\ b[d] = c
    BY DEF Shape
  <2>2. Size(b, d) \in Nat \ {0}
    BY <1>1, SizesAre
  <2>3. 0 \in 0 .. d - 1
    BY <1>1
  <2> QED BY <2>1, <2>2, <2>3
<1>3. ASSUME NEW j \in 1 .. d - 1, j - 1 \in T
      PROVE  j \in T
  <2>1. PICK k : k = d - j
    OBVIOUS
  <2>2. k \in 1 .. d - 1 /\ d - (j - 1) = k + 1 /\ k + 1 \in 1 .. d /\ k \in 1 .. d /\ k + 1 - 1 = k
    BY <1>1, <2>1
  <2>3. PICK p, q, x, y : p = Size(b, k + 1) /\ q = Size(b, k) /\ x = b[k] /\ y = b[k + 1]
    OBVIOUS
  <2>4. p \in Nat \ {0} /\ q \in Nat \ {0} /\ x \in Nat /\ y = x + p
    BY <2>2, <2>3, SizesAre
  <2>5. y <= c /\ (k + 1 < d => y < c) /\ c - y <= p /\ (Even(b, d) => c - y < p)
    <3>1. Good(j - 1)
      BY <1>3
    <3>2. k + 1 < d => 0 < j - 1
      BY <2>1
    <3> QED BY <2>2, <2>3, <3>1, <3>2
  <2>6. p <= q /\ (k + 1 < d \/ Even(b, d) => 2 * p <= q)
    BY <2>2, <2>3, SizesFall
  <2>7. k + 1 = d => y = c
    BY <2>3 DEF Shape
  <2>8. c - x <= q /\ x < c
    <3>1. CASE k + 1 < d
      BY <2>4, <2>5, <2>6, <3>1
    <3>2. CASE k + 1 = d
      BY <2>4, <2>6, <2>7, <3>2
    <3> QED BY <2>2, <3>1, <3>2
  <2>9. Even(b, d) => c - x < q
    BY <2>4, <2>5, <2>6
  <2>10. Good(j)
    BY <2>1, <2>3, <2>4, <2>8, <2>9
  <2>11. j \in 0 .. d - 1
    OBVIOUS
  <2> HIDE DEF Good
  <2> QED BY <2>10, <2>11
<1>4. T = 0 .. d - 1
  <2>1. T \in SUBSET (0 .. d - 1)
    OBVIOUS
  <2> HIDE DEF T
  <2> QED BY <1>1, <1>2, <1>3, <2>1, UpTo
<1>5. d - i \in 0 .. d - 1 /\ d - (d - i) = i /\ (i < d => 0 < d - i)
  OBVIOUS
<1>6. Good(d - i)
  <2> HIDE DEF Good
  <2> QED BY <1>4, <1>5
<1>7. b[i] \in Nat
  BY SizesAre
<1> QED BY <1>5, <1>6, <1>7

\* Every subtree below the top is one bit of the chunks that are on the stack.
LEMMA EvenPrefix ==
  ASSUME NEW b, NEW d \in Nat, NEW c \in Nat, Shape(b, d, c), NEW m \in 0 .. d,
         m = d => Even(b, d)
  PROVE  popcnt(b[m]) = m
<1> DEFINE T == {j \in 0 .. m : popcnt(b[j]) = j}
<1>1. 0 \in T /\ T \in SUBSET (0 .. m)
  BY PopcntOfZero DEF Shape
<1>2. ASSUME NEW j \in 1 .. m, j - 1 \in T
      PROVE  j \in T
  <2>1. j \in 1 .. d /\ j \in 0 .. m
    OBVIOUS
  <2>2. PICK p, x : p = Size(b, j) /\ x = b[j - 1]
    OBVIOUS
  <2>3. p \in PowersOfTwo /\ x \in Nat /\ b[j] = x + p
    BY <2>1, <2>2, SizesAre
  <2>4. Divides(2 * p, x)
    <3>1. CASE j = d
      BY <2>1, <2>2, <3>1 DEF Even
    <3>2. CASE j # d
      <4>1. j \in 1 .. d - 1
        BY <2>1, <3>2
      <4> QED BY <2>2, <4>1 DEF Shape, Even
    <3> QED BY <3>1, <3>2
  <2>5. popcnt(x + p) = popcnt(x) + 1
    BY <2>3, <2>4, PopcntOfSum
  <2>6. popcnt(x) = j - 1
    BY <1>2, <2>2
  <2> QED BY <2>1, <2>3, <2>5, <2>6
<1>3. T = 0 .. m
  <2> HIDE DEF T
  <2>1. m \in Nat
    OBVIOUS
  <2> QED BY <1>1, <1>2, <2>1, UpTo
<1>4. m \in 0 .. m
  OBVIOUS
<1> QED BY <1>3, <1>4

\* As many subtrees as the number of chunks has bits; or fewer bits, the two on
\* top being the same, and then they make one.
LEMMA EvenShape ==
  ASSUME NEW b, NEW d \in Nat, NEW c \in Nat, Shape(b, d, c), Even(b, d)
  PROVE  popcnt(c) = d
<1>1. d \in 0 .. d /\ b[d] = c
  BY DEF Shape
<1> QED BY <1>1, EvenPrefix

Merged(b, d, c) == [i \in 0 .. d - 1 |-> IF i = d - 1 THEN c ELSE b[i]]

\* If the top two are equal, merging them leaves the shape of a stack.
LEMMA UnevenShape ==
  ASSUME NEW b, NEW d \in Nat, NEW c \in Nat, c <= Top, Shape(b, d, c), ~Even(b, d)
  PROVE  /\ popcnt(c) <= d - 1 /\ 2 <= d
         /\ Size(b, d) = Size(b, d - 1)
         /\ Shape(Merged(b, d, c), d - 1, c)
<1>1. d # 0
  BY DEF Even
<1>2. d \in 1 .. d /\ d - 1 \in 0 .. d /\ d - 1 \in Nat
  BY <1>1
<1>3. PICK p, x : p = Size(b, d) /\ x = b[d - 1]
  OBVIOUS
<1>4. p \in PowersOfTwo /\ p \in Nat \ {0} /\ x \in Nat /\ c = x + p /\ Divides(p, x)
  <2>1. b[d] = c /\ Divides(Size(b, d), b[d - 1])
    BY <1>2 DEF Shape
  <2> QED BY <1>2, <1>3, <2>1, SizesAre
<1>5. ~Divides(2 * p, x)
  <2>1. SUFFICES ASSUME Divides(2 * p, x) PROVE Even(b, d)
    OBVIOUS
  <2>2. ASSUME NEW i \in 1 .. d
        PROVE  Divides(2 * Size(b, i), b[i - 1])
    <3>1. CASE i = d
      BY <1>3, <2>1, <3>1
    <3>2. CASE i # d
      <4>1. i \in 1 .. d - 1
        BY <3>2
      <4> QED BY <4>1 DEF Shape, Even
    <3> QED BY <3>1, <3>2
  <2> QED BY <2>2 DEF Even
<1>6. popcnt(c) <= d - 1
  <2>1. popcnt(x) = d - 1
    <3>1. d - 1 # d
      OBVIOUS
    <3> QED BY <1>2, <1>3, <3>1, EvenPrefix
  <2>2. popcnt(x + p) <= popcnt(x)
    BY <1>4, <1>5, PopcntOfCarry
  <2> QED BY <1>4, <2>1, <2>2
<1>7. 2 <= d
  <2>1. SUFFICES ASSUME d = 1 PROVE FALSE
    BY <1>1
  <2>2. x = 0
    <3>1. d - 1 = 0
      BY <2>1
    <3> QED BY <1>3, <3>1 DEF Shape
  <2>3. 2 * p \in Nat \ {0}
    BY <1>4
  <2>4. Divides(2 * p, 0)
    BY <2>3, DividesSums
  <2> QED BY <1>5, <2>2, <2>4
<1>8. d - 1 \in 1 .. d /\ d - 1 \in 1 .. d - 1 /\ d - 1 + 1 = d
  BY <1>7
<1>9. PICK q, y : q = Size(b, d - 1) /\ y = b[d - 1 - 1]
  OBVIOUS
<1>10. q \in PowersOfTwo /\ q \in Nat \ {0} /\ y \in Nat /\ x = y + q /\ Divides(2 * q, y)
  <2>1. Divides(2 * Size(b, d - 1), b[d - 1 - 1])
    BY <1>8 DEF Shape, Even
  <2>2. q \in PowersOfTwo /\ q \in Nat \ {0} /\ y \in Nat /\ b[d - 1] = y + q
    BY <1>8, <1>9, SizesAre
  <2> QED BY <1>3, <1>9, <2>1, <2>2
<1>11. p = q
  <2>1. p <= q
    BY <1>4, <1>10, BelowOrSame
  <2>2. SUFFICES ASSUME p < q PROVE FALSE
    BY <1>4, <1>10, <2>1
  <2>3. 2 * p \in PowersOfTwo /\ 2 * p <= q
    BY <2>2, <1>4, <1>10, PowersDivide
  <2>4. Divides(q, q) /\ Divides(q, y)
    BY <1>10, DividesSums, EvenOrOdd
  <2>5. Divides(2 * p, q) /\ Divides(2 * p, y)
    BY <1>10, <2>3, <2>4, DividesLess
  <2>6. 2 * p \in Nat \ {0}
    BY <1>4
  <2>7. Divides(2 * p, y + q)
    BY <1>10, <2>5, <2>6, DividesSums
  <2> QED BY <1>5, <1>10, <2>7
<1>12. c = y + 2 * p /\ 2 * p \in PowersOfTwo
  <2>1. c = y + 2 * p
    BY <1>4, <1>10, <1>11
  <2>2. Top \in Nat
    BY TopIsLargest, PowersAre
  <2>3. 2 * p <= Top
    BY <1>4, <1>10, <2>1, <2>2
  <2> QED BY <1>4, <2>1, <2>3, DoubleIsPower
<1> DEFINE m == Merged(b, d, c)
<1>13. \A i \in 0 .. d - 1 : m[i] = IF i = d - 1 THEN c ELSE b[i]
  BY DEF Merged
<1> HIDE DEF m
<1>14. m[0] = 0 /\ m[d - 1] = c /\ \A i \in 0 .. d - 1 : m[i] \in Nat
  <2>1. 0 \in 0 .. d - 1 /\ d - 1 \in 0 .. d - 1 /\ 0 # d - 1
    BY <1>7
  <2>2. \A i \in 0 .. d - 1 : i \in 0 .. d
    BY <1>2
  <2> QED BY <1>13, <2>1, <2>2 DEF Shape
<1>15. ASSUME NEW i \in 1 .. d - 1 - 1
       PROVE  m[i] = b[i] /\ m[i - 1] = b[i - 1] /\ Size(m, i) = Size(b, i)
  <2>1. i \in 0 .. d - 1 /\ i - 1 \in 0 .. d - 1 /\ i # d - 1 /\ i - 1 # d - 1
    BY <1>2
  <2> QED BY <1>13, <2>1 DEF Size
<1>16. Size(m, d - 1) = 2 * p /\ m[d - 1 - 1] = y
  <2>1. d - 1 - 1 \in 0 .. d - 1 /\ d - 1 - 1 # d - 1
    BY <1>7
  <2>2. m[d - 1 - 1] = y
    BY <1>9, <1>13, <2>1
  <2> QED BY <1>4, <1>10, <1>12, <1>14, <2>2 DEF Size
<1>17. ASSUME NEW i \in 1 .. d - 1
       PROVE  Size(m, i) \in PowersOfTwo /\ Divides(Size(m, i), m[i - 1])
  <2>1. CASE i = d - 1
    BY <1>10, <1>11, <1>12, <1>16, <2>1
  <2>2. CASE i # d - 1
    <3>1. i \in 1 .. d - 1 - 1 /\ i \in 1 .. d
      BY <2>2
    <3>2. Size(b, i) \in PowersOfTwo /\ Divides(Size(b, i), b[i - 1])
      BY <3>1 DEF Shape
    <3> QED BY <1>15, <3>1, <3>2
  <2> QED BY <2>1, <2>2
<1>18. ASSUME NEW i \in 1 .. d - 1 - 1
       PROVE  Divides(2 * Size(m, i), m[i - 1])
  <2>1. i \in 1 .. d - 1
    BY <1>2
  <2>2. Divides(2 * Size(b, i), b[i - 1])
    BY <2>1 DEF Shape, Even
  <2> QED BY <1>15, <2>2
<1>19. Shape(m, d - 1, c)
  BY <1>14, <1>17, <1>18 DEF Shape, Even
<1> QED BY <1>3, <1>6, <1>7, <1>9, <1>11, <1>19 DEF m

-----------------------------------------------------------------------------
(* The values on the stack                                                 *)

\* Each value is that of its subtree.
Values(st, b, d, key, flags, byte) ==
  /\ Sequence(st, d)
  /\ \A i \in 1 .. d :
       st[i] = FirstBytes(NodeOf(key, flags, byte, b[i - 1], Size(b, i) * CHUNK_LEN))

Held(st, d, c, key, flags, byte) ==
  \E b : Shape(b, d, c) /\ Values(st, b, d, key, flags, byte)

HeldEven(st, d, c, key, flags, byte) ==
  \E b : Shape(b, d, c) /\ Values(st, b, d, key, flags, byte) /\ Even(b, d)

MergeTop(st, key, flags) ==
  Append(SubSeq(st, 1, Len(st) - 2),
         output_chaining_value(
           parent_output(st[Len(st) - 2 + 1] \o st[Len(st) - 2 + 2], key, flags)))

Merges(f, n, st, key, flags) ==
  [k \in 0 .. n |-> IF k = 0 THEN st ELSE MergeTop(f[k - 1], key, flags)]

Chosen(n, st, key, flags) == CHOOSE f : f = Merges(f, n, st, key, flags)

\* The stack after every merge exists.
LEMMA MergesExist ==
  ASSUME NEW n \in Nat, NEW st, NEW key, NEW flags
  PROVE  \E f : f = Merges(f, n, st, key, flags)
<1> DEFINE T == {m \in 0 .. n : \E f : f = Merges(f, m, st, key, flags)}
<1>1. 0 \in T
  <2> DEFINE f == [k \in 0 .. 0 |-> st]
  <2>1. f = [k \in 0 .. 0 |-> IF k = 0 THEN st ELSE MergeTop(f[k - 1], key, flags)]
    OBVIOUS
  <2> HIDE DEF f
  <2>2. f = Merges(f, 0, st, key, flags)
    BY <2>1 DEF Merges
  <2>3. 0 \in 0 .. n
    OBVIOUS
  <2> QED BY <2>2, <2>3
<1>2. ASSUME NEW m \in 1 .. n, m - 1 \in T
      PROVE  m \in T
  <2>1. PICK fn : fn = Merges(fn, m - 1, st, key, flags)
    BY <1>2
  <2>2. \A k \in 0 .. m - 1 : fn[k] = IF k = 0 THEN st ELSE MergeTop(fn[k - 1], key, flags)
    <3>1. \A k \in 0 .. m - 1 : Merges(fn, m - 1, st, key, flags)[k]
                                  = IF k = 0 THEN st ELSE MergeTop(fn[k - 1], key, flags)
      BY DEF Merges
    <3> QED BY <2>1, <3>1
  <2> DEFINE f == [k \in 0 .. m |-> IF k = m THEN MergeTop(fn[m - 1], key, flags) ELSE fn[k]]
  <2>3. \A k \in 0 .. m : f[k] = IF k = m THEN MergeTop(fn[m - 1], key, flags) ELSE fn[k]
    OBVIOUS
  <2>4. f = [k \in 0 .. m |-> f[k]]
    OBVIOUS
  <2> HIDE DEF f
  <2>5. ASSUME NEW k \in 0 .. m
        PROVE  f[k] = IF k = 0 THEN st ELSE MergeTop(f[k - 1], key, flags)
    <3>1. CASE k = m
      <4>1. k # 0 /\ k - 1 \in 0 .. m /\ k - 1 # m
        BY <3>1
      <4>2. f[k - 1] = fn[m - 1]
        BY <2>3, <3>1, <4>1
      <4> QED BY <2>3, <3>1, <4>1, <4>2
    <3>2. CASE k # m
      <4>1. k \in 0 .. m - 1 /\ k - 1 # m /\ (k # 0 => k - 1 \in 0 .. m)
        BY <3>2
      <4>2. k # 0 => f[k - 1] = fn[k - 1]
        BY <2>3, <4>1
      <4> QED BY <2>2, <2>3, <3>2, <4>1, <4>2
    <3> QED BY <3>1, <3>2
  <2>6. f = Merges(f, m, st, key, flags)
    <3>1. [k \in 0 .. m |-> f[k]]
            = [k \in 0 .. m |-> IF k = 0 THEN st ELSE MergeTop(f[k - 1], key, flags)]
      BY <2>5
    <3> QED BY <2>4, <3>1 DEF Merges
  <2>7. m \in 0 .. n
    OBVIOUS
  <2> QED BY <2>6, <2>7
<1>3. T = 0 .. n
  <2>1. T \in SUBSET (0 .. n)
    OBVIOUS
  <2> HIDE DEF T
  <2> QED BY <1>1, <1>2, <2>1, UpTo
<1>4. n \in 0 .. n
  OBVIOUS
<1> QED BY <1>3, <1>4

\* Two subtrees of equal size that meet are the halves of one.
LEMMA NodeOfPair ==
  ASSUME NEW key, NEW flags, NEW byte, NEW y \in Nat, NEW p \in PowersOfTwo,
         (y + 2 * p) * CHUNK_LEN <= MaxLength
  PROVE  NodeOf(key, flags, byte, y, (2 * p) * CHUNK_LEN)
           = Parent(Joined(FirstBytes(NodeOf(key, flags, byte, y, p * CHUNK_LEN)),
                           FirstBytes(NodeOf(key, flags, byte, y + p, p * CHUNK_LEN))), key, flags)
<1>1. CHUNK_LEN \in Nat \ {0} /\ p \in Nat \ {0}
  BY BlocksAre, PowersAre
<1>2. PICK w \in Nat : w = (2 * p) * CHUNK_LEN
  BY <1>1
<1>3. PICK s, t : s = y * CHUNK_LEN /\ t = p * CHUNK_LEN
  OBVIOUS
<1>4. s \in Nat /\ t \in Nat /\ w = t + t /\ (y + 2 * p) * CHUNK_LEN = s + w /\ CHUNK_LEN <= t
  <2>1. s \in Nat /\ t \in Nat /\ w = t + t /\ (y + 2 * p) * CHUNK_LEN = s + w
    BY <1>1, <1>2, <1>3
  <2>2. 1 * CHUNK_LEN <= p * CHUNK_LEN
    BY <1>1, ChunksOrder
  <2> QED BY <1>1, <1>3, <2>1, <2>2
<1>5. s + w <= MaxLength /\ t < w /\ w - t = t
  BY <1>1, <1>4
<1>6. y * CHUNK_LEN + w <= MaxLength /\ p * CHUNK_LEN < w /\ w <= 2 * p * CHUNK_LEN
  BY <1>2, <1>3, <1>5
<1>7. NodeOf(key, flags, byte, y, w)
        = Parent(Joined(FirstBytes(NodeOf(key, flags, byte, y, p * CHUNK_LEN)),
                        FirstBytes(NodeOf(key, flags, byte, y + p, w - p * CHUNK_LEN))), key, flags)
  BY <1>6, NodeOfHalves
<1> QED BY <1>2, <1>3, <1>5, <1>7

\* A merge replaces the top two values by their parent's.
LEMMA MergeTopIs ==
  ASSUME NEW key, NEW flags, NEW byte, NEW st, NEW b, NEW d \in Nat, NEW c \in Nat,
         c <= Top, c * CHUNK_LEN <= MaxLength,
         Shape(b, d, c), Values(st, b, d, key, flags, byte), ~Even(b, d)
  PROVE  Shape(Merged(b, d, c), d - 1, c)
         /\ Values(MergeTop(st, key, flags), Merged(b, d, c), d - 1, key, flags, byte)
<1>1. 2 <= d /\ Size(b, d) = Size(b, d - 1) /\ Shape(Merged(b, d, c), d - 1, c)
  BY UnevenShape
<1>2. d \in 1 .. d /\ d - 1 \in 1 .. d /\ d - 1 - 1 = d - 2 /\ d - 2 \in Nat
  BY <1>1
<1>3. PICK p, x, y : p = Size(b, d) /\ x = b[d - 1] /\ y = b[d - 2]
  OBVIOUS
<1>4. p \in PowersOfTwo /\ p \in Nat \ {0} /\ x \in Nat /\ y \in Nat /\ c = x + p /\ x = y + p
  <2>1. p \in PowersOfTwo /\ p \in Nat \ {0} /\ x \in Nat /\ b[d] = x + p
    BY <1>2, <1>3, SizesAre
  <2>2. y \in Nat /\ x = y + p
    <3>1. b[d - 1 - 1] \in Nat /\ b[d - 1] = b[d - 1 - 1] + Size(b, d - 1)
      BY <1>2, SizesAre
    <3> QED BY <1>1, <1>2, <1>3, <3>1
  <2>3. b[d] = c
    BY DEF Shape
  <2> QED BY <2>1, <2>2, <2>3
<1>5. Sequence(st, d) /\ Len(st) = d
  BY SequencesAre DEF Values
<1>6. PICK u, v : u = FirstBytes(NodeOf(key, flags, byte, y, p * CHUNK_LEN))
                  /\ v = FirstBytes(NodeOf(key, flags, byte, x, p * CHUNK_LEN))
  OBVIOUS
<1>7. st[d - 2 + 1] = u /\ st[d - 2 + 2] = v
  <2>1. d - 2 + 1 = d - 1 /\ d - 2 + 2 = d
    OBVIOUS
  <2>2. st[d] = v
    BY <1>2, <1>3, <1>6 DEF Values
  <2>3. st[d - 1] = u
    BY <1>1, <1>2, <1>3, <1>6 DEF Values
  <2> QED BY <2>1, <2>2, <2>3
<1>8. FirstBytes(Parent(Joined(u, v), key, flags))
        = FirstBytes(NodeOf(key, flags, byte, y, (2 * p) * CHUNK_LEN))
  <2>1. y + 2 * p = c
    BY <1>4
  <2>2. NodeOf(key, flags, byte, y, (2 * p) * CHUNK_LEN)
          = Parent(Joined(FirstBytes(NodeOf(key, flags, byte, y, p * CHUNK_LEN)),
                          FirstBytes(NodeOf(key, flags, byte, y + p, p * CHUNK_LEN))), key, flags)
    BY <1>4, <2>1, NodeOfPair
  <2> QED BY <1>4, <1>6, <2>2
<1>9. MergeTop(st, key, flags)
        = Appended(SubSeq(st, 1, d - 2), FirstBytes(Parent(Joined(u, v), key, flags)))
  <2>1. output_chaining_value(parent_output(Joined(u, v), key, flags))
          = FirstBytes(Parent(Joined(u, v), key, flags))
    BY ParentIs
  <2> QED BY <1>5, <1>7, <2>1 DEF MergeTop, Appended, Joined
<1>10. SubSeq(st, 1, d - 2) = [i \in 1 .. d - 2 |-> st[i]]
  <2>1. PICK m \in Nat : m = d - 2
    BY <1>2
  <2>2. SubSeq(st, 0 + 1, 0 + m) = [i \in 1 .. m |-> st[0 + i]]
    BY PartsAre
  <2>3. \A i \in 1 .. m : 0 + i = i
    OBVIOUS
  <2>4. 0 + 1 = 1 /\ 0 + m = m
    OBVIOUS
  <2>5. SubSeq(st, 1, m) = [i \in 1 .. m |-> st[i]]
    BY <2>2, <2>3, <2>4
  <2> QED BY <2>1, <2>5
<1>11. Sequence(SubSeq(st, 1, d - 2), d - 2) /\ \A i \in 1 .. d - 2 : SubSeq(st, 1, d - 2)[i] = st[i]
  BY <1>10 DEF Sequence
<1> DEFINE r == MergeTop(st, key, flags)
           m == Merged(b, d, c)
<1>12. /\ Sequence(r, d - 1) /\ \A i \in 1 .. d - 2 : r[i] = st[i]
       /\ r[d - 1] = FirstBytes(NodeOf(key, flags, byte, y, (2 * p) * CHUNK_LEN))
  <2>1. PICK k, s, x0 : k = d - 2 /\ s = SubSeq(st, 1, d - 2)
                         /\ x0 = FirstBytes(Parent(Joined(u, v), key, flags))
    OBVIOUS
  <2>2. k \in Nat /\ k + 1 = d - 1 /\ Sequence(s, k) /\ \A i \in 1 .. k : s[i] = st[i]
    BY <1>2, <1>11, <2>1
  <2>3. /\ Sequence(Appended(s, x0), k + 1) /\ Appended(s, x0)[k + 1] = x0
        /\ \A i \in 1 .. k : Appended(s, x0)[i] = s[i]
    BY <2>2, AppendsAre
  <2>4. r = Appended(s, x0)
    BY <1>9, <2>1
  <2> HIDE DEF r
  <2> QED BY <1>8, <2>1, <2>2, <2>3, <2>4
<1>13. \A i \in 0 .. d - 1 : m[i] = IF i = d - 1 THEN c ELSE b[i]
  BY DEF Merged
<1> HIDE DEF r, m
<1>14. ASSUME NEW i \in 1 .. d - 1
       PROVE  r[i] = FirstBytes(NodeOf(key, flags, byte, m[i - 1], Size(m, i) * CHUNK_LEN))
  <2>1. CASE i = d - 1
    <3>1. i \in 0 .. d - 1 /\ i - 1 \in 0 .. d - 1 /\ i - 1 # d - 1 /\ i - 1 = d - 2
      BY <1>1, <2>1
    <3>2. m[i] = c /\ m[i - 1] = y
      BY <1>3, <1>13, <2>1, <3>1
    <3>3. Size(m, i) = 2 * p
      BY <1>4, <3>2 DEF Size
    <3> QED BY <1>12, <2>1, <3>2, <3>3
  <2>2. CASE i # d - 1
    <3>1. i \in 0 .. d - 1 /\ i - 1 \in 0 .. d - 1 /\ i - 1 # d - 1 /\ i \in 1 .. d - 2 /\ i \in 1 .. d
      BY <1>1, <2>2
    <3>2. m[i] = b[i] /\ m[i - 1] = b[i - 1]
      BY <1>13, <2>2, <3>1
    <3>3. st[i] = FirstBytes(NodeOf(key, flags, byte, b[i - 1], Size(b, i) * CHUNK_LEN))
      BY <3>1 DEF Values
    <3> QED BY <1>12, <3>1, <3>2, <3>3 DEF Size
  <2> QED BY <2>1, <2>2
<1>15. Values(r, m, d - 1, key, flags, byte)
  BY <1>12, <1>14 DEF Values
<1> QED BY <1>1, <1>15 DEF r, m

Hasher(key, chunk, st) == [key |-> key, chunk |-> chunk, cv_stack |-> st]

\* A message's chunks can be counted.
LEMMA TopHolds ==
  ASSUME NEW c \in Nat, c * CHUNK_LEN <= MaxLength
  PROVE  c <= Top /\ c <= power_of_two[MAX_DEPTH] /\ Top \in Nat
<1>1. PICK t : t = power_of_two[MAX_DEPTH]
  OBVIOUS
<1>2. t \in PowersOfTwo /\ t \in Nat /\ MaxLength = t * CHUNK_LEN
  BY <1>1, MaxLengthIs, BlocksAre
<1>3. c <= t
  BY <1>2, ChunksOrder
<1>4. t <= Top /\ Top \in Nat
  BY <1>2, TopIsLargest, PowersAre
<1> QED BY <1>1, <1>2, <1>3, <1>4

LEMMA MergeWhole ==
  ASSUME NEW self, NEW c
  PROVE  hasher_merge_cv_stack(self, c)
           = IF Len(self.cv_stack) - popcnt(c) > 0
             THEN [self EXCEPT !.cv_stack =
                     Chosen(Len(self.cv_stack) - popcnt(c), self.cv_stack, self.key,
                            self.chunk.flags)[Len(self.cv_stack) - popcnt(c)]]
             ELSE self
BY DEF hasher_merge_cv_stack, Chosen, Merges, MergeTop

\* Merging leaves one value for every bit of the number of chunks.
LEMMA MergeIs ==
  ASSUME NEW key, NEW flags, NEW byte, NEW chunk, chunk.flags = flags, NEW st,
         NEW d \in Nat, NEW c \in Nat, c * CHUNK_LEN <= MaxLength,
         Held(st, d, c, key, flags, byte)
  PROVE  \E s : /\ hasher_merge_cv_stack(Hasher(key, chunk, st), c) = Hasher(key, chunk, s)
                /\ HeldEven(s, popcnt(c), c, key, flags, byte)
<1>1. PICK b : Shape(b, d, c) /\ Values(st, b, d, key, flags, byte)
  BY DEF Held
<1>2. Len(st) = d /\ Sequence(st, d)
  BY <1>1, SequencesAre DEF Values
<1>3. c <= Top
  BY TopHolds
<1>4. popcnt(c) \in Nat
  BY BitsAreFinite
<1>5. popcnt(c) <= d
  <2>1. CASE Even(b, d)
    BY <1>1, <2>1, EvenShape
  <2>2. CASE ~Even(b, d)
    BY <1>1, <1>3, <1>4, <2>2, UnevenShape
  <2> QED BY <2>1, <2>2
<1>6. PICK n : n = d - popcnt(c)
  OBVIOUS
<1>7. n \in Nat /\ d - n = popcnt(c) /\ n <= d
  BY <1>4, <1>5, <1>6
<1> DEFINE f == Chosen(n, st, key, flags)
<1>8. f = Merges(f, n, st, key, flags)
  BY <1>7, MergesExist DEF Chosen
<1>9. hasher_merge_cv_stack(Hasher(key, chunk, st), c)
        = IF n > 0 THEN [Hasher(key, chunk, st) EXCEPT !.cv_stack = f[n]] ELSE Hasher(key, chunk, st)
  <2>1. Hasher(key, chunk, st).cv_stack = st /\ Hasher(key, chunk, st).key = key
        /\ Hasher(key, chunk, st).chunk = chunk
    BY DEF Hasher
  <2> QED BY <1>2, <1>6, <2>1, MergeWhole
<1> HIDE DEF f
<1>10. \A k \in 0 .. n : f[k] = IF k = 0 THEN st ELSE MergeTop(f[k - 1], key, flags)
  <2>1. \A k \in 0 .. n : Merges(f, n, st, key, flags)[k]
                            = IF k = 0 THEN st ELSE MergeTop(f[k - 1], key, flags)
    BY DEF Merges
  <2> QED BY <1>8, <2>1
<1> DEFINE T == {k \in 0 .. n : Held(f[k], d - k, c, key, flags, byte)}
<1>11. T = 0 .. n
  <2>1. 0 \in T /\ T \in SUBSET (0 .. n)
    <3>1. 0 \in 0 .. n /\ f[0] = st /\ d - 0 = d
      BY <1>7, <1>10
    <3> QED BY <3>1
  <2>2. ASSUME NEW k \in 1 .. n, k - 1 \in T
        PROVE  k \in T
    <3>1. PICK e : e = d - (k - 1)
      OBVIOUS
    <3>2. e \in Nat /\ e - 1 = d - k /\ popcnt(c) < e /\ k \in 0 .. n /\ k # 0
      BY <1>4, <1>6, <1>7, <3>1
    <3>3. PICK a : Shape(a, e, c) /\ Values(f[k - 1], a, e, key, flags, byte)
      BY <2>2, <3>1 DEF Held
    <3>4. ~Even(a, e)
      <4>1. Even(a, e) => popcnt(c) = e
        BY <3>2, <3>3, EvenShape
      <4> QED BY <1>4, <3>2, <4>1
    <3>5. f[k] = MergeTop(f[k - 1], key, flags)
      BY <1>10, <3>2
    <3>6. Shape(Merged(a, e, c), e - 1, c)
          /\ Values(MergeTop(f[k - 1], key, flags), Merged(a, e, c), e - 1, key, flags, byte)
      BY <1>3, <3>2, <3>3, <3>4, MergeTopIs
    <3>7. Held(f[k], d - k, c, key, flags, byte)
      BY <3>2, <3>5, <3>6 DEF Held
    <3> QED BY <3>2, <3>7
  <2> HIDE DEF T
  <2> QED BY <1>7, <2>1, <2>2, UpTo
<1>12. HeldEven(f[n], popcnt(c), c, key, flags, byte)
  <2>1. n \in 0 .. n
    BY <1>7
  <2>2. Held(f[n], popcnt(c), c, key, flags, byte)
    BY <1>7, <1>11, <2>1
  <2>3. PICK a : Shape(a, popcnt(c), c) /\ Values(f[n], a, popcnt(c), key, flags, byte)
    BY <2>2 DEF Held
  <2>4. Even(a, popcnt(c))
    <3>1. ~Even(a, popcnt(c)) => popcnt(c) <= popcnt(c) - 1
      BY <1>3, <1>4, <2>3, UnevenShape
    <3> QED BY <1>4, <3>1
  <2> QED BY <2>3, <2>4 DEF HeldEven
<1>13. hasher_merge_cv_stack(Hasher(key, chunk, st), c) = Hasher(key, chunk, f[n])
  <2>1. [Hasher(key, chunk, st) EXCEPT !.cv_stack = f[n]] = Hasher(key, chunk, f[n])
    BY DEF Hasher
  <2>2. CASE n > 0
    BY <1>9, <2>1, <2>2
  <2>3. CASE ~(n > 0)
    <3>1. n = 0
      BY <1>7, <2>3
    <3>2. 0 \in 0 .. n
      BY <1>7
    <3>3. f[n] = st
      BY <1>10, <3>1, <3>2
    <3> QED BY <1>9, <2>3, <3>3
  <2> QED BY <2>2, <2>3
<1> QED BY <1>12, <1>13

-----------------------------------------------------------------------------
(* Pushing                                                                 *)

\* A subtree goes onto a merged stack.
LEMMA PushOnto ==
  ASSUME NEW key, NEW flags, NEW byte, NEW st, NEW d \in Nat, NEW c \in Nat,
         HeldEven(st, d, c, key, flags, byte),
         NEW q \in PowersOfTwo, Divides(q, c),
         NEW v, v = FirstBytes(NodeOf(key, flags, byte, c, q * CHUNK_LEN))
  PROVE  /\ Held(Appended(st, v), d + 1, c + q, key, flags, byte)
         /\ Divides(2 * q, c) => HeldEven(Appended(st, v), d + 1, c + q, key, flags, byte)
<1>1. PICK b : Shape(b, d, c) /\ Values(st, b, d, key, flags, byte) /\ Even(b, d)
  BY DEF HeldEven
<1>2. q \in Nat \ {0}
  BY PowersAre
<1>3. PICK e \in Nat : e = d + 1
  OBVIOUS
<1> DEFINE a == [i \in 0 .. e |-> IF i = e THEN c + q ELSE b[i]]
<1>4. \A i \in 0 .. e : a[i] = IF i = e THEN c + q ELSE b[i]
  OBVIOUS
<1> HIDE DEF a
<1>5. b[0] = 0 /\ b[d] = c /\ \A i \in 0 .. d : b[i] \in Nat
  BY <1>1 DEF Shape
<1>6. a[0] = 0 /\ a[e] = c + q /\ a[d] = c /\ \A i \in 0 .. e : a[i] \in Nat
  <2>1. 0 \in 0 .. e /\ e \in 0 .. e /\ d \in 0 .. e /\ 0 # e /\ d # e
    BY <1>3
  <2>2. \A i \in 0 .. e : i = e \/ i \in 0 .. d
    BY <1>3
  <2> QED BY <1>2, <1>4, <1>5, <2>1, <2>2
<1>7. ASSUME NEW i \in 1 .. d
      PROVE  a[i] = b[i] /\ a[i - 1] = b[i - 1] /\ Size(a, i) = Size(b, i)
  <2>1. i \in 0 .. e /\ i - 1 \in 0 .. e /\ i # e /\ i - 1 # e
    BY <1>3
  <2> QED BY <1>4, <2>1 DEF Size
<1>8. Size(a, e) = q /\ a[e - 1] = c
  <2>1. e - 1 = d
    BY <1>3
  <2> QED BY <1>2, <1>6, <2>1 DEF Size
<1>9. ASSUME NEW i \in 1 .. e
      PROVE  Size(a, i) \in PowersOfTwo /\ Divides(Size(a, i), a[i - 1])
  <2>1. CASE i = e
    BY <1>8, <2>1
  <2>2. CASE i # e
    <3>1. i \in 1 .. d
      BY <1>3, <2>2
    <3>2. Size(b, i) \in PowersOfTwo /\ Divides(Size(b, i), b[i - 1])
      BY <1>1, <3>1 DEF Shape
    <3> QED BY <1>7, <3>1, <3>2
  <2> QED BY <2>1, <2>2
<1>10. Even(a, e - 1)
  <2>1. ASSUME NEW i \in 1 .. e - 1
        PROVE  Divides(2 * Size(a, i), a[i - 1])
    <3>1. i \in 1 .. d
      BY <1>3
    <3>2. Divides(2 * Size(b, i), b[i - 1])
      BY <1>1, <3>1 DEF Even
    <3> QED BY <1>7, <3>1, <3>2
  <2> QED BY <2>1 DEF Even
<1>11. Shape(a, e, c + q)
  BY <1>6, <1>9, <1>10 DEF Shape
<1>12. ASSUME Divides(2 * q, c)
       PROVE  Even(a, e)
  <2>1. ASSUME NEW i \in 1 .. e
        PROVE  Divides(2 * Size(a, i), a[i - 1])
    <3>1. CASE i = e
      BY <1>8, <1>12, <3>1
    <3>2. CASE i # e
      <4>1. i \in 1 .. e - 1
        BY <1>3, <3>2
      <4> QED BY <1>10, <4>1 DEF Even
    <3> QED BY <3>1, <3>2
  <2> QED BY <2>1 DEF Even
<1>13. Values(Appended(st, v), a, e, key, flags, byte)
  <2>1. Sequence(st, d) /\ \A i \in 1 .. d :
          st[i] = FirstBytes(NodeOf(key, flags, byte, b[i - 1], Size(b, i) * CHUNK_LEN))
    BY <1>1 DEF Values
  <2>2. /\ Sequence(Appended(st, v), d + 1) /\ Appended(st, v)[d + 1] = v
        /\ \A i \in 1 .. d : Appended(st, v)[i] = st[i]
    BY <2>1, AppendsAre
  <2>3. ASSUME NEW i \in 1 .. e
        PROVE  Appended(st, v)[i]
                 = FirstBytes(NodeOf(key, flags, byte, a[i - 1], Size(a, i) * CHUNK_LEN))
    <3>1. CASE i = e
      BY <1>3, <1>8, <2>2, <3>1
    <3>2. CASE i # e
      <4>1. i \in 1 .. d
        BY <1>3, <3>2
      <4> QED BY <1>7, <2>1, <2>2, <4>1
    <3> QED BY <3>1, <3>2
  <2> QED BY <1>3, <2>2, <2>3 DEF Values
<1> QED BY <1>3, <1>11, <1>12, <1>13 DEF Held, HeldEven

LEMMA HeldIfEven ==
  ASSUME NEW st, NEW d, NEW c, NEW key, NEW flags, NEW byte,
         HeldEven(st, d, c, key, flags, byte)
  PROVE  Held(st, d, c, key, flags, byte)
BY DEF Held, HeldEven

\* A value is pushed after the merges that the chunks before it call for.
LEMMA PushIs ==
  ASSUME NEW key, NEW flags, NEW byte, NEW chunk, chunk.flags = flags, NEW st,
         NEW d \in Nat, NEW c \in Nat, c * CHUNK_LEN <= MaxLength,
         Held(st, d, c, key, flags, byte), NEW q \in PowersOfTwo, Divides(q, c),
         NEW v, v = FirstBytes(NodeOf(key, flags, byte, c, q * CHUNK_LEN))
  PROVE  \E s : /\ hasher_push_cv(Hasher(key, chunk, st), v, c) = Hasher(key, chunk, s)
                /\ Held(s, popcnt(c) + 1, c + q, key, flags, byte)
                /\ Divides(2 * q, c) => HeldEven(s, popcnt(c) + 1, c + q, key, flags, byte)
<1>1. PICK s : /\ hasher_merge_cv_stack(Hasher(key, chunk, st), c) = Hasher(key, chunk, s)
               /\ HeldEven(s, popcnt(c), c, key, flags, byte)
  BY MergeIs
<1>2. popcnt(c) \in Nat
  BY BitsAreFinite
<1>3. /\ Held(Appended(s, v), popcnt(c) + 1, c + q, key, flags, byte)
      /\ Divides(2 * q, c) => HeldEven(Appended(s, v), popcnt(c) + 1, c + q, key, flags, byte)
  BY <1>1, <1>2, PushOnto
<1>4. hasher_push_cv(Hasher(key, chunk, st), v, c) = Hasher(key, chunk, Appended(s, v))
  <2>1. hasher_push_cv(Hasher(key, chunk, st), v, c)
          = [Hasher(key, chunk, s) EXCEPT !.cv_stack = Append(@, v)]
    BY <1>1 DEF hasher_push_cv
  <2>2. Hasher(key, chunk, s).cv_stack = s
    BY DEF Hasher
  <2>3. [Hasher(key, chunk, s) EXCEPT !.cv_stack = Appended(s, v)]
          = Hasher(key, chunk, Appended(s, v))
    BY DEF Hasher
  <2>4. [Hasher(key, chunk, s) EXCEPT !.cv_stack = Append(@, v)]
          = [Hasher(key, chunk, s) EXCEPT !.cv_stack = Append(s, v)]
    BY <2>2
  <2> QED BY <2>1, <2>3, <2>4 DEF Appended
<1> QED BY <1>3, <1>4

\* A hasher whose stack holds the values of c chunks.
Holds(h, chunk, d, c, key, flags, byte) ==
  \E st : h = Hasher(key, chunk, st) /\ chunk.flags = flags /\ Held(st, d, c, key, flags, byte)

ValueOf(key, flags, byte, c, q) == FirstBytes(NodeOf(key, flags, byte, c, q * CHUNK_LEN))

\* Pushing merges first.
LEMMA PushHolds ==
  ASSUME NEW key, NEW flags, NEW byte, NEW chunk, NEW h, NEW d \in Nat, NEW c \in Nat,
         c * CHUNK_LEN <= MaxLength, Holds(h, chunk, d, c, key, flags, byte),
         NEW q \in PowersOfTwo, Divides(q, c)
  PROVE  Holds(hasher_push_cv(h, ValueOf(key, flags, byte, c, q), c), chunk,
               popcnt(c) + 1, c + q, key, flags, byte)
<1>1. PICK st : h = Hasher(key, chunk, st) /\ chunk.flags = flags
                /\ Held(st, d, c, key, flags, byte)
  BY DEF Holds
<1>2. PICK v : v = ValueOf(key, flags, byte, c, q)
  OBVIOUS
<1>3. v = FirstBytes(NodeOf(key, flags, byte, c, q * CHUNK_LEN))
  BY <1>2 DEF ValueOf
<1>4. chunk.flags = flags
  BY <1>1
<1>5. Held(st, d, c, key, flags, byte)
  BY <1>1
<1>6. PICK s : /\ hasher_push_cv(Hasher(key, chunk, st), v, c) = Hasher(key, chunk, s)
               /\ Held(s, popcnt(c) + 1, c + q, key, flags, byte)
  BY <1>3, <1>4, <1>5, PushIs, ZenonT(40)
<1> QED BY <1>1, <1>2, <1>6 DEF Holds

\* The two halves of a subtree, one after the other.
LEMMA PairHolds ==
  ASSUME NEW key, NEW flags, NEW byte, NEW chunk, NEW h, NEW d \in Nat, NEW c \in Nat,
         NEW q \in PowersOfTwo, (c + 2 * q) * CHUNK_LEN <= MaxLength,
         Holds(h, chunk, d, c, key, flags, byte), Divides(2 * q, c)
  PROVE  Holds(hasher_push_cv(hasher_push_cv(h, ValueOf(key, flags, byte, c, q), c),
                              ValueOf(key, flags, byte, c + q, q), c + q), chunk,
               popcnt(c) + 2, c + 2 * q, key, flags, byte)
<1>a. PICK st : h = Hasher(key, chunk, st) /\ chunk.flags = flags
                /\ Held(st, d, c, key, flags, byte)
  BY DEF Holds
<1>b. PICK u, v : u = ValueOf(key, flags, byte, c, q) /\ v = ValueOf(key, flags, byte, c + q, q)
  OBVIOUS
<1>1. q \in Nat \ {0} /\ CHUNK_LEN \in Nat \ {0} /\ MaxLength \in Nat /\ popcnt(c) \in Nat
  BY PowersAre, BlocksAre, MaxLengthIs, BitsAreFinite
<1>2. c * CHUNK_LEN <= MaxLength /\ (c + q) * CHUNK_LEN <= MaxLength
  <2>1. PICK x, y, z : x = c * CHUNK_LEN /\ y = (c + q) * CHUNK_LEN /\ z = (c + 2 * q) * CHUNK_LEN
    OBVIOUS
  <2>2. c <= c + q /\ c + q <= c + 2 * q /\ c + q \in Nat /\ c + 2 * q \in Nat
    BY <1>1
  <2>3. x <= y /\ y <= z /\ x \in Nat /\ y \in Nat /\ z \in Nat
    BY <2>1, <2>2, ChunksOrder
  <2> QED BY <1>1, <2>1, <2>3
<1>3. Divides(q, c)
  BY <1>1, EvenOrOdd
<1>c. u = FirstBytes(NodeOf(key, flags, byte, c, q * CHUNK_LEN))
  BY <1>b DEF ValueOf
<1>d. c * CHUNK_LEN <= MaxLength
  BY <1>2
<1>e. chunk.flags = flags
  BY <1>a
<1>f. Held(st, d, c, key, flags, byte)
  BY <1>a
<1>4. PICK s : /\ hasher_push_cv(Hasher(key, chunk, st), u, c) = Hasher(key, chunk, s)
               /\ Divides(2 * q, c) => HeldEven(s, popcnt(c) + 1, c + q, key, flags, byte)
  BY <1>3, <1>c, <1>d, <1>e, <1>f, PushIs, ZenonT(40)
<1>5. popcnt(c + q) = popcnt(c) + 1
  BY PopcntOfSum
<1>6. Divides(q, c + q)
  BY <1>1, <1>3, DividesSums
<1>g. c + q \in Nat /\ popcnt(c) + 1 \in Nat
  BY <1>1
<1>h. PICK t \in Nat : t = c + q
  BY <1>g
<1>i. PICK e \in Nat : e = popcnt(c) + 1
  BY <1>g
<1>7. t = c + q /\ e = popcnt(c) + 1
  BY <1>h, <1>i
<1>8. t + q = c + 2 * q /\ popcnt(t) + 1 = popcnt(c) + 2
  BY <1>1, <1>5, <1>7
<1>9. Held(s, e, t, key, flags, byte)
  BY <1>4, <1>7, HeldIfEven
<1>10. Holds(Hasher(key, chunk, s), chunk, e, t, key, flags, byte)
  BY <1>e, <1>9 DEF Holds
<1>11. t * CHUNK_LEN <= MaxLength /\ Divides(q, t) /\ v = ValueOf(key, flags, byte, t, q)
  BY <1>2, <1>6, <1>7, <1>b
<1>12. Holds(hasher_push_cv(Hasher(key, chunk, s), ValueOf(key, flags, byte, t, q), t), chunk,
             popcnt(t) + 1, t + q, key, flags, byte)
  BY <1>10, <1>11, PushHolds
<1> QED BY <1>a, <1>b, <1>4, <1>7, <1>8, <1>11, <1>12

-----------------------------------------------------------------------------
(* The largest subtree at the front                                        *)

\* A set of naturals that is bounded has a greatest element.
LEMMA GreatestNumber ==
  ASSUME NEW T \in SUBSET Nat, T # {}, NEW n \in Nat, \A x \in T : x <= n
  PROVE  \E x \in T : \A y \in T : y <= x
<1> DEFINE U == {n - x : x \in T}
<1>1. U \in SUBSET Nat /\ U # {}
  <2>1. \A x \in T : n - x \in Nat
    OBVIOUS
  <2>2. PICK x \in T : TRUE
    OBVIOUS
  <2>3. n - x \in U
    BY <2>2
  <2> QED BY <2>1, <2>3
<1>2. PICK u \in U : \A y \in U : u <= y
  <2> HIDE DEF U
  <2> QED BY <1>1, LeastNumber
<1>3. PICK x \in T : u = n - x
  OBVIOUS
<1>4. ASSUME NEW y \in T
      PROVE  y <= x
  <2>1. n - y \in U
    OBVIOUS
  <2>2. u <= n - y
    BY <1>2, <2>1
  <2> QED BY <1>3, <2>2
<1> QED BY <1>4

\* Every number but 0 can be rounded down.
LEMMA RoundDownExists ==
  ASSUME NEW x \in Nat \ {0}
  PROVE  /\ round_down_to_power_of_2(x) \in PowersOfTwo
         /\ round_down_to_power_of_2(x) <= x
         /\ \A p \in PowersOfTwo : p <= x => p <= round_down_to_power_of_2(x)
<1> DEFINE S == {r \in PowersOfTwo : r <= x}
<1>1. S \in SUBSET Nat
  BY PowersAre
<1>2. 1 \in S
  <2>1. power_of_two[0] = 1 /\ 0 \in 0 .. SIZE_BITS - 1
    BY PowerSteps, Lengths
  <2>2. 1 \in PowersOfTwo
    BY <2>1, PowersAre
  <2> QED BY <2>2
<1>3. PICK p \in S : \A y \in S : y <= p
  <2>1. \A y \in S : y <= x
    OBVIOUS
  <2>2. S # {} /\ x \in Nat
    BY <1>2
  <2> HIDE DEF S
  <2> QED BY <1>1, <2>1, <2>2, GreatestNumber
<1>4. Max(S) = p
  <2> HIDE DEF S
  <2> QED BY <1>1, <1>3, MaxIs
<1>5. round_down_to_power_of_2(x) = p
  BY <1>4 DEF round_down_to_power_of_2
<1> QED BY <1>3, <1>5

\* The loop takes a power of two of chunks, that divides the chunks before it.
LEMMA SubtreeLenIs ==
  ASSUME NEW self, NEW c \in Nat, self.chunk.chunk_counter = c,
         NEW n \in Nat, CHUNK_LEN < n
  PROVE  \E q \in PowersOfTwo :
           /\ SubtreeLen(self, n) = q * CHUNK_LEN
           /\ q * CHUNK_LEN <= n /\ Divides(q, c)
<1>1. CHUNK_LEN \in Nat \ {0} /\ CHUNK_LEN \in PowersOfTwo
  BY BlocksAre, Lengths
<1>2. PICK r : r = round_down_to_power_of_2(n)
  OBVIOUS
<1>3. r \in PowersOfTwo /\ r <= n /\ r \in Nat /\ CHUNK_LEN <= r
  <2>1. n \in Nat \ {0} /\ CHUNK_LEN <= n
    BY <1>1
  <2>2. r \in PowersOfTwo /\ r <= n /\ CHUNK_LEN <= r
    BY <1>1, <1>2, <2>1, RoundDownExists
  <2> QED BY <2>2, PowersAre
<1>4. PICK x : x = c * CHUNK_LEN
  OBVIOUS
<1>5. x \in Nat
  BY <1>4, ChunksOrder
<1> DEFINE S == {p \in PowersOfTwo : p <= r /\ x % p = 0}
<1>6. S \in SUBSET Nat
  BY PowersAre
<1>7. CHUNK_LEN \in S
  <2>1. Divides(CHUNK_LEN, x)
    <3>1. x = CHUNK_LEN * c
      BY <1>1, <1>4
    <3> QED BY <3>1 DEF Divides
  <2>2. x % CHUNK_LEN = 0
    BY <1>1, <1>5, <2>1, RemainderOfMultiple
  <2> QED BY <1>1, <1>3, <2>2
<1>8. PICK s \in S : \A y \in S : y <= s
  <2>1. \A y \in S : y <= r
    OBVIOUS
  <2> HIDE DEF S
  <2> QED BY <1>3, <1>6, <1>7, <2>1, GreatestNumber
<1>9. SubtreeLen(self, n) = s
  <2>1. Max(S) = s
    <3> HIDE DEF S
    <3> QED BY <1>6, <1>8, MaxIs
  <2> QED BY <1>2, <1>4, <2>1 DEF SubtreeLen
<1>10. CHUNK_LEN <= s
  <2> HIDE DEF S
  <2> QED BY <1>7, <1>8
<1>11. s \in PowersOfTwo /\ s \in Nat \ {0} /\ s <= r /\ x % s = 0
  BY PowersAre
<1> HIDE DEF S
<1>12. PICK q \in PowersOfTwo : s = CHUNK_LEN * q
  BY <1>1, <1>10, <1>11, PowersDivide
<1>13. q \in Nat \ {0}
  BY PowersAre
<1>14. s = q * CHUNK_LEN
  BY <1>1, <1>12, <1>13
<1>15. q * CHUNK_LEN <= n
  <2>1. s <= n
    BY <1>3, <1>11
  <2> QED BY <1>14, <2>1
<1>16. Divides(q, c)
  <2>1. Divides(s, x)
    BY <1>5, <1>11, RemainderOfMultiple
  <2>2. PICK z \in Nat : x = s * z
    BY <2>1 DEF Divides
  <2>3. PICK w \in Nat : w = q * z
    BY <1>13
  <2>4. w * CHUNK_LEN = c * CHUNK_LEN
    <3>1. s * z = w * CHUNK_LEN
      BY <1>1, <1>12, <1>13, <2>3
    <3> QED BY <1>4, <2>2, <3>1
  <2>5. PICK a, b : a = w * CHUNK_LEN /\ b = c * CHUNK_LEN
    OBVIOUS
  <2>6. a \in Nat /\ a = b
    BY <2>4, <2>5, ChunksOrder
  <2>7. ~(w < c) /\ ~(c < w)
    <3>1. ~(a < b) /\ ~(b < a)
      BY <2>6
    <3> QED BY <2>5, <3>1, ChunksOrder
  <2>8. c = q * z
    BY <2>3, <2>7
  <2> QED BY <2>8 DEF Divides
<1> QED BY <1>9, <1>14, <1>15, <1>16

Counted(h, q) == [h EXCEPT !.chunk.chunk_counter = @ + q]

LEMMA CountOn ==
  ASSUME NEW key, NEW flags, NEW byte, NEW c \in Nat, NEW q \in Nat, NEW st
  PROVE  Counted(Hasher(key, ChunkOf(key, flags, byte, c, 0), st), q)
           = Hasher(key, ChunkOf(key, flags, byte, c + q, 0), st)
<1> DEFINE h == Hasher(key, ChunkOf(key, flags, byte, c, 0), st)
<1>1. PICK k : k = chunk_state_init(key, flags, c)
  OBVIOUS
<1>2. h = [key |-> key, chunk |-> k, cv_stack |-> st]
  BY <1>1, NewChunk DEF Hasher
<1>3. [k EXCEPT !.chunk_counter = @ + q] = chunk_state_init(key, flags, c + q)
  BY <1>1 DEF chunk_state_init
<1>4. [h EXCEPT !.chunk.chunk_counter = @ + q]
        = [key |-> key, chunk |-> [k EXCEPT !.chunk_counter = @ + q], cv_stack |-> st]
  BY <1>2
<1>5. c + q \in Nat
  OBVIOUS
<1>6. chunk_state_init(key, flags, c + q) = ChunkOf(key, flags, byte, c + q, 0)
  BY <1>5, NewChunk
<1> QED BY <1>3, <1>4, <1>6 DEF Hasher, Counted

LEMMA CountHolds ==
  ASSUME NEW key, NEW flags, NEW byte, NEW c \in Nat, NEW q \in Nat, NEW h, NEW d, NEW x,
         Holds(h, ChunkOf(key, flags, byte, c, 0), d, x, key, flags, byte)
  PROVE  Holds(Counted(h, q), ChunkOf(key, flags, byte, c + q, 0), d, x, key, flags, byte)
<1>1. PICK st : h = Hasher(key, ChunkOf(key, flags, byte, c, 0), st)
                /\ Held(st, d, x, key, flags, byte)
  BY DEF Holds
<1>2. Counted(h, q) = Hasher(key, ChunkOf(key, flags, byte, c + q, 0), st)
  BY <1>1, CountOn
<1>3. ChunkOf(key, flags, byte, c + q, 0).flags = flags
  <2>1. 0 \in 0 .. CHUNK_LEN /\ c + q \in Nat
    BY BlocksAre
  <2> QED BY <2>1, ChunkIs
<1> QED BY <1>1, <1>2, <1>3 DEF Holds

\* A hasher between two subtrees: its chunk is clear, and there are values enough
\* on its stack.
Clear(h, least, c, key, flags, byte) ==
  \E d \in Nat : least <= d /\ Holds(h, ChunkOf(key, flags, byte, c, 0), d, c, key, flags, byte)

\* A turn of the loop pushes the values of its subtree.
LEMMA PushSubtreeIs ==
  ASSUME NEW key, NEW flags, NEW byte, NEW c \in Nat, NEW self,
         Clear(self, 0, c, key, flags, byte), NEW q \in PowersOfTwo, Divides(q, c),
         (c + q) * CHUNK_LEN <= MaxLength,
         NEW size, size = q * CHUNK_LEN,
         NEW input, input = Segment(byte, c * CHUNK_LEN, size)
  PROVE  /\ Clear(PushSubtree(self, input, size), 0, c + q, key, flags, byte)
         /\ q # 1 => Clear(PushSubtree(self, input, size), 2, c + q, key, flags, byte)
<1>1. /\ CHUNK_LEN \in Nat \ {0} /\ MaxLength \in Nat /\ q \in Nat \ {0} /\ popcnt(c) \in Nat
      /\ c + q \in Nat
  BY BlocksAre, MaxLengthIs, PowersAre, BitsAreFinite
<1>2. PICK chunk : chunk = ChunkOf(key, flags, byte, c, 0)
  OBVIOUS
<1>3. PICK d \in Nat : Holds(self, chunk, d, c, key, flags, byte)
  BY <1>2 DEF Clear
<1>4. /\ self.chunk = chunk /\ self.key = key /\ chunk.chunk_counter = c /\ chunk.flags = flags
      /\ chunk_state_init(key, flags, c) = chunk
  <2>1. self.chunk = chunk /\ self.key = key
    BY <1>3 DEF Hasher, Holds
  <2>2. 0 \in 0 .. CHUNK_LEN
    BY <1>1
  <2>3. chunk.chunk_counter = c /\ chunk.flags = flags
    BY <1>2, <2>2, ChunkIs
  <2> QED BY <1>2, <2>1, <2>3, NewChunk
<1>5. PICK x, y : x = c * CHUNK_LEN /\ y = (c + q) * CHUNK_LEN
  OBVIOUS
<1>6. x \in Nat /\ size \in Nat /\ y = x + size /\ CHUNK_LEN <= size /\ y <= MaxLength
  <2>1. x \in Nat /\ size \in Nat /\ y = x + size
    BY <1>1, <1>5
  <2>2. 1 * CHUNK_LEN <= q * CHUNK_LEN
    BY <1>1, ChunksOrder
  <2> QED BY <1>1, <1>5, <2>1, <2>2
<1>7. c * CHUNK_LEN <= MaxLength
  BY <1>1, <1>5, <1>6
<1>8. size \div CHUNK_LEN = q
  <2>1. 0 \in 0 .. CHUNK_LEN - 1 /\ CHUNK_LEN * q + 0 = size
    BY <1>1
  <2>2. (CHUNK_LEN * q + 0) \div CHUNK_LEN = q
    BY <1>1, <2>1, Quotient
  <2> QED BY <2>1, <2>2
<1>9. CASE q = 1
  <2>1. size = CHUNK_LEN
    BY <1>1, <1>9
  <2>2. chunk_state_update(chunk, input) = ChunkOf(key, flags, byte, c, CHUNK_LEN)
    <3>1. CHUNK_LEN \in Nat /\ CHUNK_LEN <= CHUNK_LEN
      BY <1>1
    <3>2. chunk_state_update(chunk_state_init(key, flags, c), Segment(byte, c * CHUNK_LEN, CHUNK_LEN))
            = ChunkOf(key, flags, byte, c, CHUNK_LEN)
      BY <3>1, NewChunkUpdate
    <3> QED BY <1>4, <2>1, <3>2
  <2>3. output_chaining_value(chunk_state_output(ChunkOf(key, flags, byte, c, CHUNK_LEN)))
          = ValueOf(key, flags, byte, c, q)
    <3>1. CHUNK_LEN \in 0 .. CHUNK_LEN
      BY <1>1
    <3>2. output_chaining_value(chunk_state_output(ChunkOf(key, flags, byte, c, CHUNK_LEN)))
            = FirstBytes(TreeChunk(key, flags, byte, c, CHUNK_LEN))
      BY <3>1, ChunkIs
    <3>3. x + CHUNK_LEN <= MaxLength
      BY <1>1, <1>6, <2>1
    <3>4. NodeOf(key, flags, byte, c, CHUNK_LEN) = TreeChunk(key, flags, byte, c, CHUNK_LEN)
      BY <1>5, <3>1, <3>3, NodeOfChunk
    <3>5. q * CHUNK_LEN = CHUNK_LEN
      BY <2>1
    <3> QED BY <3>2, <3>4, <3>5 DEF ValueOf
  <2>4. PICK h : h = hasher_push_cv(self, ValueOf(key, flags, byte, c, q), c)
    OBVIOUS
  <2>5. PICK e \in Nat : e = popcnt(c) + 1
    BY <1>1
  <2>6. Holds(h, chunk, e, c + q, key, flags, byte)
    BY <1>3, <1>7, <2>4, <2>5, PushHolds
  <2>7. PushSubtree(self, input, size) = Counted(h, q)
    <3>1. size <= CHUNK_LEN
      BY <1>1, <2>1
    <3> QED BY <1>4, <1>8, <2>2, <2>3, <2>4, <3>1 DEF PushSubtree, Counted
  <2>8. Holds(Counted(h, q), ChunkOf(key, flags, byte, c + q, 0), e, c + q, key, flags, byte)
    <3>1. q \in Nat
      BY <1>1
    <3> QED BY <1>2, <2>6, <3>1, CountHolds
  <2>9. 0 <= e
    OBVIOUS
  <2> QED BY <1>9, <2>7, <2>8, <2>9 DEF Clear
<1>10. CASE q # 1
  <2>1. PICK h \in PowersOfTwo : q = 2 * h
    BY <1>10, PowersAre
  <2>2. h \in Nat \ {0}
    BY PowersAre
  <2>3. PICK z : z = h * CHUNK_LEN
    OBVIOUS
  <2>4. z \in Nat /\ size = z + z /\ CHUNK_LEN <= z
    <3>1. z \in Nat /\ size = z + z
      BY <1>1, <2>1, <2>2, <2>3
    <3>2. 1 * CHUNK_LEN <= h * CHUNK_LEN
      BY <2>2, ChunksOrder
    <3> QED BY <1>1, <2>3, <3>1, <3>2
  <2>5. h * CHUNK_LEN < size /\ size <= 2 * h * CHUNK_LEN /\ size \in 0 .. MaxLength
    <3>1. 2 * h * CHUNK_LEN = size
      BY <1>1, <2>1, <2>2
    <3> QED BY <1>1, <1>6, <2>3, <2>4, <3>1
  <2>6. Half(Chunks(size)) = h /\ CHUNK_LEN < size
    BY <2>5, HalfOfLength
  <2>7. PICK u, v : u = ValueOf(key, flags, byte, c, h) /\ v = ValueOf(key, flags, byte, c + h, h)
    OBVIOUS
  <2>8. compress_subtree_wide(input, key, c, flags) = <<u, v>>
    <3>1. size \in Nat \ {0} /\ x + size <= MaxLength
      BY <1>1, <1>6
    <3>2. compress_subtree_wide(input, key, c, flags) = WideOf(key, flags, byte, c, size)
      BY <1>5, <3>1, WideIs
    <3>3. ~(size <= CHUNK_LEN)
      BY <1>1, <1>6, <2>6
    <3>4. size - z = z
      BY <2>4
    <3> QED BY <2>3, <2>6, <2>7, <3>2, <3>3, <3>4 DEF WideOf, ValueOf
  <2>9. compress_subtree_to_parent_node(input, key, c, flags) = <<u, v>>
    <3>1. SubSeq(<<u, v>>, 1, 2) = <<u, v>>
      BY WholePart, TuplesAre
    <3> QED BY <2>8, <3>1 DEF compress_subtree_to_parent_node
  <2>10. q \div 2 = h /\ <<u, v>>[1] = u /\ <<u, v>>[2] = v
    BY <2>1, <2>2
  <2>11. PICK fn : fn = hasher_push_cv(hasher_push_cv(self, u, c), v, c + h)
    OBVIOUS
  <2>12. PICK e \in Nat : e = popcnt(c) + 2
    BY <1>1
  <2>13. Holds(fn, chunk, e, c + q, key, flags, byte)
    <3>1. (c + 2 * h) * CHUNK_LEN <= MaxLength
      BY <1>5, <1>6, <2>1
    <3>2. Divides(2 * h, c)
      BY <2>1
    <3>3. Holds(self, chunk, d, c, key, flags, byte)
      BY <1>3
    <3>4. Holds(hasher_push_cv(hasher_push_cv(self, ValueOf(key, flags, byte, c, h), c),
                               ValueOf(key, flags, byte, c + h, h), c + h), chunk,
                popcnt(c) + 2, c + 2 * h, key, flags, byte)
      BY <3>1, <3>2, <3>3, PairHolds
    <3> QED BY <2>1, <2>7, <2>11, <2>12, <3>4
  <2>14. PushSubtree(self, input, size) = Counted(fn, q)
    <3>1. ~(size <= CHUNK_LEN)
      BY <1>1, <1>6, <2>6
    <3> QED BY <1>4, <1>8, <2>9, <2>10, <2>11, <3>1 DEF PushSubtree, Counted
  <2>15. Holds(Counted(fn, q), ChunkOf(key, flags, byte, c + q, 0), e, c + q, key, flags, byte)
    <3>1. q \in Nat
      BY <1>1
    <3> QED BY <1>2, <2>13, <3>1, CountHolds
  <2>16. 0 <= e /\ 2 <= e
    BY <1>1, <2>12
  <2> QED BY <2>14, <2>15, <2>16 DEF Clear
<1> QED BY <1>9, <1>10

-----------------------------------------------------------------------------
(* The turns of an update                                                  *)

TurnOf(before, input) ==
  IF Len(input) - before.at <= CHUNK_LEN THEN before
  ELSE [hasher |-> PushSubtree(before.hasher,
                     SubSeq(input, before.at + 1,
                            before.at + SubtreeLen(before.hasher, Len(input) - before.at)),
                     SubtreeLen(before.hasher, Len(input) - before.at)),
        at |-> before.at + SubtreeLen(before.hasher, Len(input) - before.at)]

Turns(f, n, self, input) ==
  [k \in 0 .. n |-> IF k = 0 THEN [hasher |-> self, at |-> 0] ELSE TurnOf(f[k - 1], input)]

AllTurns(n, self, input) == CHOOSE f : f = Turns(f, n, self, input)

LEMMA TurnsExist ==
  ASSUME NEW n \in Nat, NEW self, NEW input
  PROVE  \E f : f = Turns(f, n, self, input)
<1> DEFINE T == {m \in 0 .. n : \E f : f = Turns(f, m, self, input)}
           first == [hasher |-> self, at |-> 0]
<1>1. 0 \in T
  <2> DEFINE f == [k \in 0 .. 0 |-> first]
  <2>1. f = [k \in 0 .. 0 |-> IF k = 0 THEN first ELSE TurnOf(f[k - 1], input)]
    <3> HIDE DEF first
    <3> QED OBVIOUS
  <2> HIDE DEF f
  <2>2. f = Turns(f, 0, self, input)
    BY <2>1 DEF Turns
  <2>3. 0 \in 0 .. n
    OBVIOUS
  <2> QED BY <2>2, <2>3
<1>2. ASSUME NEW m \in 1 .. n, m - 1 \in T
      PROVE  m \in T
  <2>1. PICK fn : fn = Turns(fn, m - 1, self, input)
    BY <1>2
  <2>2. \A k \in 0 .. m - 1 : fn[k] = IF k = 0 THEN first ELSE TurnOf(fn[k - 1], input)
    <3>1. \A k \in 0 .. m - 1 : Turns(fn, m - 1, self, input)[k]
                                  = IF k = 0 THEN first ELSE TurnOf(fn[k - 1], input)
      BY DEF Turns
    <3> HIDE DEF first
    <3> QED BY <2>1, <3>1
  <2> DEFINE f == [k \in 0 .. m |-> IF k = m THEN TurnOf(fn[m - 1], input) ELSE fn[k]]
  <2>3. \A k \in 0 .. m : f[k] = IF k = m THEN TurnOf(fn[m - 1], input) ELSE fn[k]
    OBVIOUS
  <2>4. f = [k \in 0 .. m |-> f[k]]
    OBVIOUS
  <2> HIDE DEF f, first
  <2>5. ASSUME NEW k \in 0 .. m
        PROVE  f[k] = IF k = 0 THEN first ELSE TurnOf(f[k - 1], input)
    <3>1. CASE k = m
      <4>1. k # 0 /\ k - 1 \in 0 .. m /\ k - 1 # m
        BY <3>1
      <4>2. f[k - 1] = fn[m - 1]
        BY <2>3, <3>1, <4>1
      <4> QED BY <2>3, <3>1, <4>1, <4>2
    <3>2. CASE k # m
      <4>1. k \in 0 .. m - 1 /\ k - 1 # m /\ (k # 0 => k - 1 \in 0 .. m)
        BY <3>2
      <4>2. k # 0 => f[k - 1] = fn[k - 1]
        BY <2>3, <4>1
      <4> QED BY <2>2, <2>3, <3>2, <4>1, <4>2
    <3> QED BY <3>1, <3>2
  <2>6. f = Turns(f, m, self, input)
    <3>1. [k \in 0 .. m |-> f[k]]
            = [k \in 0 .. m |-> IF k = 0 THEN first ELSE TurnOf(f[k - 1], input)]
      BY <2>5
    <3> QED BY <2>4, <3>1 DEF Turns, first
  <2>7. m \in 0 .. n
    OBVIOUS
  <2> QED BY <2>6, <2>7
<1>3. T = 0 .. n
  <2>1. T \in SUBSET (0 .. n)
    OBVIOUS
  <2> HIDE DEF T
  <2> QED BY <1>1, <1>2, <2>1, UpTo
<1>4. n \in 0 .. n
  OBVIOUS
<1> QED BY <1>3, <1>4

LEMMA TurnsWhole ==
  ASSUME NEW self, NEW input
  PROVE  UpdateSubtrees(self, input)
           = LET n == Len(input) \div CHUNK_LEN
                 last == AllTurns(n, self, input)[n]
                 pushed == last.hasher
                 rest == Drop(input, last.at)
             IN  IF rest = <<>> THEN pushed
                 ELSE hasher_merge_cv_stack(
                        [pushed EXCEPT !.chunk = chunk_state_update(@, rest)],
                        pushed.chunk.chunk_counter)
BY DEF UpdateSubtrees, AllTurns, Turns, TurnOf

-----------------------------------------------------------------------------
(* An update with a clear chunk                                            *)

\* A hasher in the middle of a chunk, everything before it merged.
HoldsEven(h, chunk, d, c, key, flags, byte) ==
  \E st : h = Hasher(key, chunk, st) /\ chunk.flags = flags
          /\ HeldEven(st, d, c, key, flags, byte)

LEMMA MergeHolds ==
  ASSUME NEW key, NEW flags, NEW byte, NEW chunk, NEW h, NEW d \in Nat, NEW c \in Nat,
         c * CHUNK_LEN <= MaxLength, Holds(h, chunk, d, c, key, flags, byte)
  PROVE  HoldsEven(hasher_merge_cv_stack(h, c), chunk, popcnt(c), c, key, flags, byte)
<1>1. PICK st : h = Hasher(key, chunk, st) /\ chunk.flags = flags
                /\ Held(st, d, c, key, flags, byte)
  BY DEF Holds
<1>2. PICK s : /\ hasher_merge_cv_stack(Hasher(key, chunk, st), c) = Hasher(key, chunk, s)
               /\ HeldEven(s, popcnt(c), c, key, flags, byte)
  <2>1. chunk.flags = flags
    BY <1>1
  <2>2. Held(st, d, c, key, flags, byte)
    BY <1>1
  <2> QED BY <2>1, <2>2, MergeIs
<1> QED BY <1>1, <1>2 DEF HoldsEven

\* A turn has taken j chunks of the input, and left more than one only if it is
\* an early turn; what ends with a whole chunk ends with two values.
Taken(t, j, k, m, c, key, flags, byte) ==
  /\ t.at = j * CHUNK_LEN /\ j * CHUNK_LEN <= m
  /\ Clear(t.hasher, 0, c + j, key, flags, byte)
  /\ j * CHUNK_LEN = m => Clear(t.hasher, 2, c + j, key, flags, byte)
  /\ CHUNK_LEN < m - j * CHUNK_LEN => k <= j

LEMMA TurnTakes ==
  ASSUME NEW key, NEW flags, NEW byte, NEW c \in Nat, NEW m \in Nat,
         c * CHUNK_LEN + m <= MaxLength, NEW input, input = Segment(byte, c * CHUNK_LEN, m),
         NEW t, NEW j \in Nat, NEW k \in Nat, Taken(t, j, k, m, c, key, flags, byte)
  PROVE  \E i \in Nat : Taken(TurnOf(t, input), i, k + 1, m, c, key, flags, byte)
<1>1. CHUNK_LEN \in Nat \ {0} /\ MaxLength \in Nat
  BY BlocksAre, MaxLengthIs
<1>2. PICK x, y, z : x = c * CHUNK_LEN /\ y = j * CHUNK_LEN /\ z = (c + j) * CHUNK_LEN
  OBVIOUS
<1>3. x \in Nat /\ y \in Nat /\ z = x + y /\ x + m <= MaxLength /\ y <= m
  <2>1. x \in Nat /\ y \in Nat
    BY <1>2, ChunksOrder
  <2>2. z = x + y
    BY <1>1, <1>2
  <2> QED BY <1>2, <2>1, <2>2 DEF Taken
<1>4. Len(input) = m
  BY <1>2, <1>3, SegmentsAre
<1>5. PICK n : n = m - y
  OBVIOUS
<1>6. n \in Nat /\ y + n = m
  BY <1>3, <1>5
<1>7. t.at = y /\ Clear(t.hasher, 0, c + j, key, flags, byte)
  BY <1>2 DEF Taken
<1>8. CASE n <= CHUNK_LEN
  <2>1. TurnOf(t, input) = t
    BY <1>4, <1>5, <1>7, <1>8 DEF TurnOf
  <2>2. ~(CHUNK_LEN < m - j * CHUNK_LEN)
    BY <1>1, <1>2, <1>5, <1>6, <1>8
  <2>3. Taken(t, j, k + 1, m, c, key, flags, byte)
    BY <2>2 DEF Taken
  <2> QED BY <2>1, <2>3
<1>9. CASE ~(n <= CHUNK_LEN)
  <2>1. CHUNK_LEN < n
    BY <1>1, <1>6, <1>9
  <2>2. k <= j
    BY <1>2, <1>5, <2>1 DEF Taken
  <2>3. t.hasher.chunk.chunk_counter = c + j
    <3>1. PICK d \in Nat : Holds(t.hasher, ChunkOf(key, flags, byte, c + j, 0), d, c + j,
                                 key, flags, byte)
      BY <1>7 DEF Clear
    <3>2. t.hasher.chunk = ChunkOf(key, flags, byte, c + j, 0)
      BY <3>1 DEF Holds, Hasher
    <3>3. c + j \in Nat /\ 0 \in 0 .. CHUNK_LEN
      BY <1>1
    <3> QED BY <3>2, <3>3, ChunkIs
  <2>4. PICK q \in PowersOfTwo : /\ SubtreeLen(t.hasher, n) = q * CHUNK_LEN
                                 /\ q * CHUNK_LEN <= n /\ Divides(q, c + j)
    <3>1. c + j \in Nat
      OBVIOUS
    <3> QED BY <1>6, <2>1, <2>3, <3>1, SubtreeLenIs
  <2>5. q \in Nat \ {0}
    BY PowersAre
  <2>6. PICK size : size = q * CHUNK_LEN
    OBVIOUS
  <2>7. size \in Nat /\ size <= n
    BY <2>4, <2>5, <2>6, ChunksOrder
  <2>8. (c + j + q) * CHUNK_LEN <= MaxLength
    <3>1. (c + j + q) * CHUNK_LEN = z + size
      BY <1>1, <1>2, <2>5, <2>6
    <3> QED BY <1>1, <1>3, <1>6, <2>7, <3>1
  <2>9. SubSeq(input, y + 1, y + size) = Segment(byte, (c + j) * CHUNK_LEN, size)
    <3>1. y + size <= m
      BY <1>3, <1>6, <2>7
    <3>2. Part(Segment(byte, x, m), y, size) = Segment(byte, x + y, size)
      BY <1>3, <2>7, <3>1, SegmentParts
    <3> QED BY <1>2, <1>3, <3>2 DEF Part
  <2>10. PICK piece, h : piece = SubSeq(input, y + 1, y + size)
                         /\ h = PushSubtree(t.hasher, piece, size)
    OBVIOUS
  <2>11. /\ Clear(h, 0, c + j + q, key, flags, byte)
         /\ q # 1 => Clear(h, 2, c + j + q, key, flags, byte)
    <3>1. c + j \in Nat
      OBVIOUS
    <3>2. piece = Segment(byte, (c + j) * CHUNK_LEN, size)
      BY <2>9, <2>10
    <3>3. Divides(q, c + j)
      BY <2>4
    <3> QED BY <1>7, <2>6, <2>8, <2>10, <3>1, <3>2, <3>3, PushSubtreeIs
  <2>12. TurnOf(t, input) = [hasher |-> h, at |-> y + size]
    <3>1. SubtreeLen(t.hasher, n) = size
      BY <2>4, <2>6
    <3> QED BY <1>4, <1>5, <1>7, <1>9, <2>10, <3>1 DEF TurnOf
  <2>13. PICK i \in Nat : i = j + q
    BY <2>5
  <2>14. i * CHUNK_LEN = y + size /\ c + j + q = c + i /\ k + 1 <= i
    <3>1. i * CHUNK_LEN = y + size
      BY <1>1, <1>2, <2>5, <2>6, <2>13
    <3> QED BY <2>2, <2>5, <2>13, <3>1
  <2>15. ASSUME y + size = m
         PROVE  q # 1
    <3>1. size = n
      BY <1>3, <1>6, <2>7, <2>15
    <3>2. size # CHUNK_LEN
      BY <1>1, <2>1, <3>1
    <3> QED BY <1>1, <2>6, <3>2
  <2>16. y + size <= m
    BY <1>3, <1>6, <2>7
  <2>17. Taken([hasher |-> h, at |-> y + size], i, k + 1, m, c, key, flags, byte)
    BY <2>11, <2>14, <2>15, <2>16 DEF Taken
  <2> QED BY <2>12, <2>17
<1> QED BY <1>8, <1>9

\* After the turns there is no more than a chunk left.
LEMMA TurnsTake ==
  ASSUME NEW key, NEW flags, NEW byte, NEW c \in Nat, NEW m \in Nat \ {0},
         c * CHUNK_LEN + m <= MaxLength, NEW input, input = Segment(byte, c * CHUNK_LEN, m),
         NEW self, Clear(self, 0, c, key, flags, byte), NEW n \in Nat
  PROVE  \E j \in Nat : Taken(AllTurns(n, self, input)[n], j, n, m, c, key, flags, byte)
<1> DEFINE f == AllTurns(n, self, input)
           first == [hasher |-> self, at |-> 0]
<1>1. f = Turns(f, n, self, input)
  BY TurnsExist DEF AllTurns
<1> HIDE DEF f
<1>2. \A k \in 0 .. n : f[k] = IF k = 0 THEN first ELSE TurnOf(f[k - 1], input)
  <2>1. \A k \in 0 .. n : Turns(f, n, self, input)[k]
                            = IF k = 0 THEN first ELSE TurnOf(f[k - 1], input)
    BY DEF Turns
  <2> HIDE DEF first
  <2> QED BY <1>1, <2>1
<1> DEFINE T == {k \in 0 .. n : \E j \in Nat : Taken(f[k], j, k, m, c, key, flags, byte)}
<1>3. 0 \in T
  <2>1. 0 \in 0 .. n
    OBVIOUS
  <2>2. f[0] = first
    BY <1>2, <2>1
  <2>3. 0 * CHUNK_LEN = 0 /\ c + 0 = c
    BY BlocksAre
  <2>4. Taken(first, 0, 0, m, c, key, flags, byte)
    BY <2>3 DEF Taken
  <2> HIDE DEF first
  <2> QED BY <2>1, <2>2, <2>4
<1>4. ASSUME NEW k \in 1 .. n, k - 1 \in T
      PROVE  k \in T
  <2>1. PICK j \in Nat : Taken(f[k - 1], j, k - 1, m, c, key, flags, byte)
    BY <1>4
  <2>2. k - 1 \in Nat /\ k - 1 + 1 = k /\ k \in 0 .. n /\ k # 0
    OBVIOUS
  <2>3. \E i \in Nat : Taken(TurnOf(f[k - 1], input), i, k - 1 + 1, m, c, key, flags, byte)
    <3>1. PICK t, l : t = f[k - 1] /\ l = k - 1
      OBVIOUS
    <3>2. l \in Nat /\ Taken(t, j, l, m, c, key, flags, byte)
      BY <2>1, <2>2, <3>1
    <3>3. \E i \in Nat : Taken(TurnOf(t, input), i, l + 1, m, c, key, flags, byte)
      BY <3>2, TurnTakes
    <3> QED BY <3>1, <3>3
  <2>4. f[k] = TurnOf(f[k - 1], input)
    BY <1>2, <2>2
  <2> QED BY <2>2, <2>3, <2>4
<1>5. T = 0 .. n
  <2>1. T \in SUBSET (0 .. n)
    OBVIOUS
  <2> HIDE DEF T
  <2> QED BY <1>3, <1>4, <2>1, UpTo
<1>6. n \in 0 .. n
  OBVIOUS
<1>7. \E j \in Nat : Taken(f[n], j, n, m, c, key, flags, byte)
  BY <1>5, <1>6
<1> QED BY <1>7 DEF f

-----------------------------------------------------------------------------
(* A hasher that has been fed the front of a message                       *)

Whole(h, c, key, flags, byte) ==
  \E d \in Nat \ {1} : Holds(h, ChunkOf(key, flags, byte, c, 0), d, c, key, flags, byte)

Within(h, c, r, key, flags, byte) ==
  \E d \in Nat : HoldsEven(h, ChunkOf(key, flags, byte, c, r), d, c, key, flags, byte)

Ready(h, n, key, flags, byte) ==
  \/ \E c \in Nat : n = c * CHUNK_LEN /\ Whole(h, c, key, flags, byte)
  \/ \E c \in Nat, r \in 1 .. CHUNK_LEN :
       n = c * CHUNK_LEN + r /\ Within(h, c, r, key, flags, byte)

LEMMA WholeIsClear ==
  ASSUME NEW h, NEW c, NEW key, NEW flags, NEW byte
  PROVE  /\ Whole(h, c, key, flags, byte) => Clear(h, 0, c, key, flags, byte)
         /\ Clear(h, 2, c, key, flags, byte) => Whole(h, c, key, flags, byte)
<1>1. ASSUME Whole(h, c, key, flags, byte)
      PROVE  Clear(h, 0, c, key, flags, byte)
  <2>1. PICK d \in Nat \ {1} : Holds(h, ChunkOf(key, flags, byte, c, 0), d, c, key, flags, byte)
    BY <1>1 DEF Whole
  <2>2. 0 <= d /\ d \in Nat
    OBVIOUS
  <2> QED BY <2>1, <2>2 DEF Clear
<1>2. ASSUME Clear(h, 2, c, key, flags, byte)
      PROVE  Whole(h, c, key, flags, byte)
  <2>1. PICK d \in Nat : 2 <= d
                         /\ Holds(h, ChunkOf(key, flags, byte, c, 0), d, c, key, flags, byte)
    BY <1>2 DEF Clear
  <2>2. d \in Nat \ {1}
    BY <2>1
  <2> QED BY <2>1, <2>2 DEF Whole
<1> QED BY <1>1, <1>2

\* What is left after the subtrees goes into the chunk.
Ended(t, input) ==
  IF Drop(input, t.at) = <<>> THEN t.hasher
  ELSE hasher_merge_cv_stack(
         [t.hasher EXCEPT !.chunk = chunk_state_update(@, Drop(input, t.at))],
         t.hasher.chunk.chunk_counter)

LEMMA ChunkFilled ==
  ASSUME NEW key, NEW chunk, NEW st, NEW more
  PROVE  [Hasher(key, chunk, st) EXCEPT !.chunk = more] = Hasher(key, more, st)
BY DEF Hasher

\* An update of a hasher whose chunk is clear.
LEMMA SubtreesUpdate ==
  ASSUME NEW key, NEW flags, NEW byte, NEW c \in Nat, NEW m \in Nat \ {0},
         NEW from, from = c * CHUNK_LEN, from + m <= MaxLength,
         NEW input, input = Segment(byte, from, m),
         NEW self, Clear(self, 0, c, key, flags, byte)
  PROVE  Ready(UpdateSubtrees(self, input), from + m, key, flags, byte)
<1>1. CHUNK_LEN \in Nat \ {0} /\ MaxLength \in Nat /\ from \in Nat
  BY BlocksAre, MaxLengthIs, ChunksOrder
<1>2. Len(input) = m
  BY <1>1, SegmentsAre
<1>3. PICK n : n = m \div CHUNK_LEN
  OBVIOUS
<1>4. n \in Nat /\ m < (n + 1) * CHUNK_LEN
  <2>1. n \in Nat /\ m % CHUNK_LEN \in 0 .. CHUNK_LEN - 1 /\ m = CHUNK_LEN * n + (m % CHUNK_LEN)
    BY <1>1, <1>3, QuotientRemainder
  <2>2. (n + 1) * CHUNK_LEN = CHUNK_LEN * n + CHUNK_LEN
    BY <1>1, <2>1
  <2>3. PICK w \in Nat : w = CHUNK_LEN * n
    BY <1>1, <2>1
  <2> QED BY <1>1, <2>1, <2>2, <2>3
<1>5. PICK t : t = AllTurns(n, self, input)[n]
  OBVIOUS
<1>6. PICK j \in Nat : Taken(t, j, n, m, c, key, flags, byte)
  BY <1>4, <1>5, TurnsTake
<1>7. PICK y, r : y = j * CHUNK_LEN /\ r = m - y
  OBVIOUS
<1>8. y \in Nat /\ y <= m /\ r \in Nat /\ m = y + r /\ t.at = y
  <2>1. y \in Nat /\ y <= m /\ t.at = y
    BY <1>6, <1>7, ChunksOrder DEF Taken
  <2> QED BY <1>7, <2>1
<1>9. r <= CHUNK_LEN
  <2>1. SUFFICES ASSUME CHUNK_LEN < r PROVE FALSE
    BY <1>1, <1>8
  <2>2. n <= j
    BY <1>6, <1>7, <2>1 DEF Taken
  <2>3. PICK w : w = n * CHUNK_LEN
    OBVIOUS
  <2>4. w <= y /\ w \in Nat
    BY <1>4, <1>7, <2>2, <2>3, ChunksOrder
  <2>5. (n + 1) * CHUNK_LEN = w + CHUNK_LEN
    BY <1>1, <1>4, <2>3
  <2> QED BY <1>1, <1>4, <1>8, <2>1, <2>4, <2>5
<1>10. (c + j) * CHUNK_LEN = from + y /\ c + j \in Nat
  BY <1>1, <1>7
<1>11. Drop(input, t.at) = Segment(byte, from + y, r)
  BY <1>1, <1>8, SegmentRest
<1>12. UpdateSubtrees(self, input) = Ended(t, input)
  BY <1>2, <1>3, <1>5, TurnsWhole DEF Ended
<1>13. CASE r = 0
  <2>1. Drop(input, t.at) = <<>>
    <3>1. from + y \in Nat
      BY <1>1, <1>8
    <3> QED BY <1>8, <1>11, <1>13, <3>1, SegmentsAre
  <2>2. y = m
    BY <1>8, <1>13
  <2>3. Clear(t.hasher, 2, c + j, key, flags, byte)
    BY <1>6, <1>7, <2>2 DEF Taken
  <2>4. Whole(t.hasher, c + j, key, flags, byte)
    BY <2>3, WholeIsClear
  <2>5. from + m = (c + j) * CHUNK_LEN
    BY <1>10, <2>2
  <2> QED BY <1>10, <1>12, <2>1, <2>4, <2>5 DEF Ended, Ready
<1>14. CASE r # 0
  <2>1. Drop(input, t.at) # <<>>
    <3>1. PICK fn \in Nat : fn = from + y
      BY <1>1, <1>8
    <3>2. Segment(byte, fn, r) = <<>> <=> r = 0
      BY <1>8, SegmentsAre
    <3> QED BY <1>11, <1>14, <3>1, <3>2
  <2>2. PICK d \in Nat : Holds(t.hasher, ChunkOf(key, flags, byte, c + j, 0), d, c + j,
                               key, flags, byte)
    BY <1>6 DEF Taken, Clear
  <2>3. PICK st : /\ t.hasher = Hasher(key, ChunkOf(key, flags, byte, c + j, 0), st)
                  /\ Held(st, d, c + j, key, flags, byte)
    BY <2>2 DEF Holds
  <2>4. /\ t.hasher.chunk = ChunkOf(key, flags, byte, c + j, 0)
        /\ t.hasher.chunk.chunk_counter = c + j
    <3>1. t.hasher.chunk = ChunkOf(key, flags, byte, c + j, 0)
      BY <2>3 DEF Hasher
    <3>2. 0 \in 0 .. CHUNK_LEN
      BY <1>1
    <3> QED BY <1>10, <3>1, <3>2, ChunkIs
  <2>5. chunk_state_update(ChunkOf(key, flags, byte, c + j, 0), Segment(byte, from + y, r))
          = ChunkOf(key, flags, byte, c + j, r)
    <3>1. chunk_state_update(chunk_state_init(key, flags, c + j),
                             Segment(byte, (c + j) * CHUNK_LEN, r))
            = ChunkOf(key, flags, byte, c + j, r)
      BY <1>8, <1>9, <1>10, NewChunkUpdate
    <3> QED BY <1>10, <3>1, NewChunk
  <2>6. PICK chunk : chunk = ChunkOf(key, flags, byte, c + j, r)
    OBVIOUS
  <2>7. [t.hasher EXCEPT !.chunk = chunk_state_update(@, Drop(input, t.at))]
          = Hasher(key, chunk, st)
    <3>1. [t.hasher EXCEPT !.chunk = chunk_state_update(@, Drop(input, t.at))]
            = [t.hasher EXCEPT !.chunk = chunk_state_update(t.hasher.chunk, Drop(input, t.at))]
      OBVIOUS
    <3>2. chunk_state_update(t.hasher.chunk, Drop(input, t.at)) = chunk
      BY <1>11, <2>4, <2>5, <2>6
    <3>3. [t.hasher EXCEPT !.chunk = chunk] = Hasher(key, chunk, st)
      BY <2>3, ChunkFilled
    <3> QED BY <3>1, <3>2, <3>3
  <2>8. Holds(Hasher(key, chunk, st), chunk, d, c + j, key, flags, byte)
    <3>1. r \in 0 .. CHUNK_LEN
      BY <1>1, <1>8, <1>9
    <3>2. chunk.flags = flags
      BY <1>10, <2>6, <3>1, ChunkIs
    <3> QED BY <2>3, <3>2 DEF Holds
  <2>9. HoldsEven(hasher_merge_cv_stack(Hasher(key, chunk, st), c + j), chunk,
                  popcnt(c + j), c + j, key, flags, byte)
    <3>1. (c + j) * CHUNK_LEN <= MaxLength
      BY <1>1, <1>8, <1>10
    <3> QED BY <1>10, <2>8, <3>1, MergeHolds
  <2>10. Within(UpdateSubtrees(self, input), c + j, r, key, flags, byte)
    <3>1. UpdateSubtrees(self, input)
            = hasher_merge_cv_stack(Hasher(key, chunk, st), c + j)
      BY <1>12, <2>1, <2>4, <2>7 DEF Ended
    <3>2. popcnt(c + j) \in Nat
      BY BitsAreFinite
    <3> QED BY <2>6, <2>9, <3>1, <3>2 DEF Within
  <2>11. r \in 1 .. CHUNK_LEN /\ from + m = (c + j) * CHUNK_LEN + r
    BY <1>1, <1>8, <1>9, <1>10, <1>14
  <2> QED BY <1>10, <2>10, <2>11 DEF Ready
<1> QED BY <1>13, <1>14

-----------------------------------------------------------------------------
(* An update                                                               *)

WithChunk(h, more) == [h EXCEPT !.chunk = more]

LEMMA WithChunkHolds ==
  ASSUME NEW key, NEW flags, NEW byte, NEW chunk, NEW h, NEW d, NEW c,
         NEW more, more.flags = flags
  PROVE  /\ Holds(h, chunk, d, c, key, flags, byte)
              => Holds(WithChunk(h, more), more, d, c, key, flags, byte)
         /\ HoldsEven(h, chunk, d, c, key, flags, byte)
              => HoldsEven(WithChunk(h, more), more, d, c, key, flags, byte)
<1>1. \A st : WithChunk(Hasher(key, chunk, st), more) = Hasher(key, more, st)
  BY ChunkFilled DEF WithChunk
<1> QED BY <1>1 DEF Holds, HoldsEven

LEMMA HeldByEven ==
  ASSUME NEW key, NEW flags, NEW byte, NEW chunk, NEW h, NEW d, NEW c
  PROVE  /\ HoldsEven(h, chunk, d, c, key, flags, byte)
              => Holds(h, chunk, d, c, key, flags, byte)
         /\ Holds(h, chunk, d, c, key, flags, byte) => h.chunk = chunk /\ h.key = key
BY HeldIfEven DEF Holds, HoldsEven, Hasher

LEMMA ChunkReset ==
  ASSUME NEW key, NEW flags, NEW byte, NEW c, NEW n, NEW other, NEW counter
  PROVE  chunk_state_reset(ChunkOf(key, flags, byte, c, n), other, counter)
           = chunk_state_init(other, flags, counter)
<1>1. PICK q, u, cv, buf : q = LastBlock(n) /\ u = n - q * BLOCK_LEN /\ cv = Link(key, flags, byte, c)[q]
               /\ buf = Padded(byte, c * CHUNK_LEN + q * BLOCK_LEN, u)
  OBVIOUS
<1>2. PICK s, s1, s2, s3, s4, s5 :
        /\ s = State(cv, c, buf, u, q, flags) /\ s1 = State(other, c, buf, u, q, flags)
        /\ s2 = State(other, counter, buf, u, q, flags)
        /\ s3 = State(other, counter, Zeros, u, q, flags)
        /\ s4 = State(other, counter, Zeros, 0, q, flags)
        /\ s5 = State(other, counter, Zeros, 0, 0, flags)
  OBVIOUS
<1>3. ChunkOf(key, flags, byte, c, n) = s
  BY <1>1, <1>2 DEF ChunkOf, ChunkState
<1>4. [s EXCEPT !.cv = other] = s1
  BY <1>2 DEF State
<1>5. [s1 EXCEPT !.chunk_counter = counter] = s2
  BY <1>2 DEF State
<1>6. [s2 EXCEPT !.buf = Zeros] = s3
  BY <1>2 DEF State
<1>7. [s3 EXCEPT !.buf_len = 0] = s4
  BY <1>2 DEF State
<1>8. [s4 EXCEPT !.blocks_compressed = 0] = s5
  BY <1>2 DEF State
<1>9. s5 = chunk_state_init(other, flags, counter)
  BY <1>2 DEF State, chunk_state_init
<1>10. chunk_state_reset(s, other, counter)
         = [[[[[s EXCEPT !.cv = other] EXCEPT !.chunk_counter = counter]
              EXCEPT !.buf = Zeros] EXCEPT !.buf_len = 0] EXCEPT !.blocks_compressed = 0]
  BY DEF chunk_state_reset
<1>11. chunk_state_reset(s, other, counter) = s5
  BY <1>4, <1>5, <1>6, <1>7, <1>8, <1>10
<1> QED BY <1>3, <1>9, <1>11

LEMMA OneDivides ==
  ASSUME NEW c \in Nat
  PROVE  1 \in PowersOfTwo /\ Divides(1, c)
<1>1. power_of_two[0] = 1 /\ 0 \in 0 .. SIZE_BITS - 1
  BY PowerSteps, Lengths
<1>2. 1 \in PowersOfTwo
  BY <1>1, PowersAre
<1>3. c = 1 * c
  OBVIOUS
<1> QED BY <1>2, <1>3 DEF Divides

\* The steps of an update within a chunk.
TakeOf(h, input) ==
  IF CHUNK_LEN - chunk_state_len(h.chunk) > Len(input) THEN Len(input)
  ELSE CHUNK_LEN - chunk_state_len(h.chunk)

Filled(h, input, take) == WithChunk(h, chunk_state_update(h.chunk, SubSeq(input, 1, take)))

Pushed(h) ==
  hasher_push_cv(h, output_chaining_value(chunk_state_output(h.chunk)), h.chunk.chunk_counter)

Cleared(h, key) == WithChunk(h, chunk_state_reset(h.chunk, key, h.chunk.chunk_counter + 1))

LEMMA UpdateSteps ==
  ASSUME NEW h, NEW input
  PROVE  blake3_hasher_update(h, input)
           = IF input = <<>> THEN h
             ELSE IF chunk_state_len(h.chunk) = 0 THEN UpdateSubtrees(h, input)
             ELSE IF TakeOf(h, input) = Len(input) THEN Filled(h, input, TakeOf(h, input))
             ELSE UpdateSubtrees(Cleared(Pushed(Filled(h, input, TakeOf(h, input))), h.key),
                                 Drop(input, TakeOf(h, input)))
BY DEF blake3_hasher_update, TakeOf, Filled, Pushed, Cleared, WithChunk

\* A chunk that is full is pushed when more comes.
LEMMA ChunkPushed ==
  ASSUME NEW key, NEW flags, NEW byte, NEW c \in Nat, (c + 1) * CHUNK_LEN <= MaxLength,
         NEW h, NEW d \in Nat,
         Holds(h, ChunkOf(key, flags, byte, c, CHUNK_LEN), d, c, key, flags, byte)
  PROVE  Clear(Cleared(Pushed(h), key), 0, c + 1, key, flags, byte)
<1>1. CHUNK_LEN \in Nat \ {0} /\ MaxLength \in Nat
  BY BlocksAre, MaxLengthIs
<1>2. PICK x : x = c * CHUNK_LEN
  OBVIOUS
<1>3. x \in Nat /\ x + CHUNK_LEN <= MaxLength /\ x <= MaxLength
  <2>1. x \in Nat /\ (c + 1) * CHUNK_LEN = x + CHUNK_LEN
    BY <1>1, <1>2
  <2> QED BY <1>1, <2>1
<1>4. PICK chunk : chunk = ChunkOf(key, flags, byte, c, CHUNK_LEN)
  OBVIOUS
<1>5. CHUNK_LEN \in 0 .. CHUNK_LEN
  BY <1>1
<1>6. chunk.chunk_counter = c /\ chunk.flags = flags
  BY <1>4, <1>5, ChunkIs
<1>7. output_chaining_value(chunk_state_output(chunk)) = ValueOf(key, flags, byte, c, 1)
  <2>1. output_chaining_value(chunk_state_output(chunk))
          = FirstBytes(TreeChunk(key, flags, byte, c, CHUNK_LEN))
    BY <1>4, <1>5, ChunkIs
  <2>2. NodeOf(key, flags, byte, c, CHUNK_LEN) = TreeChunk(key, flags, byte, c, CHUNK_LEN)
    BY <1>2, <1>3, <1>5, NodeOfChunk
  <2>3. 1 * CHUNK_LEN = CHUNK_LEN
    BY <1>1
  <2> QED BY <2>1, <2>2, <2>3 DEF ValueOf
<1>8. PICK fn : fn = Pushed(h)
  OBVIOUS
<1>9. h.chunk = chunk
  BY <1>4, HeldByEven
<1>10. fn = hasher_push_cv(h, ValueOf(key, flags, byte, c, 1), c)
  BY <1>6, <1>7, <1>8, <1>9 DEF Pushed
<1>11. PICK e \in Nat : e = popcnt(c) + 1
  BY BitsAreFinite
<1>12. Holds(fn, chunk, e, c + 1, key, flags, byte)
  <2>1. c * CHUNK_LEN <= MaxLength
    BY <1>2, <1>3
  <2>2. 1 \in PowersOfTwo /\ Divides(1, c)
    BY OneDivides
  <2>3. Holds(h, chunk, d, c, key, flags, byte)
    BY <1>4
  <2> QED BY <1>10, <1>11, <2>1, <2>2, <2>3, PushHolds
<1>13. PICK clear : clear = ChunkOf(key, flags, byte, c + 1, 0)
  OBVIOUS
<1>14. Cleared(fn, key) = WithChunk(fn, clear)
  <2>1. fn.chunk = chunk
    BY <1>12, HeldByEven
  <2>2. chunk_state_reset(chunk, key, c + 1) = chunk_state_init(key, flags, c + 1)
    BY <1>4, ChunkReset
  <2>3. chunk_state_init(key, flags, c + 1) = clear
    BY <1>13, NewChunk
  <2> QED BY <1>6, <2>1, <2>2, <2>3 DEF Cleared
<1>15. clear.flags = flags
  <2>1. c + 1 \in Nat /\ 0 \in 0 .. CHUNK_LEN
    BY <1>1
  <2> QED BY <1>13, <2>1, ChunkIs
<1>16. Holds(WithChunk(fn, clear), clear, e, c + 1, key, flags, byte)
  BY <1>12, <1>15, WithChunkHolds
<1>17. 0 <= e
  OBVIOUS
<1> QED BY <1>8, <1>13, <1>14, <1>16, <1>17 DEF Clear

LEMMA WholeUpdate ==
  ASSUME NEW key, NEW flags, NEW byte, NEW n \in Nat, NEW m \in Nat \ {0}, n + m <= MaxLength,
         NEW h, NEW c \in Nat, n = c * CHUNK_LEN, Whole(h, c, key, flags, byte),
         NEW input, input = Segment(byte, n, m)
  PROVE  Ready(blake3_hasher_update(h, input), n + m, key, flags, byte)
<1>1. Clear(h, 0, c, key, flags, byte)
  BY WholeIsClear
<1>2. input # <<>>
  BY SegmentsAre
<1>3. chunk_state_len(h.chunk) = 0
  <2>1. PICK d \in Nat : Holds(h, ChunkOf(key, flags, byte, c, 0), d, c, key, flags, byte)
    BY <1>1 DEF Clear
  <2>2. h.chunk = ChunkOf(key, flags, byte, c, 0)
    BY <2>1, HeldByEven
  <2>3. 0 \in 0 .. CHUNK_LEN
    BY BlocksAre
  <2> QED BY <2>2, <2>3, ChunkIs
<1>4. blake3_hasher_update(h, input) = UpdateSubtrees(h, input)
  BY <1>2, <1>3, UpdateSteps
<1>5. Ready(UpdateSubtrees(h, input), n + m, key, flags, byte)
  BY <1>1, SubtreesUpdate
<1> QED BY <1>4, <1>5

LEMMA WithinUpdate ==
  ASSUME NEW key, NEW flags, NEW byte, NEW n \in Nat, NEW m \in Nat \ {0}, n + m <= MaxLength,
         NEW h, NEW c \in Nat, NEW r \in 1 .. CHUNK_LEN, n = c * CHUNK_LEN + r,
         Within(h, c, r, key, flags, byte),
         NEW input, input = Segment(byte, n, m)
  PROVE  Ready(blake3_hasher_update(h, input), n + m, key, flags, byte)
<1>1. CHUNK_LEN \in Nat \ {0} /\ MaxLength \in Nat /\ r \in Nat /\ r <= CHUNK_LEN /\ r # 0
  BY BlocksAre, MaxLengthIs
<1>2. PICK x : x = c * CHUNK_LEN
  OBVIOUS
<1>3. x \in Nat /\ n = x + r
  BY <1>2, ChunksOrder
<1>4. PICK d \in Nat : HoldsEven(h, ChunkOf(key, flags, byte, c, r), d, c, key, flags, byte)
  BY DEF Within
<1>5. h.chunk = ChunkOf(key, flags, byte, c, r) /\ h.key = key
  BY <1>4, HeldByEven
<1>6. chunk_state_len(h.chunk) = r
  <2>1. r \in 0 .. CHUNK_LEN
    BY <1>1
  <2> QED BY <1>5, <2>1, ChunkIs
<1>7. input # <<>> /\ Len(input) = m
  BY SegmentsAre
<1>8. PICK take : take = TakeOf(h, input)
  OBVIOUS
<1>9. /\ take \in Nat /\ take <= m /\ r + take <= CHUNK_LEN
      /\ take # m => r + take = CHUNK_LEN
  <2>1. take = IF CHUNK_LEN - r > m THEN m ELSE CHUNK_LEN - r
    BY <1>6, <1>7, <1>8 DEF TakeOf
  <2> QED BY <1>1, <2>1
<1>10. PICK rest \in Nat : m = take + rest
  <2>1. m - take \in Nat /\ m = take + (m - take)
    BY <1>9
  <2> QED BY <2>1
<1>11. PICK chunk : chunk = ChunkOf(key, flags, byte, c, r + take)
  OBVIOUS
<1>12. chunk_state_update(h.chunk, SubSeq(input, 1, take)) = chunk
  <2>1. SubSeq(input, 1, take) = Segment(byte, x + r, take)
    <3>1. 0 + take <= m /\ n + 0 = n
      BY <1>9
    <3>2. Part(Segment(byte, n, m), 0, take) = Segment(byte, n + 0, take)
      BY <1>9, <3>1, SegmentParts
    <3>3. 0 + 1 = 1 /\ 0 + take = take
      BY <1>9
    <3> QED BY <1>3, <3>1, <3>2, <3>3 DEF Part
  <2>2. chunk_state_update(ChunkOf(key, flags, byte, c, r),
                           Segment(byte, c * CHUNK_LEN + r, take))
          = ChunkOf(key, flags, byte, c, r + take)
    <3>1. r \in Nat
      BY <1>1
    <3>2. take \in Nat
      BY <1>9
    <3>3. r + take <= CHUNK_LEN
      BY <1>9
    <3> QED BY <3>1, <3>2, <3>3, ChunkUpdate
  <2> QED BY <1>2, <1>5, <1>11, <2>1, <2>2
<1>13. PICK fn : fn = Filled(h, input, take)
  OBVIOUS
<1>14. HoldsEven(fn, chunk, d, c, key, flags, byte)
  <2>1. fn = WithChunk(h, chunk)
    BY <1>12, <1>13 DEF Filled
  <2>2. r + take \in 0 .. CHUNK_LEN
    BY <1>1, <1>9
  <2>3. chunk.flags = flags
    BY <1>11, <2>2, ChunkIs
  <2> QED BY <1>4, <2>1, <2>3, WithChunkHolds
<1>15. CASE take = m
  <2>1. blake3_hasher_update(h, input) = fn
    BY <1>1, <1>6, <1>7, <1>8, <1>13, <1>15, UpdateSteps
  <2>2. PICK s : s = r + m
    OBVIOUS
  <2>3. s \in 1 .. CHUNK_LEN /\ n + m = c * CHUNK_LEN + s
    BY <1>1, <1>2, <1>3, <1>9, <1>15, <2>2
  <2>4. Within(fn, c, s, key, flags, byte)
    BY <1>11, <1>14, <1>15, <2>2 DEF Within
  <2> QED BY <2>1, <2>3, <2>4 DEF Ready
<1>16. CASE take # m
  <2>1. blake3_hasher_update(h, input)
          = UpdateSubtrees(Cleared(Pushed(fn), key), Drop(input, take))
    BY <1>1, <1>5, <1>6, <1>7, <1>8, <1>13, <1>16, UpdateSteps
  <2>2. r + take = CHUNK_LEN /\ rest \in Nat \ {0} /\ n + m = x + CHUNK_LEN + rest
    BY <1>1, <1>3, <1>9, <1>10, <1>16
  <2>3. PICK y : y = (c + 1) * CHUNK_LEN
    OBVIOUS
  <2>4. y = x + CHUNK_LEN /\ y \in Nat /\ y + rest = n + m
    BY <1>1, <1>2, <1>3, <2>2, <2>3
  <2>5. y <= MaxLength /\ y + rest <= MaxLength
    BY <1>1, <2>2, <2>4
  <2>6. Holds(fn, ChunkOf(key, flags, byte, c, CHUNK_LEN), d, c, key, flags, byte)
    BY <1>11, <1>14, <2>2, HeldByEven
  <2>7. PICK clear : clear = Cleared(Pushed(fn), key)
    OBVIOUS
  <2>8. Clear(clear, 0, c + 1, key, flags, byte)
    BY <2>3, <2>5, <2>6, <2>7, ChunkPushed
  <2>9. Drop(input, take) = Segment(byte, y, rest)
    <3>1. Drop(Segment(byte, n, m), take) = Segment(byte, n + take, rest)
      BY <1>9, <1>10, SegmentRest
    <3>2. n + take = y
      BY <1>1, <1>3, <1>9, <2>2, <2>4
    <3> QED BY <3>1, <3>2
  <2>10. Ready(UpdateSubtrees(clear, Drop(input, take)), y + rest, key, flags, byte)
    <3>1. c + 1 \in Nat
      OBVIOUS
    <3>2. PICK more : more = Drop(input, take)
      OBVIOUS
    <3>3. Ready(UpdateSubtrees(clear, more), y + rest, key, flags, byte)
      BY <2>2, <2>3, <2>5, <2>8, <2>9, <3>1, <3>2, SubtreesUpdate
    <3> QED BY <3>2, <3>3
  <2> QED BY <2>1, <2>4, <2>7, <2>10
<1> QED BY <1>15, <1>16

\* An update of any hasher.
LEMMA UpdateKeepsReady ==
  ASSUME NEW key, NEW flags, NEW byte, NEW n \in Nat, NEW m \in Nat, n + m <= MaxLength,
         NEW h, Ready(h, n, key, flags, byte), NEW input, input = Segment(byte, n, m)
  PROVE  Ready(blake3_hasher_update(h, input), n + m, key, flags, byte)
<1>1. CASE m = 0
  <2>1. input = <<>> /\ n + m = n
    <3>1. Segment(byte, n, m) = <<>> <=> m = 0
      BY SegmentsAre
    <3> QED BY <1>1, <3>1
  <2>2. blake3_hasher_update(h, input) = h
    BY <2>1, UpdateSteps
  <2> QED BY <2>1, <2>2
<1>2. CASE m # 0
  <2>1. m \in Nat \ {0}
    BY <1>2
  <2>2. CASE \E c \in Nat : n = c * CHUNK_LEN /\ Whole(h, c, key, flags, byte)
    BY <2>1, <2>2, WholeUpdate
  <2>3. CASE \E c \in Nat, r \in 1 .. CHUNK_LEN :
               n = c * CHUNK_LEN + r /\ Within(h, c, r, key, flags, byte)
    BY <2>1, <2>3, WithinUpdate
  <2> QED BY <2>2, <2>3 DEF Ready
<1> QED BY <1>1, <1>2

-----------------------------------------------------------------------------
(* The stack rolled up                                                     *)

IsNode(x) == \E cv, block, len, counter, f : x = Node(cv, block, len, counter, f)

LEMMA NodesAre ==
  ASSUME NEW key, NEW flags, NEW byte, NEW length \in Nat,
         NEW chunk \in Nat, chunk * CHUNK_LEN + length <= MaxLength
  PROVE  IsNode(NodeOf(key, flags, byte, chunk, length))
<1>1. CHUNK_LEN \in Nat \ {0} /\ MaxLength \in Nat /\ chunk * CHUNK_LEN \in Nat
  BY BlocksAre, MaxLengthIs, ChunksOrder
<1>2. CASE length <= CHUNK_LEN
  <2>1. length \in 0 .. CHUNK_LEN
    BY <1>1, <1>2
  <2>2. NodeOf(key, flags, byte, chunk, length) = TreeChunk(key, flags, byte, chunk, length)
    BY <2>1, NodeOfChunk
  <2>3. IsNode(TreeChunk(key, flags, byte, chunk, length))
    <3>1. PICK from, q, u : from = chunk * CHUNK_LEN /\ q = LastBlock(length)
                            /\ u = length - q * BLOCK_LEN
      OBVIOUS
    <3>2. TreeChunk(key, flags, byte, chunk, length)
            = Node(Link(key, flags, byte, chunk)[q], Padded(byte, from + q * BLOCK_LEN, u), u,
                   chunk, flags \cup Start(q) \cup {"CHUNK_END"})
      BY <2>1, <3>1, TreeChunkIs
    <3> QED BY <3>2, Zenon DEF IsNode
  <2> QED BY <2>2, <2>3
<1>3. CASE ~(length <= CHUNK_LEN)
  <2>1. length \in 0 .. MaxLength /\ CHUNK_LEN < length
    BY <1>1, <1>3
  <2>2. PICK p \in PowersOfTwo : p * CHUNK_LEN < length /\ length <= 2 * p * CHUNK_LEN
    BY <2>1, HalvesAre
  <2>3. NodeOf(key, flags, byte, chunk, length)
          = Parent(Joined(FirstBytes(NodeOf(key, flags, byte, chunk, p * CHUNK_LEN)),
                          FirstBytes(NodeOf(key, flags, byte, chunk + p,
                                            length - p * CHUNK_LEN))), key, flags)
    BY <2>2, NodeOfHalves
  <2> QED BY <2>3 DEF Parent, IsNode
<1> QED BY <1>2, <1>3

LEMMA ValueOfOutput ==
  ASSUME NEW x, IsNode(x)
  PROVE  output_chaining_value(OutputOf(x)) = FirstBytes(x)
BY OutputIs DEF IsNode

\* What finalize makes of the stack: from the top down, each value is the left
\* half of a node whose right half is what was above it.
Up(f, n, first, st, key, flags) ==
  [k \in 0 .. n |->
     IF k = 0 THEN first
     ELSE parent_output(st[n - k + 1] \o output_chaining_value(f[k - 1]), key, flags)]

Rolled(n, first, st, key, flags) == CHOOSE f : f = Up(f, n, first, st, key, flags)

UpFrom(f, n, m, first, st, key, flags) ==
  [k \in 0 .. m |->
     IF k = 0 THEN first
     ELSE parent_output(Joined(st[n - k + 1], output_chaining_value(f[k - 1])), key, flags)]

LEMMA UpsExist ==
  ASSUME NEW n \in Nat, NEW first, NEW st, NEW key, NEW flags
  PROVE  \E f : f = Up(f, n, first, st, key, flags)
<1> DEFINE T == {m \in 0 .. n : \E f : f = UpFrom(f, n, m, first, st, key, flags)}
           Step(x, k) == parent_output(Joined(st[n - k + 1], output_chaining_value(x)), key, flags)
<1>1. 0 \in T
  <2> DEFINE f == [k \in 0 .. 0 |-> first]
  <2>1. f = [k \in 0 .. 0 |-> IF k = 0 THEN first ELSE Step(f[k - 1], k)]
    <3> HIDE DEF Step
    <3> QED OBVIOUS
  <2> HIDE DEF f
  <2>2. f = UpFrom(f, n, 0, first, st, key, flags)
    BY <2>1 DEF UpFrom
  <2>3. 0 \in 0 .. n
    OBVIOUS
  <2> QED BY <2>2, <2>3
<1>2. ASSUME NEW m \in 1 .. n, m - 1 \in T
      PROVE  m \in T
  <2>1. PICK fn : fn = UpFrom(fn, n, m - 1, first, st, key, flags)
    BY <1>2
  <2>2. \A k \in 0 .. m - 1 : fn[k] = IF k = 0 THEN first ELSE Step(fn[k - 1], k)
    <3>1. \A k \in 0 .. m - 1 : UpFrom(fn, n, m - 1, first, st, key, flags)[k]
                                  = IF k = 0 THEN first ELSE Step(fn[k - 1], k)
      BY DEF UpFrom
    <3> HIDE DEF Step
    <3> QED BY <2>1, <3>1
  <2> DEFINE f == [k \in 0 .. m |-> IF k = m THEN Step(fn[m - 1], m) ELSE fn[k]]
  <2> HIDE DEF Step
  <2>3. \A k \in 0 .. m : f[k] = IF k = m THEN Step(fn[m - 1], m) ELSE fn[k]
    OBVIOUS
  <2>4. f = [k \in 0 .. m |-> f[k]]
    OBVIOUS
  <2> HIDE DEF f
  <2>5. ASSUME NEW k \in 0 .. m
        PROVE  f[k] = IF k = 0 THEN first ELSE Step(f[k - 1], k)
    <3>1. CASE k = m
      <4>1. k # 0 /\ k - 1 \in 0 .. m /\ k - 1 # m
        BY <3>1
      <4>2. f[k - 1] = fn[m - 1]
        BY <2>3, <3>1, <4>1
      <4> QED BY <2>3, <3>1, <4>1, <4>2
    <3>2. CASE k # m
      <4>1. k \in 0 .. m - 1 /\ k - 1 # m /\ (k # 0 => k - 1 \in 0 .. m)
        BY <3>2
      <4>2. k # 0 => f[k - 1] = fn[k - 1]
        BY <2>3, <4>1
      <4> QED BY <2>2, <2>3, <3>2, <4>1, <4>2
    <3> QED BY <3>1, <3>2
  <2>6. f = UpFrom(f, n, m, first, st, key, flags)
    <3>1. [k \in 0 .. m |-> f[k]]
            = [k \in 0 .. m |-> IF k = 0 THEN first ELSE Step(f[k - 1], k)]
      BY <2>5
    <3> QED BY <2>4, <3>1 DEF UpFrom, Step
  <2>7. m \in 0 .. n
    OBVIOUS
  <2> QED BY <2>6, <2>7
<1>3. T = 0 .. n
  <2>1. T \in SUBSET (0 .. n)
    OBVIOUS
  <2> HIDE DEF T
  <2> QED BY <1>1, <1>2, <2>1, UpTo
<1>4. n \in 0 .. n
  OBVIOUS
<1>5. PICK f : f = UpFrom(f, n, n, first, st, key, flags)
  BY <1>3, <1>4
<1>6. f = Up(f, n, first, st, key, flags)
  BY <1>5 DEF Up, UpFrom, Joined
<1> QED BY <1>6

\* The rest of a message of n bytes from chunk x on.
RestOf(key, flags, byte, x, n) == NodeOf(key, flags, byte, x, n - x * CHUNK_LEN)

\* One value, and what is above it.
LEMMA RollStep ==
  ASSUME NEW key, NEW flags, NEW byte, NEW n \in Nat, n <= MaxLength,
         NEW x \in Nat, NEW p \in PowersOfTwo,
         (x + p) * CHUNK_LEN < n, n <= (x + 2 * p) * CHUNK_LEN
  PROVE  /\ parent_output(Joined(FirstBytes(NodeOf(key, flags, byte, x, p * CHUNK_LEN)),
                                 output_chaining_value(OutputOf(RestOf(key, flags, byte, x + p, n)))),
                          key, flags)
              = OutputOf(RestOf(key, flags, byte, x, n))
         /\ parent_output(Joined(FirstBytes(NodeOf(key, flags, byte, x, p * CHUNK_LEN)),
                                 FirstBytes(RestOf(key, flags, byte, x + p, n))), key, flags)
              = OutputOf(RestOf(key, flags, byte, x, n))
<1>1. CHUNK_LEN \in Nat \ {0} /\ MaxLength \in Nat /\ p \in Nat \ {0}
  BY BlocksAre, MaxLengthIs, PowersAre
<1>2. PICK y, z : y = x * CHUNK_LEN /\ z = p * CHUNK_LEN
  OBVIOUS
<1>3. y \in Nat /\ z \in Nat /\ (x + p) * CHUNK_LEN = y + z /\ (x + 2 * p) * CHUNK_LEN = y + z + z
  BY <1>1, <1>2
<1>4. PICK w : w = n - y
  OBVIOUS
<1>5. /\ w \in Nat /\ y + w = n /\ z < w /\ w <= z + z /\ w - z \in Nat
      /\ y + z + (w - z) = n /\ n - (y + z) = w - z
  BY <1>3, <1>4
<1>6. NodeOf(key, flags, byte, x, w)
        = Parent(Joined(FirstBytes(NodeOf(key, flags, byte, x, p * CHUNK_LEN)),
                        FirstBytes(NodeOf(key, flags, byte, x + p, w - p * CHUNK_LEN))), key, flags)
  <2>1. p * CHUNK_LEN < w /\ w <= 2 * p * CHUNK_LEN /\ x * CHUNK_LEN + w <= MaxLength
    <3>1. 2 * p * CHUNK_LEN = z + z
      BY <1>1, <1>2
    <3> QED BY <1>2, <1>5, <3>1
  <2> QED BY <1>5, <2>1, NodeOfHalves
<1>7. RestOf(key, flags, byte, x + p, n) = NodeOf(key, flags, byte, x + p, w - p * CHUNK_LEN)
      /\ RestOf(key, flags, byte, x, n) = NodeOf(key, flags, byte, x, w)
  BY <1>2, <1>3, <1>4, <1>5 DEF RestOf
<1>8. IsNode(RestOf(key, flags, byte, x + p, n))
  <2>1. PICK u : u = w - p * CHUNK_LEN
    OBVIOUS
  <2>2. u \in Nat /\ (x + p) * CHUNK_LEN + u <= MaxLength /\ x + p \in Nat
    BY <1>1, <1>2, <1>3, <1>5, <2>1
  <2>3. IsNode(NodeOf(key, flags, byte, x + p, u))
    BY <2>2, NodesAre
  <2> QED BY <1>7, <2>1, <2>3
<1>9. output_chaining_value(OutputOf(RestOf(key, flags, byte, x + p, n)))
        = FirstBytes(RestOf(key, flags, byte, x + p, n))
  BY <1>8, ValueOfOutput
<1> QED BY <1>6, <1>7, <1>9, ParentIs

\* From the top on every value of the stack is a left half.
LEMMA RollUp ==
  ASSUME NEW key, NEW flags, NEW byte, NEW n \in Nat, n <= MaxLength,
         NEW st, NEW b, NEW d \in Nat, NEW c \in Nat,
         Shape(b, d, c), Values(st, b, d, key, flags, byte),
         NEW r \in 0 .. d,
         \A i \in 1 .. r : b[i] * CHUNK_LEN < n
                           /\ n <= (b[i - 1] + 2 * Size(b, i)) * CHUNK_LEN,
         NEW first, first = OutputOf(RestOf(key, flags, byte, b[r], n))
  PROVE  Rolled(r, first, st, key, flags)[r] = OutputOf(NodeOf(key, flags, byte, 0, n))
<1> DEFINE f == Rolled(r, first, st, key, flags)
<1>1. f = Up(f, r, first, st, key, flags)
  <2>1. r \in Nat
    OBVIOUS
  <2> QED BY <2>1, UpsExist DEF Rolled
<1> HIDE DEF f
<1>2. \A k \in 0 .. r :
        f[k] = IF k = 0 THEN first
               ELSE parent_output(Joined(st[r - k + 1], output_chaining_value(f[k - 1])), key, flags)
  <2>1. \A k \in 0 .. r :
          Up(f, r, first, st, key, flags)[k]
            = IF k = 0 THEN first
              ELSE parent_output(Joined(st[r - k + 1], output_chaining_value(f[k - 1])), key, flags)
    BY DEF Up, Joined
  <2> QED BY <1>1, <2>1
<1> DEFINE T == {k \in 0 .. r : f[k] = OutputOf(RestOf(key, flags, byte, b[r - k], n))}
<1>3. 0 \in T
  <2>1. 0 \in 0 .. r /\ r - 0 = r
    OBVIOUS
  <2> QED BY <1>2, <2>1
<1>4. ASSUME NEW k \in 1 .. r, k - 1 \in T
      PROVE  k \in T
  <2>1. PICK i : i = r - k + 1
    OBVIOUS
  <2>2. i \in 1 .. r /\ i \in 1 .. d /\ i - 1 = r - k /\ r - (k - 1) = i /\ k \in 0 .. r /\ k # 0
    BY <2>1
  <2>3. PICK x, p : x = b[i - 1] /\ p = Size(b, i)
    OBVIOUS
  <2>4. x \in Nat /\ p \in PowersOfTwo /\ b[i] = x + p
    BY <2>2, <2>3, SizesAre
  <2>5. (x + p) * CHUNK_LEN < n /\ n <= (x + 2 * p) * CHUNK_LEN
    BY <2>2, <2>3, <2>4
  <2>6. st[i] = FirstBytes(NodeOf(key, flags, byte, x, p * CHUNK_LEN))
    BY <2>2, <2>3 DEF Values
  <2>7. f[k - 1] = OutputOf(RestOf(key, flags, byte, x + p, n))
    BY <1>4, <2>2, <2>4
  <2>8. f[k] = parent_output(Joined(FirstBytes(NodeOf(key, flags, byte, x, p * CHUNK_LEN)),
                                    output_chaining_value(OutputOf(RestOf(key, flags, byte, x + p, n)))),
                             key, flags)
    BY <1>2, <2>1, <2>2, <2>6, <2>7
  <2>9. f[k] = OutputOf(RestOf(key, flags, byte, x, n))
    BY <2>4, <2>5, <2>8, RollStep
  <2> QED BY <2>2, <2>3, <2>9
<1>5. T = 0 .. r
  <2>1. T \in SUBSET (0 .. r) /\ r \in Nat
    OBVIOUS
  <2> HIDE DEF T
  <2> QED BY <1>3, <1>4, <2>1, UpTo
<1>6. r \in 0 .. r /\ r - r = 0
  OBVIOUS
<1>7. f[r] = OutputOf(RestOf(key, flags, byte, b[0], n))
  BY <1>5, <1>6
<1>8. RestOf(key, flags, byte, b[0], n) = NodeOf(key, flags, byte, 0, n)
  <2>1. b[0] = 0 /\ n - 0 * CHUNK_LEN = n
    BY BlocksAre DEF Shape
  <2> QED BY <2>1 DEF RestOf
<1> QED BY <1>7, <1>8 DEF f

RemainingOf(h) ==
  IF chunk_state_len(h.chunk) > 0 THEN Len(h.cv_stack) ELSE Len(h.cv_stack) - 2

FirstOf(h) ==
  IF chunk_state_len(h.chunk) > 0 \/ h.cv_stack = <<>> THEN chunk_state_output(h.chunk)
  ELSE parent_output(h.cv_stack[RemainingOf(h) + 1] \o h.cv_stack[RemainingOf(h) + 2],
                     h.key, h.chunk.flags)

RootOf(h) ==
  IF h.cv_stack = <<>> THEN FirstOf(h)
  ELSE Rolled(RemainingOf(h), FirstOf(h), h.cv_stack, h.key, h.chunk.flags)[RemainingOf(h)]

\* finalize rolls the stack up to an output.
LEMMA FinalizeSteps ==
  ASSUME NEW h, NEW seek, NEW out_len
  PROVE  blake3_hasher_finalize_seek(h, seek, out_len)
           = IF out_len = 0 THEN <<>> ELSE output_root_bytes(RootOf(h), seek, out_len)
BY DEF blake3_hasher_finalize_seek, RootOf, FirstOf, RemainingOf, Rolled, Up

\* With a chunk in progress, that is where it begins.
LEMMA WithinRoot ==
  ASSUME NEW key, NEW flags, NEW byte, NEW n \in Nat, n <= MaxLength,
         NEW h, NEW c \in Nat, NEW r \in 1 .. CHUNK_LEN, n = c * CHUNK_LEN + r,
         Within(h, c, r, key, flags, byte)
  PROVE  RootOf(h) = OutputOf(NodeOf(key, flags, byte, 0, n))
<1>1. CHUNK_LEN \in Nat \ {0} /\ r \in Nat /\ r <= CHUNK_LEN /\ r \in 0 .. CHUNK_LEN
  BY BlocksAre
<1>2. PICK d \in Nat : HoldsEven(h, ChunkOf(key, flags, byte, c, r), d, c, key, flags, byte)
  BY DEF Within
<1>3. PICK st : /\ h = Hasher(key, ChunkOf(key, flags, byte, c, r), st)
                /\ HeldEven(st, d, c, key, flags, byte)
  BY <1>2 DEF HoldsEven
<1>4. PICK b : Shape(b, d, c) /\ Values(st, b, d, key, flags, byte) /\ Even(b, d)
  BY <1>3 DEF HeldEven
<1>5. h.key = key /\ h.chunk = ChunkOf(key, flags, byte, c, r) /\ h.cv_stack = st
  BY <1>3 DEF Hasher
<1>6. chunk_state_len(h.chunk) = r /\ h.chunk.flags = flags
  BY <1>1, <1>5, ChunkIs
<1>7. PICK x : x = c * CHUNK_LEN
  OBVIOUS
<1>8. x \in Nat /\ n = x + r /\ n - x = r
  BY <1>1, <1>7, ChunksOrder
<1>9. FirstOf(h) = OutputOf(RestOf(key, flags, byte, c, n))
  <2>1. FirstOf(h) = chunk_state_output(ChunkOf(key, flags, byte, c, r))
    BY <1>1, <1>5, <1>6 DEF FirstOf
  <2>2. chunk_state_output(ChunkOf(key, flags, byte, c, r))
          = OutputOf(TreeChunk(key, flags, byte, c, r))
    BY <1>1, ChunkIs
  <2>3. NodeOf(key, flags, byte, c, r) = TreeChunk(key, flags, byte, c, r)
    BY <1>1, NodeOfChunk
  <2> QED BY <1>7, <1>8, <2>1, <2>2, <2>3 DEF RestOf
<1>10. b[0] = 0 /\ b[d] = c
  BY <1>4 DEF Shape
<1>11. Sequence(st, d) /\ Len(st) = d /\ (st = <<>> <=> d = 0)
  BY <1>4, SequencesAre DEF Values
<1>12. RemainingOf(h) = d
  BY <1>1, <1>5, <1>6, <1>11 DEF RemainingOf
<1>13. CASE d = 0
  <2>1. RootOf(h) = FirstOf(h)
    BY <1>5, <1>11, <1>13 DEF RootOf
  <2>2. c = 0 /\ n - c * CHUNK_LEN = n
    BY <1>1, <1>10, <1>13
  <2> QED BY <1>9, <2>1, <2>2 DEF RestOf
<1>14. CASE d # 0
  <2>1. RootOf(h) = Rolled(d, FirstOf(h), st, key, flags)[d]
    BY <1>5, <1>6, <1>11, <1>12, <1>14 DEF RootOf
  <2>2. ASSUME NEW i \in 1 .. d
        PROVE  b[i] * CHUNK_LEN < n /\ n <= (b[i - 1] + 2 * Size(b, i)) * CHUNK_LEN
    <3>1. PICK u, v, p : u = b[i - 1] /\ v = b[i] /\ p = Size(b, i)
      OBVIOUS
    <3>2. u \in Nat /\ v \in Nat /\ p \in Nat \ {0} /\ v = u + p
      BY <1>4, <3>1, SizesAre
    <3>3. v <= c /\ c - v < p
      BY <1>4, <3>1, AboveIs
    <3>4. PICK w \in Nat : w = u + 2 * p
      BY <3>2
    <3>5. c < w
      BY <3>2, <3>3, <3>4
    <3>6. PICK y, z : y = v * CHUNK_LEN /\ z = w * CHUNK_LEN
      OBVIOUS
    <3>7. y <= x /\ x + CHUNK_LEN <= z /\ y \in Nat /\ z \in Nat
      BY <1>7, <3>2, <3>3, <3>5, <3>6, ChunksOrder
    <3>8. y < n /\ n <= z
      BY <1>1, <1>8, <3>7
    <3> QED BY <3>1, <3>4, <3>6, <3>8
  <2>3. d \in 0 .. d
    OBVIOUS
  <2>4. FirstOf(h) = OutputOf(RestOf(key, flags, byte, b[d], n))
    BY <1>9, <1>10
  <2>5. PICK first : first = FirstOf(h)
    OBVIOUS
  <2>6. Rolled(d, first, st, key, flags)[d] = OutputOf(NodeOf(key, flags, byte, 0, n))
    BY <1>4, <2>2, <2>3, <2>4, <2>5, RollUp
  <2> QED BY <2>1, <2>5, <2>6
<1> QED BY <1>13, <1>14

\* Without one, the top two values begin it.
LEMMA WholeRoot ==
  ASSUME NEW key, NEW flags, NEW byte, NEW n \in Nat, n <= MaxLength,
         NEW h, NEW c \in Nat, n = c * CHUNK_LEN, Whole(h, c, key, flags, byte)
  PROVE  RootOf(h) = OutputOf(NodeOf(key, flags, byte, 0, n))
<1>1. CHUNK_LEN \in Nat \ {0} /\ 0 \in 0 .. CHUNK_LEN
  BY BlocksAre
<1>2. PICK d \in Nat \ {1} : Holds(h, ChunkOf(key, flags, byte, c, 0), d, c, key, flags, byte)
  BY DEF Whole
<1>3. PICK st : /\ h = Hasher(key, ChunkOf(key, flags, byte, c, 0), st)
                /\ Held(st, d, c, key, flags, byte)
  BY <1>2 DEF Holds
<1>4. PICK b : Shape(b, d, c) /\ Values(st, b, d, key, flags, byte)
  BY <1>3 DEF Held
<1>5. h.key = key /\ h.chunk = ChunkOf(key, flags, byte, c, 0) /\ h.cv_stack = st
  BY <1>3 DEF Hasher
<1>6. chunk_state_len(h.chunk) = 0 /\ h.chunk.flags = flags
  BY <1>1, <1>5, ChunkIs
<1>7. b[0] = 0 /\ b[d] = c
  BY <1>4 DEF Shape
<1>8. d \in Nat /\ Sequence(st, d) /\ Len(st) = d /\ (st = <<>> <=> d = 0)
  BY <1>4, SequencesAre DEF Values
<1>9. CASE d = 0
  <2>1. RootOf(h) = chunk_state_output(ChunkOf(key, flags, byte, c, 0))
    BY <1>5, <1>8, <1>9 DEF RootOf, FirstOf
  <2>2. c = 0 /\ n = 0
    BY <1>1, <1>7, <1>9
  <2>3. chunk_state_output(ChunkOf(key, flags, byte, c, 0))
          = OutputOf(TreeChunk(key, flags, byte, c, 0))
    BY <1>1, ChunkIs
  <2>4. NodeOf(key, flags, byte, c, 0) = TreeChunk(key, flags, byte, c, 0)
    <3>1. c * CHUNK_LEN + 0 <= MaxLength
      BY <2>2
    <3> QED BY <1>1, <3>1, NodeOfChunk
  <2> QED BY <2>1, <2>2, <2>3, <2>4
<1>10. CASE d # 0
  <2>1. PICK r : r = d - 2
    OBVIOUS
  <2>2. /\ r \in Nat /\ r \in 0 .. d /\ r + 1 = d - 1 /\ r + 2 = d /\ r + 1 - 1 = r
        /\ r + 1 \in 1 .. d /\ r + 2 \in 1 .. d /\ r + 1 \in 1 .. d - 1 /\ r + 2 - 1 = r + 1
    BY <1>8, <1>10, <2>1
  <2>3. PICK x, p, q : x = b[r] /\ p = Size(b, r + 1) /\ q = Size(b, r + 2)
    OBVIOUS
  <2>4. /\ x \in Nat /\ p \in PowersOfTwo /\ p \in Nat \ {0} /\ b[r + 1] = x + p
        /\ q \in Nat \ {0} /\ c = x + p + q /\ q <= p
    <3>1. x \in Nat /\ p \in PowersOfTwo /\ p \in Nat \ {0} /\ b[r + 1] = x + p
      BY <1>4, <2>2, <2>3, <1>8, SizesAre
    <3>2. q \in Nat \ {0} /\ b[r + 2] = b[r + 1] + q
      BY <1>4, <2>2, <2>3, <1>8, SizesAre
    <3>3. r + 1 + 1 = r + 2
      BY <2>2
    <3>4. q <= p
      BY <1>4, <1>8, <2>2, <2>3, <3>3, SizesFall
    <3> QED BY <1>7, <2>2, <3>1, <3>2, <3>4
  <2>5. RemainingOf(h) = r
    BY <1>5, <1>6, <1>8, <2>1 DEF RemainingOf
  <2>6. st[r + 1] = FirstBytes(NodeOf(key, flags, byte, x, p * CHUNK_LEN))
    BY <1>4, <2>2, <2>3 DEF Values
  <2>7. st[r + 2] = FirstBytes(RestOf(key, flags, byte, x + p, n))
    <3>1. st[r + 2] = FirstBytes(NodeOf(key, flags, byte, x + p, q * CHUNK_LEN))
      BY <1>4, <2>2, <2>3, <2>4 DEF Values
    <3>2. n - (x + p) * CHUNK_LEN = q * CHUNK_LEN
      <4>1. PICK u, v : u = (x + p) * CHUNK_LEN /\ v = q * CHUNK_LEN
        OBVIOUS
      <4>2. u \in Nat /\ v \in Nat /\ n = u + v
        BY <1>1, <2>4, <4>1
      <4> QED BY <4>1, <4>2
    <3> QED BY <3>1, <3>2 DEF RestOf
  <2>8. (x + p) * CHUNK_LEN < n /\ n <= (x + 2 * p) * CHUNK_LEN
    <3>1. PICK u, v \in Nat : u = x + p /\ v = x + 2 * p
      BY <2>4
    <3>2. u \in Nat /\ u < c /\ c <= v
      BY <2>4, <3>1
    <3>3. u * CHUNK_LEN < c * CHUNK_LEN /\ c * CHUNK_LEN <= v * CHUNK_LEN
      BY <3>2, ChunksOrder
    <3> QED BY <3>1, <3>3
  <2>9. FirstOf(h) = OutputOf(RestOf(key, flags, byte, b[r], n))
    <3>1. FirstOf(h) = parent_output(Joined(st[r + 1], st[r + 2]), key, flags)
      BY <1>5, <1>6, <1>8, <1>10, <2>5 DEF FirstOf, Joined
    <3>2. parent_output(Joined(FirstBytes(NodeOf(key, flags, byte, x, p * CHUNK_LEN)),
                               FirstBytes(RestOf(key, flags, byte, x + p, n))), key, flags)
            = OutputOf(RestOf(key, flags, byte, x, n))
      BY <2>4, <2>8, RollStep
    <3> QED BY <2>3, <2>6, <2>7, <3>1, <3>2
  <2>10. RootOf(h) = Rolled(r, FirstOf(h), st, key, flags)[r]
    BY <1>5, <1>6, <1>8, <1>10, <2>5 DEF RootOf
  <2>11. ASSUME NEW i \in 1 .. r
         PROVE  b[i] * CHUNK_LEN < n /\ n <= (b[i - 1] + 2 * Size(b, i)) * CHUNK_LEN
    <3>1. i \in 1 .. d /\ i < d
      BY <2>2
    <3>2. PICK u, v, s : u = b[i - 1] /\ v = b[i] /\ s = Size(b, i)
      OBVIOUS
    <3>3. u \in Nat /\ v \in Nat /\ s \in Nat \ {0} /\ v = u + s
      BY <1>4, <1>8, <3>1, <3>2, SizesAre
    <3>4. v < c /\ c - v <= s
      BY <1>4, <1>8, <3>1, <3>2, AboveIs
    <3>5. PICK w \in Nat : w = u + 2 * s
      BY <3>3
    <3>6. c <= w
      BY <3>3, <3>4, <3>5
    <3>7. v * CHUNK_LEN < c * CHUNK_LEN /\ c * CHUNK_LEN <= w * CHUNK_LEN
      BY <3>3, <3>4, <3>6, ChunksOrder
    <3> QED BY <3>2, <3>5, <3>7
  <2>12. PICK first : first = FirstOf(h)
    OBVIOUS
  <2>13. Rolled(r, first, st, key, flags)[r] = OutputOf(NodeOf(key, flags, byte, 0, n))
    BY <1>4, <1>8, <2>2, <2>9, <2>11, <2>12, RollUp
  <2> QED BY <2>10, <2>12, <2>13
<1> QED BY <1>9, <1>10

\* finalize finds the root of the tree.
LEMMA RootIs ==
  ASSUME NEW key, NEW flags, NEW byte, NEW n \in Nat, n <= MaxLength,
         NEW h, Ready(h, n, key, flags, byte)
  PROVE  RootOf(h) = OutputOf(NodeOf(key, flags, byte, 0, n))
<1>1. CASE \E c \in Nat : n = c * CHUNK_LEN /\ Whole(h, c, key, flags, byte)
  BY <1>1, WholeRoot
<1>2. CASE \E c \in Nat, r \in 1 .. CHUNK_LEN :
             n = c * CHUNK_LEN + r /\ Within(h, c, r, key, flags, byte)
  BY <1>2, WithinRoot
<1> QED BY <1>1, <1>2 DEF Ready

-----------------------------------------------------------------------------
(* The bytes of the root                                                   *)

Flat(f, seqs) == [i \in 1 .. Len(seqs) |-> IF i = 1 THEN seqs[i] ELSE f[i - 1] \o seqs[i]]

\* What the pieces of the output are put together to.
LEMMA FlattenIs ==
  ASSUME NEW seqs
  PROVE  FlattenSeq(seqs) = IF Len(seqs) = 0 THEN seqs
                            ELSE (CHOOSE f : f = Flat(f, seqs))[Len(seqs)]
BY DEF FlattenSeq, Flat

LEMMA SegmentsMeet ==
  ASSUME NEW byte, NEW x \in Nat, NEW y \in Nat, NEW z \in Nat, x <= y, y <= z
  PROVE  Joined(Segment(byte, x, y - x), Segment(byte, y, z - y)) = Segment(byte, x, z - x)
<1>1. PICK u : u = y - x
  OBVIOUS
<1>2. PICK v : v = z - y
  OBVIOUS
<1>3. u \in Nat /\ v \in Nat /\ x + u = y /\ u + v = z - x
  BY <1>1, <1>2
<1>4. Joined(Segment(byte, x, u), Segment(byte, x + u, v)) = Segment(byte, x, u + v)
  BY <1>3, SegmentsJoin
<1> QED BY <1>1, <1>2, <1>3, <1>4

\* Segments that follow one another, one after the other.
LEMMA FlattenSegments ==
  ASSUME NEW byte, NEW k \in Nat \ {0}, NEW E,
         \A i \in 0 .. k : E[i] \in Nat, \A i \in 1 .. k : E[i - 1] <= E[i],
         NEW seqs, Sequence(seqs, k),
         \A i \in 1 .. k : seqs[i] = Segment(byte, E[i - 1], E[i] - E[i - 1])
  PROVE  FlattenSeq(seqs) = Segment(byte, E[0], E[k] - E[0])
<1> DEFINE So(i) == Segment(byte, E[0], E[i] - E[0])
<1>1. Len(seqs) = k /\ k # 0 /\ k \in 1 .. k /\ 0 \in 0 .. k /\ k \in 0 .. k
  <2>1. k \in Nat
    OBVIOUS
  <2>2. Len(seqs) = k
    BY <2>1, SequencesAre
  <2> QED BY <2>2
<1>2. ASSUME NEW i \in 1 .. k
      PROVE  /\ i = 1 => seqs[i] = So(i)
             /\ E[0] <= E[i - 1] => Joined(So(i - 1), seqs[i]) = So(i) /\ E[0] <= E[i]
  <2>1. i \in 0 .. k /\ i - 1 \in 0 .. k
    OBVIOUS
  <2>2. PICK x, y, z \in Nat : x = E[0] /\ y = E[i - 1] /\ z = E[i]
    BY <1>1, <2>1
  <2>3. y <= z /\ z - y \in Nat
    BY <2>2
  <2>4. i = 1 => seqs[i] = So(i)
    BY <2>2
  <2>5. ASSUME x <= y
        PROVE  Joined(So(i - 1), seqs[i]) = So(i) /\ E[0] <= E[i]
    <3>2. x <= z
      BY <2>3, <2>5
    <3>3. Joined(Segment(byte, x, y - x), Segment(byte, y, z - y)) = Segment(byte, x, z - x)
      BY <2>3, <2>5, SegmentsMeet, ZenonT(40)
    <3>4. So(i - 1) = Segment(byte, x, y - x) /\ seqs[i] = Segment(byte, y, z - y)
          /\ So(i) = Segment(byte, x, z - x)
      BY <2>2
    <3> HIDE DEF So
    <3> QED BY <2>2, <3>2, <3>3, <3>4
  <2> HIDE DEF So
  <2> QED BY <2>2, <2>4, <2>5
<1>3. \A i \in 0 .. k : E[0] <= E[i]
  <2> DEFINE T == {i \in 0 .. k : E[0] <= E[i]}
  <2>1. 0 \in T /\ T \in SUBSET (0 .. k)
    <3>1. E[0] \in Nat
      BY <1>1
    <3> QED BY <1>1, <3>1
  <2>2. ASSUME NEW i \in 1 .. k, i - 1 \in T
        PROVE  i \in T
    <3>1. i \in 0 .. k /\ E[0] <= E[i - 1]
      BY <2>2
    <3> QED BY <1>2, <3>1
  <2>3. T = 0 .. k
    <3> HIDE DEF T
    <3>1. k \in Nat
      OBVIOUS
    <3> QED BY <2>1, <2>2, <3>1, UpTo
  <2> QED BY <2>3
<1>4. ASSUME NEW i \in 1 .. k
      PROVE  IF i = 1 THEN seqs[i] = So(i) ELSE Joined(So(i - 1), seqs[i]) = So(i)
  <2>1. i - 1 \in 0 .. k
    OBVIOUS
  <2>2. E[0] <= E[i - 1]
    BY <1>3, <2>1
  <2> HIDE DEF So
  <2> QED BY <1>2, <2>2
<1> DEFINE fn == [i \in 1 .. k |-> So(i)]
<1>5. fn = Flat(fn, seqs)
  <2>1. \A i \in 1 .. k : fn[i] = IF i = 1 THEN seqs[i] ELSE Joined(fn[i - 1], seqs[i])
    <3>1. ASSUME NEW i \in 1 .. k
          PROVE  fn[i] = IF i = 1 THEN seqs[i] ELSE Joined(fn[i - 1], seqs[i])
      <4>1. fn[i] = So(i) /\ (i # 1 => fn[i - 1] = So(i - 1))
        <5>1. i # 1 => i - 1 \in 1 .. k
          OBVIOUS
        <5> HIDE DEF So
        <5> QED BY <5>1
      <4> HIDE DEF So, fn
      <4> QED BY <1>4, <4>1
    <3> QED BY <3>1
  <2>2. fn = [i \in 1 .. k |-> fn[i]]
    OBVIOUS
  <2> HIDE DEF fn
  <2>3. [i \in 1 .. k |-> fn[i]]
          = [i \in 1 .. k |-> IF i = 1 THEN seqs[i] ELSE Joined(fn[i - 1], seqs[i])]
    BY <2>1
  <2> QED BY <1>1, <2>2, <2>3 DEF Flat, Joined
<1> DEFINE f == CHOOSE f : f = Flat(f, seqs)
<1>6. f = Flat(f, seqs)
  <2> HIDE DEF fn
  <2> QED BY <1>5
<1>7. FlattenSeq(seqs) = f[k]
  BY <1>1, FlattenIs
<1> HIDE DEF f, fn, So
<1>8. \A i \in 1 .. k : f[i] = IF i = 1 THEN seqs[i] ELSE Joined(f[i - 1], seqs[i])
  <2>1. \A i \in 1 .. k :
          Flat(f, seqs)[i] = IF i = 1 THEN seqs[i] ELSE Joined(f[i - 1], seqs[i])
    BY <1>1 DEF Flat, Joined
  <2> QED BY <1>6, <2>1
<1> DEFINE T == {i \in 0 .. k : i = 0 \/ f[i] = So(i)}
<1>9. T = 0 .. k
  <2>1. 0 \in T /\ T \in SUBSET (0 .. k)
    BY <1>1
  <2>2. ASSUME NEW i \in 1 .. k, i - 1 \in T
        PROVE  i \in T
    <3>1. i \in 0 .. k /\ (i # 1 => i - 1 # 0)
      OBVIOUS
    <3>2. i # 1 => f[i - 1] = So(i - 1)
      BY <2>2, <3>1
    <3> QED BY <1>4, <1>8, <3>1, <3>2
  <2>3. k \in Nat
    OBVIOUS
  <2> HIDE DEF T
  <2> QED BY <2>1, <2>2, <2>3, UpTo
<1>10. f[k] = So(k)
  BY <1>1, <1>9
<1> QED BY <1>7, <1>10 DEF So

RootBytes(x) == [j \in Nat |-> TreeByte(x, j - 1)]

RootBlock(x, a) ==
  compress_xof(OutputOf(x).input_cv, OutputOf(x).block, OutputOf(x).block_len, a,
               OutputOf(x).flags \cup {"ROOT"})

\* What one block of the output gives.
LEMMA BlockOfRoot ==
  ASSUME NEW x, IsNode(x), NEW a \in Nat, NEW first \in Nat, NEW taken \in Nat,
         first < BLOCK_LEN, first + taken <= BLOCK_LEN, NEW from \in Nat, from = a * BLOCK_LEN + first
  PROVE  Part(RootBlock(x, a), first, taken) = Segment(RootBytes(x), from, taken)
<1>1. BLOCK_LEN \in Nat \ {0} /\ from \in Nat
  BY BlocksAre
<1>2. PICK cv, block, len, counter, f : x = Node(cv, block, len, counter, f)
  BY DEF IsNode
<1>3. /\ OutputOf(x).input_cv = cv /\ OutputOf(x).block = block /\ OutputOf(x).block_len = len
      /\ OutputOf(x).flags = f
  BY <1>2 DEF OutputOf, make_output, Node
<1>4. PICK r : r = [x EXCEPT !.counter = a, !.flags = @ \cup {"ROOT"}]
  OBVIOUS
<1>5. r = Node(cv, block, len, a, f \cup {"ROOT"})
  <2>1. [Node(cv, block, len, counter, f) EXCEPT !.counter = a] = Node(cv, block, len, a, f)
    BY DEF Node
  <2>2. [Node(cv, block, len, a, f) EXCEPT !.flags = f \cup {"ROOT"}]
          = Node(cv, block, len, a, f \cup {"ROOT"})
    <3>1. PICK fn : fn = f \cup {"ROOT"}
      OBVIOUS
    <3>2. [Node(cv, block, len, a, f) EXCEPT !.flags = fn] = Node(cv, block, len, a, fn)
      BY DEF Node
    <3> QED BY <3>1, <3>2
  <2>3. x.flags = f
    BY <1>2 DEF Node
  <2>4. r = [x EXCEPT !.counter = a, !.flags = f \cup {"ROOT"}]
    BY <1>2, <1>4 DEF Node
  <2>5. r = [[x EXCEPT !.counter = a] EXCEPT !.flags = f \cup {"ROOT"}]
    BY <2>4
  <2> QED BY <1>2, <2>1, <2>2, <2>5
<1> DEFINE wide == compress_xof(cv, block, len, a, f \cup {"ROOT"})
<1>6. \A i \in 1 .. BLOCK_LEN : wide[i] = [of |-> r, byte |-> i]
  BY <1>5 DEF compress_xof, Node
<1> HIDE DEF wide
<1>7. SubSeq(wide, first + 1, first + taken) = [i \in 1 .. taken |-> wide[first + i]]
  BY PartsAre
<1>8. ASSUME NEW i \in 1 .. taken
      PROVE  wide[first + i] = RootBytes(x)[from + i]
  <2>1. first + i \in 1 .. BLOCK_LEN /\ i \in Nat
    BY <1>1
  <2>2. PICK u \in Nat : u = first + i - 1
    BY <2>1
  <2>3. u \in 0 .. BLOCK_LEN - 1 /\ u + 1 = first + i
    BY <1>1, <2>1, <2>2
  <2>4. PICK w : w = BLOCK_LEN * a
    OBVIOUS
  <2>5. from + i - 1 = w + u /\ w \in Nat
    <3>1. a * BLOCK_LEN = w /\ w \in Nat
      BY <1>1, <2>4
    <3> QED BY <2>2, <3>1
  <2>6. (w + u) \div BLOCK_LEN = a /\ (w + u) % BLOCK_LEN = u
    <3>1. (BLOCK_LEN * a + u) \div BLOCK_LEN = a /\ (BLOCK_LEN * a + u) % BLOCK_LEN = u
      BY <1>1, <2>3, Quotient
    <3> QED BY <2>4, <3>1
  <2>7. RootBytes(x)[from + i] = TreeByte(x, from + i - 1)
    <3>1. from + i \in Nat
      BY <1>1, <2>1
    <3> QED BY <3>1 DEF RootBytes
  <2>8. TreeByte(x, w + u) = [of |-> r, byte |-> u + 1]
    BY <1>4, <2>6 DEF TreeByte
  <2>9. wide[first + i] = [of |-> r, byte |-> u + 1]
    BY <1>6, <2>1, <2>3
  <2> QED BY <2>5, <2>7, <2>8, <2>9
<1>9. SubSeq(wide, first + 1, first + taken) = Segment(RootBytes(x), from, taken)
  BY <1>7, <1>8 DEF Segment
<1> QED BY <1>3, <1>9 DEF wide, RootBlock, Part

\* The number of blocks is rounded up.
LEMMA BlocksNeeded ==
  ASSUME NEW total \in Nat \ {0}, NEW k, k = (total + BLOCK_LEN - 1) \div BLOCK_LEN
  PROVE  k \in Nat \ {0} /\ (k - 1) * BLOCK_LEN < total /\ total <= k * BLOCK_LEN
<1>1. BLOCK_LEN \in Nat \ {0}
  BY BlocksAre
<1>2. PICK z \in Nat : z = total + BLOCK_LEN - 1
  BY <1>1
<1>3. PICK r : r = z % BLOCK_LEN
  OBVIOUS
<1>4. k \in Nat /\ r \in 0 .. BLOCK_LEN - 1 /\ z = BLOCK_LEN * k + r
  BY <1>1, <1>2, <1>3, QuotientRemainder
<1>5. PICK w : w = BLOCK_LEN * k
  OBVIOUS
<1>6. w \in Nat /\ k * BLOCK_LEN = w /\ (k - 1) * BLOCK_LEN = w - BLOCK_LEN
  BY <1>1, <1>4, <1>5
<1>7. w - BLOCK_LEN < total /\ total <= w
  BY <1>1, <1>2, <1>4, <1>5, <1>6
<1>8. k # 0
  <2>1. SUFFICES ASSUME k = 0 PROVE FALSE
    OBVIOUS
  <2>2. w = 0
    BY <1>1, <1>5, <2>1
  <2> QED BY <1>7, <2>2
<1> QED BY <1>4, <1>6, <1>7, <1>8

\* The b-th piece of the output, and where it begins in its block and ends in
\* the bytes.
FirstIn(off, b) == IF b = 1 THEN off ELSE 0

LeftFor(off, out_len, b) ==
  IF b = 1 THEN out_len ELSE out_len - (BLOCK_LEN - off) - (b - 2) * BLOCK_LEN

TakenFrom(off, out_len, b) ==
  IF LeftFor(off, out_len, b) > BLOCK_LEN - FirstIn(off, b)
  THEN BLOCK_LEN - FirstIn(off, b) ELSE LeftFor(off, out_len, b)

PieceOf(o, seek, out_len, b) ==
  SubSeq(compress_xof(o.input_cv, o.block, o.block_len, seek \div BLOCK_LEN + b - 1,
                      o.flags \cup {"ROOT"}),
         FirstIn(seek % BLOCK_LEN, b) + 1,
         FirstIn(seek % BLOCK_LEN, b) + TakenFrom(seek % BLOCK_LEN, out_len, b))

LEMMA PiecesAre ==
  ASSUME NEW o, NEW seek, NEW out_len
  PROVE  output_root_bytes(o, seek, out_len)
           = FlattenSeq([b \in 1 .. ((seek % BLOCK_LEN) + out_len + BLOCK_LEN - 1) \div BLOCK_LEN |->
                           PieceOf(o, seek, out_len, b)])
BY DEF output_root_bytes, PieceOf, FirstIn, LeftFor, TakenFrom

Ends(seek, out_len, k) ==
  [b \in 0 .. k |-> IF b = 0 THEN seek ELSE IF b = k THEN seek + out_len
                    ELSE (seek \div BLOCK_LEN + b) * BLOCK_LEN]

\* Where each of the pieces ends.
LEMMA EndsAre ==
  ASSUME NEW seek \in Nat, NEW out_len \in Nat \ {0},
         NEW off, off = seek % BLOCK_LEN, NEW s, s = seek \div BLOCK_LEN,
         NEW k, k = (off + out_len + BLOCK_LEN - 1) \div BLOCK_LEN,
         NEW b \in 1 .. k, NEW E, E = Ends(seek, out_len, k)
  PROVE  /\ k \in Nat \ {0} /\ s \in Nat /\ off \in Nat /\ off < BLOCK_LEN
         /\ E[b] \in Nat /\ E[b - 1] \in Nat /\ E[b - 1] <= E[b]
         /\ E[b] - E[b - 1] = TakenFrom(off, out_len, b)
         /\ FirstIn(off, b) \in Nat /\ FirstIn(off, b) < BLOCK_LEN
         /\ TakenFrom(off, out_len, b) \in Nat
         /\ FirstIn(off, b) + TakenFrom(off, out_len, b) <= BLOCK_LEN
         /\ E[b - 1] = (s + b - 1) * BLOCK_LEN + FirstIn(off, b)
<1>1. BLOCK_LEN \in Nat \ {0}
  BY BlocksAre
<1>2. s \in Nat /\ off \in 0 .. BLOCK_LEN - 1 /\ seek = BLOCK_LEN * s + off
  BY <1>1, QuotientRemainder
<1>3. PICK total : total = off + out_len
  OBVIOUS
<1>4. total \in Nat \ {0}
  BY <1>1, <1>2, <1>3
<1>5. k \in Nat \ {0} /\ (k - 1) * BLOCK_LEN < total /\ total <= k * BLOCK_LEN
  <2>1. k = (total + BLOCK_LEN - 1) \div BLOCK_LEN
    BY <1>3
  <2> QED BY <1>4, <2>1, BlocksNeeded
<1>6. b \in Nat /\ b # 0 /\ b <= k /\ b \in 0 .. k /\ b - 1 \in 0 .. k /\ b - 1 \in Nat /\ b - 1 # k
  BY <1>5
<1>7. PICK w \in Nat : w = (b - 1) * BLOCK_LEN
  BY <1>1, <1>6
<1>8. PICK x : x = BLOCK_LEN * s
  OBVIOUS
<1>9. /\ x \in Nat /\ seek = x + off /\ (s + b - 1) * BLOCK_LEN = x + w
      /\ (s + (b - 1)) * BLOCK_LEN = x + w
      /\ (s + b) * BLOCK_LEN = x + w + BLOCK_LEN /\ (b - 2) * BLOCK_LEN = w - BLOCK_LEN
      /\ b * BLOCK_LEN = w + BLOCK_LEN
  <2>1. x \in Nat
    BY <1>1, <1>2, <1>8
  <2>2. (s + (b - 1)) * BLOCK_LEN = x + w /\ s + b - 1 = s + (b - 1)
    BY <1>1, <1>2, <1>6, <1>7, <1>8
  <2>3. (s + b) * BLOCK_LEN = x + w + BLOCK_LEN
    BY <1>1, <1>2, <1>6, <1>7, <1>8
  <2>4. (b - 2) * BLOCK_LEN = w - BLOCK_LEN
    BY <1>1, <1>6, <1>7
  <2>5. b * BLOCK_LEN = w + BLOCK_LEN
    BY <1>1, <1>6, <1>7
  <2> QED BY <1>2, <1>8, <2>1, <2>2, <2>3, <2>4, <2>5
<1>10. E[b] = IF b = k THEN seek + out_len ELSE x + w + BLOCK_LEN
  <2>1. E[b] = IF b = k THEN seek + out_len ELSE (s + b) * BLOCK_LEN
    BY <1>6 DEF Ends
  <2> QED BY <1>9, <2>1
<1>11. E[b - 1] = IF b = 1 THEN seek ELSE x + w
  <2>1. E[b - 1] = IF b - 1 = 0 THEN seek ELSE (s + (b - 1)) * BLOCK_LEN
    BY <1>6 DEF Ends
  <2> QED BY <1>6, <1>9, <2>1
<1>21. x \in Nat /\ seek = x + off /\ off \in Nat /\ off < BLOCK_LEN
  BY <1>1, <1>2, <1>9
<1>22. (s + b - 1) * BLOCK_LEN = x + w
  BY <1>9
<1>12. w < total
  <2>1. PICK u, v : u = b - 1 /\ v = k - 1
    OBVIOUS
  <2>2. u \in Nat /\ v \in Nat /\ u <= v
    BY <1>5, <1>6, <2>1
  <2>3. u * BLOCK_LEN <= v * BLOCK_LEN /\ v * BLOCK_LEN \in Nat
    BY <1>1, <2>2
  <2> QED BY <1>4, <1>5, <1>7, <2>1, <2>3
<1>13. b # k => w + BLOCK_LEN < total
  <2>1. ASSUME b # k
        PROVE  w + BLOCK_LEN < total
    <3>1. PICK v : v = k - 1
      OBVIOUS
    <3>2. v \in Nat /\ b <= v
      BY <1>5, <1>6, <2>1, <3>1
    <3>3. b * BLOCK_LEN <= v * BLOCK_LEN /\ v * BLOCK_LEN \in Nat
      BY <1>1, <1>6, <3>2
    <3> QED BY <1>1, <1>4, <1>5, <1>7, <1>9, <3>1, <3>3
  <2> QED BY <2>1
<1>14. b = k => total <= w + BLOCK_LEN
  BY <1>5, <1>9
<1>15. b = 1 => w = 0
  BY <1>1, <1>7
<1>16. PICK f, l, t : f = FirstIn(off, b) /\ l = LeftFor(off, out_len, b)
                      /\ t = TakenFrom(off, out_len, b)
  OBVIOUS
<1>17. f = (IF b = 1 THEN off ELSE 0) /\ l = (IF b = 1 THEN out_len ELSE total - w)
  <2>1. b # 1 => l = out_len - (BLOCK_LEN - off) - (w - BLOCK_LEN)
    BY <1>9, <1>16 DEF LeftFor
  <2>2. b # 1 => l = total - w
    BY <1>1, <1>2, <1>3, <1>7, <2>1
  <2> QED BY <1>16, <2>2 DEF FirstIn, LeftFor
<1>18. t = IF l > BLOCK_LEN - f THEN BLOCK_LEN - f ELSE l
  BY <1>16 DEF TakenFrom
<1>19. CASE b = 1
  <2>1. f = off /\ l = out_len /\ w = 0 /\ E[b - 1] = x + off
    BY <1>9, <1>11, <1>15, <1>17, <1>19
  <2>2. t = (IF b = k THEN out_len ELSE BLOCK_LEN - off) /\ t \in Nat /\ f + t <= BLOCK_LEN
    BY <1>1, <1>2, <1>3, <1>13, <1>14, <1>18, <2>1
  <2>3. E[b] = x + off + t
    <3>1. b = k => E[b] = x + off + out_len
      BY <1>10, <1>21
    <3>2. b # k => E[b] = x + BLOCK_LEN
      BY <1>1, <1>10, <1>21, <2>1
    <3> QED BY <1>1, <1>21, <2>2, <3>1, <3>2
  <2>4. f \in Nat /\ f < BLOCK_LEN
    BY <1>21, <2>1
  <2>5. E[b] \in Nat /\ E[b - 1] \in Nat /\ E[b - 1] <= E[b] /\ E[b] - E[b - 1] = t
    BY <1>21, <2>1, <2>2, <2>3
  <2>6. E[b - 1] = (s + b - 1) * BLOCK_LEN + f
    BY <1>21, <1>22, <2>1
  <2>7. k \in Nat \ {0} /\ s \in Nat /\ off \in Nat /\ off < BLOCK_LEN
    BY <1>2, <1>5, <1>21
  <2> QED BY <1>16, <2>2, <2>4, <2>5, <2>6, <2>7
<1>20. CASE b # 1
  <2>1. f = 0 /\ l = total - w /\ E[b - 1] = x + w
    BY <1>11, <1>17, <1>20
  <2>2. t = (IF b = k THEN total - w ELSE BLOCK_LEN) /\ t \in Nat /\ f + t <= BLOCK_LEN
    BY <1>1, <1>4, <1>12, <1>13, <1>14, <1>18, <2>1
  <2>3. E[b] = x + w + t
    <3>1. b = k => E[b] = x + total
      <4>1. b = k => E[b] = seek + out_len
        BY <1>10
      <4>2. seek + out_len = x + total
        BY <1>3, <1>21
      <4> QED BY <4>1, <4>2
    <3>2. b # k => E[b] = x + w + BLOCK_LEN
      BY <1>10
    <3>3. x \in Nat /\ w \in Nat /\ total \in Nat
      BY <1>4, <1>21
    <3> QED BY <1>1, <2>2, <3>1, <3>2, <3>3
  <2>4. f \in Nat /\ f < BLOCK_LEN
    BY <1>1, <2>1
  <2>5. E[b] \in Nat /\ E[b - 1] \in Nat /\ E[b - 1] <= E[b] /\ E[b] - E[b - 1] = t
    BY <1>21, <2>1, <2>2, <2>3
  <2>6. E[b - 1] = (s + b - 1) * BLOCK_LEN + f
    BY <1>21, <1>22, <2>1
  <2>7. k \in Nat \ {0} /\ s \in Nat /\ off \in Nat /\ off < BLOCK_LEN
    BY <1>2, <1>5, <1>21
  <2> QED BY <1>16, <2>2, <2>4, <2>5, <2>6, <2>7
<1> QED BY <1>19, <1>20

\* The pieces are the bytes of the root's endless output.
LEMMA OutputBytes ==
  ASSUME NEW x, IsNode(x), NEW seek \in Nat, NEW out_len \in Nat \ {0}
  PROVE  output_root_bytes(OutputOf(x), seek, out_len) = Segment(RootBytes(x), seek, out_len)
<1> DEFINE off == seek % BLOCK_LEN
           s == seek \div BLOCK_LEN
           k == (off + out_len + BLOCK_LEN - 1) \div BLOCK_LEN
           E == Ends(seek, out_len, k)
           seqs == [b \in 1 .. k |-> PieceOf(OutputOf(x), seek, out_len, b)]
<1>1. k \in Nat \ {0}
  <2>1. BLOCK_LEN \in Nat \ {0} /\ off \in Nat
    BY BlocksAre, QuotientRemainder
  <2>2. PICK total : total = off + out_len
    OBVIOUS
  <2>3. total \in Nat \ {0} /\ k = (total + BLOCK_LEN - 1) \div BLOCK_LEN
    BY <2>1, <2>2
  <2> HIDE DEF k
  <2> QED BY <2>3, BlocksNeeded
<1>2. E[0] = seek /\ E[k] = seek + out_len
  <2> HIDE DEF k
  <2>1. 0 \in 0 .. k /\ k \in 0 .. k /\ k # 0
    BY <1>1
  <2> QED BY <2>1 DEF Ends
<1>3. ASSUME NEW b \in 1 .. k
      PROVE  /\ E[b] \in Nat /\ E[b - 1] \in Nat /\ E[b - 1] <= E[b]
             /\ seqs[b] = Segment(RootBytes(x), E[b - 1], E[b] - E[b - 1])
  <2>1. PICK o, q, m, D : o = off /\ q = s /\ m = k /\ D = E
    OBVIOUS
  <2>2. b \in 1 .. m /\ o = seek % BLOCK_LEN /\ q = seek \div BLOCK_LEN
        /\ m = (o + out_len + BLOCK_LEN - 1) \div BLOCK_LEN /\ D = Ends(seek, out_len, m)
    BY <2>1
  <2>3. seqs[b] = PieceOf(OutputOf(x), seek, out_len, b)
    OBVIOUS
  <2>4. PICK f, t : f = FirstIn(o, b) /\ t = TakenFrom(o, out_len, b)
    OBVIOUS
  <2>5. /\ q \in Nat /\ D[b] \in Nat /\ D[b - 1] \in Nat /\ D[b - 1] <= D[b]
        /\ D[b] - D[b - 1] = t /\ f \in Nat /\ f < BLOCK_LEN /\ t \in Nat /\ f + t <= BLOCK_LEN
        /\ D[b - 1] = (q + b - 1) * BLOCK_LEN + f
    <3> HIDE DEF off, s, k, E, seqs
    <3> QED BY <2>2, <2>4, EndsAre
  <2>6. q + b - 1 \in Nat
    <3> HIDE DEF off, s, k, E, seqs
    <3> QED BY <1>1, <2>5
  <2>7. PICK a : a = q + b - 1
    OBVIOUS
  <2>8. PieceOf(OutputOf(x), seek, out_len, b)
          = Part(RootBlock(x, a), f, t)
    BY <2>2, <2>4, <2>7 DEF PieceOf, RootBlock, Part
  <2>9. PICK from : from = D[b - 1]
    OBVIOUS
  <2>10. Part(RootBlock(x, a), f, t) = Segment(RootBytes(x), from, t)
    <3>1. a \in Nat
      BY <2>6, <2>7
    <3>2. from = a * BLOCK_LEN + f /\ from \in Nat
      BY <2>5, <2>7, <2>9
    <3>3. f \in Nat /\ t \in Nat /\ f < BLOCK_LEN /\ f + t <= BLOCK_LEN
      BY <2>5
    <3> HIDE DEF off, s, k, E, seqs
    <3> QED BY <3>1, <3>2, <3>3, BlockOfRoot
  <2> HIDE DEF off, s, k, E, seqs
  <2> QED BY <2>1, <2>3, <2>5, <2>8, <2>9, <2>10
<1>4. Sequence(seqs, k)
  <2>1. seqs = [b \in 1 .. k |-> seqs[b]]
    <3> HIDE DEF k
    <3> QED OBVIOUS
  <2> HIDE DEF seqs
  <2> QED BY <2>1 DEF Sequence
<1>5. output_root_bytes(OutputOf(x), seek, out_len) = FlattenSeq(seqs)
  BY PiecesAre
<1> HIDE DEF off, s, k, E, seqs
<1>6. \A i \in 0 .. k : E[i] \in Nat
  <2>1. \A i \in 0 .. k : i = 0 \/ i \in 1 .. k
    BY <1>1
  <2>2. E[0] \in Nat
    BY <1>2
  <2> QED BY <1>3, <2>1, <2>2
<1>7. \A i \in 1 .. k : E[i - 1] <= E[i]
  BY <1>3
<1>8. \A i \in 1 .. k : seqs[i] = Segment(RootBytes(x), E[i - 1], E[i] - E[i - 1])
  BY <1>3
<1>9. FlattenSeq(seqs) = Segment(RootBytes(x), E[0], E[k] - E[0])
  BY <1>1, <1>4, <1>6, <1>7, <1>8, FlattenSegments
<1>10. E[k] - E[0] = out_len
  BY <1>2
<1> QED BY <1>2, <1>5, <1>9, <1>10

-----------------------------------------------------------------------------
(* What a hasher gives that has been fed the front of a message            *)

\* finalize gives the output of the tree.
LEMMA FinalizeIs ==
  ASSUME NEW key, NEW flags, NEW byte, NEW n \in Nat, n <= MaxLength,
         NEW h, Ready(h, n, key, flags, byte), NEW seek \in Nat, NEW out_len \in Nat
  PROVE  blake3_hasher_finalize_seek(h, seek, out_len)
           = Segment(RootBytes(NodeOf(key, flags, byte, 0, n)), seek, out_len)
<1>1. PICK x : x = NodeOf(key, flags, byte, 0, n)
  OBVIOUS
<1>2. IsNode(x)
  <2>1. PICK o \in Nat : o = 0
    OBVIOUS
  <2>2. o * CHUNK_LEN + n <= MaxLength
    BY <2>1, BlocksAre
  <2>3. IsNode(NodeOf(key, flags, byte, o, n))
    BY <2>2, NodesAre
  <2> QED BY <1>1, <2>1, <2>3
<1>3. RootOf(h) = OutputOf(x)
  BY <1>1, RootIs
<1>4. blake3_hasher_finalize_seek(h, seek, out_len)
        = IF out_len = 0 THEN <<>> ELSE output_root_bytes(OutputOf(x), seek, out_len)
  BY <1>3, FinalizeSteps
<1>6. CASE out_len = 0
  <2>1. Segment(RootBytes(x), seek, out_len) = <<>>
    BY <1>6, SegmentsAre
  <2> QED BY <1>1, <1>4, <1>6, <2>1
<1>7. CASE out_len # 0
  <2>1. output_root_bytes(OutputOf(x), seek, out_len) = Segment(RootBytes(x), seek, out_len)
    BY <1>2, <1>7, OutputBytes
  <2> QED BY <1>1, <1>4, <1>7, <2>1
<1> QED BY <1>6, <1>7

LEMMA SegmentOfRoot ==
  ASSUME NEW x, NEW seek \in Nat, NEW out_len \in Nat
  PROVE  Segment(RootBytes(x), seek, out_len) = [i \in 1 .. out_len |-> TreeByte(x, seek + i - 1)]
BY DEF Segment, RootBytes

\* A new hasher has been fed nothing.
LEMMA InitIsReady ==
  ASSUME NEW key, NEW flags, NEW byte
  PROVE  Ready(hasher_init_base(key, flags), 0, key, flags, byte)
<1>1. PICK chunk : chunk = ChunkOf(key, flags, byte, 0, 0)
  OBVIOUS
<1>2. hasher_init_base(key, flags) = Hasher(key, chunk, <<>>) /\ chunk.flags = flags
  <2>1. chunk_state_init(key, flags, 0) = chunk
    BY <1>1, NewChunk
  <2>2. chunk_state_init(key, flags, 0).flags = flags
    BY DEF chunk_state_init
  <2> QED BY <2>1, <2>2 DEF hasher_init_base, Hasher
<1>3. Held(<<>>, 0, 0, key, flags, byte)
  <2>1. PICK b : b = [i \in 0 .. 0 |-> 0]
    OBVIOUS
  <2>2. Shape(b, 0, 0)
    BY <2>1 DEF Shape, Even
  <2>3. Values(<<>>, b, 0, key, flags, byte)
    <3>1. Sequence(<< >>, 0)
      BY TuplesAre
    <3>2. 1 .. 0 = {}
      OBVIOUS
    <3> QED BY <3>1, <3>2 DEF Values
  <2> QED BY <2>2, <2>3 DEF Held
<1>4. Holds(hasher_init_base(key, flags), chunk, 0, 0, key, flags, byte)
  BY <1>2, <1>3 DEF Holds
<1>5. Whole(hasher_init_base(key, flags), 0, key, flags, byte)
  <2>1. 0 \in Nat \ {1}
    OBVIOUS
  <2> QED BY <1>1, <1>4, <2>1 DEF Whole
<1>6. 0 = 0 * CHUNK_LEN /\ 0 \in Nat
  BY BlocksAre
<1> QED BY <1>5, <1>6 DEF Ready

LEMMA HeldChunk ==
  ASSUME NEW key, NEW flags, NEW byte, NEW n, NEW h, Ready(h, n, key, flags, byte)
  PROVE  \E c, r, st : h = Hasher(key, ChunkOf(key, flags, byte, c, r), st)
<1>1. CASE \E c \in Nat : n = c * CHUNK_LEN /\ Whole(h, c, key, flags, byte)
  BY <1>1 DEF Whole, Holds
<1>2. CASE \E c \in Nat, r \in 1 .. CHUNK_LEN :
             n = c * CHUNK_LEN + r /\ Within(h, c, r, key, flags, byte)
  BY <1>2 DEF Within, HoldsEven
<1> QED BY <1>1, <1>2 DEF Ready

\* Nor has one that is reset.
LEMMA ResetIsReady ==
  ASSUME NEW key, NEW flags, NEW byte, NEW n, NEW h, Ready(h, n, key, flags, byte)
  PROVE  Ready(blake3_hasher_reset(h), 0, key, flags, byte)
<1>1. PICK c, r, st : h = Hasher(key, ChunkOf(key, flags, byte, c, r), st)
  BY HeldChunk
<1>2. PICK chunk : chunk = ChunkOf(key, flags, byte, c, r)
  OBVIOUS
<1>3. h.key = key /\ h.chunk = chunk
  BY <1>1, <1>2 DEF Hasher
<1>4. chunk_state_reset(chunk, key, 0) = chunk_state_init(key, flags, 0)
  BY <1>2, ChunkReset
<1>5. blake3_hasher_reset(h)
        = [h EXCEPT !.chunk = chunk_state_reset(h.chunk, h.key, 0), !.cv_stack = <<>>]
  BY DEF blake3_hasher_reset
<1>6. PICK new : new = chunk_state_init(key, flags, 0)
  OBVIOUS
<1>7. blake3_hasher_reset(h) = [h EXCEPT !.chunk = new, !.cv_stack = <<>>]
  BY <1>3, <1>4, <1>5, <1>6
<1>8. [h EXCEPT !.chunk = new, !.cv_stack = <<>>] = [key |-> key, chunk |-> new, cv_stack |-> <<>>]
  <2>1. h = [key |-> key, chunk |-> chunk, cv_stack |-> st]
    BY <1>1, <1>2 DEF Hasher
  <2>2. [h EXCEPT !.chunk = new, !.cv_stack = <<>>]
          = [[h EXCEPT !.chunk = new] EXCEPT !.cv_stack = <<>>]
    BY <2>1
  <2>3. [h EXCEPT !.chunk = new] = [key |-> key, chunk |-> new, cv_stack |-> st]
    BY <2>1
  <2>4. PICK t : t = [h EXCEPT !.chunk = new]
    OBVIOUS
  <2>5. [t EXCEPT !.cv_stack = <<>>] = [key |-> key, chunk |-> new, cv_stack |-> <<>>]
    <3>1. t = [key |-> key, chunk |-> new, cv_stack |-> st]
      BY <2>3, <2>4
    <3> QED BY <3>1
  <2> QED BY <2>2, <2>4, <2>5
<1>9. blake3_hasher_reset(h) = hasher_init_base(key, flags)
  BY <1>6, <1>7, <1>8 DEF hasher_init_base
<1> QED BY <1>9, InitIsReady

-----------------------------------------------------------------------------
(* The key of every mode                                                   *)

LEMMA ContextIs ==
  ASSUME NEW n \in Nat, n <= MaxLength
  PROVE  Context(n) = Segment(Context(MaxLength), 0, n)
<1>1. MaxLength \in Nat
  BY MaxLengthIs
<1>2. \A i \in 1 .. n : 0 + i = i /\ i \in 1 .. MaxLength
  BY <1>1
<1>3. \A i \in 1 .. n : Context(MaxLength)[0 + i] = -i
  BY <1>2 DEF Context
<1> QED BY <1>3 DEF Context, Segment

\* A derived key is of the context's tree.
LEMMA DerivedKey ==
  ASSUME NEW n \in ContextLengths
  PROVE  blake3_hasher_init_derive_key(n)
           = hasher_init_base(
               [i \in 1 .. OUT_LEN |->
                  TreeByte(Tree(IV, {"DERIVE_KEY_CONTEXT"}, Context(MaxLength))[n][0], i - 1)],
               {"DERIVE_KEY_MATERIAL"})
<1>1. n \in Nat /\ n <= MaxLength
  BY MaxLengthIs, HasherAssumption
<1>2. PICK flags : flags = {"DERIVE_KEY_CONTEXT"}
  OBVIOUS
<1>3. PICK byte : byte = Context(MaxLength)
  OBVIOUS
<1>4. PICK h : h = blake3_hasher_update(hasher_init_base(IV, flags), Context(n))
  OBVIOUS
<1>5. Ready(h, n, IV, flags, byte)
  <2>1. PICK o \in Nat : o = 0
    OBVIOUS
  <2>2. Ready(hasher_init_base(IV, flags), o, IV, flags, byte)
    BY <2>1, InitIsReady
  <2>3. o + n <= MaxLength /\ o + n = n
    BY <1>1, <2>1
  <2>4. Context(n) = Segment(byte, o, n)
    BY <1>1, <1>3, <2>1, ContextIs
  <2>5. Ready(blake3_hasher_update(hasher_init_base(IV, flags), Context(n)), o + n, IV, flags, byte)
    BY <1>1, <2>2, <2>3, <2>4, UpdateKeepsReady
  <2> QED BY <1>4, <2>3, <2>5
<1>6. OUT_LEN \in Nat
  BY BlocksAre
<1>7. blake3_hasher_finalize(h, OUT_LEN)
        = [i \in 1 .. OUT_LEN |-> TreeByte(NodeOf(IV, flags, byte, 0, n), i - 1)]
  <2>1. PICK o \in Nat : o = 0
    OBVIOUS
  <2>2. blake3_hasher_finalize_seek(h, o, OUT_LEN)
          = [i \in 1 .. OUT_LEN |-> TreeByte(NodeOf(IV, flags, byte, 0, n), o + i - 1)]
    <3>1. blake3_hasher_finalize_seek(h, o, OUT_LEN)
            = Segment(RootBytes(NodeOf(IV, flags, byte, 0, n)), o, OUT_LEN)
      BY <1>1, <1>5, <1>6, FinalizeIs
    <3> QED BY <1>6, <3>1, SegmentOfRoot
  <2>3. \A i \in 1 .. OUT_LEN : o + i - 1 = i - 1
    BY <1>6, <2>1
  <2>4. [i \in 1 .. OUT_LEN |-> TreeByte(NodeOf(IV, flags, byte, 0, n), o + i - 1)]
          = [i \in 1 .. OUT_LEN |-> TreeByte(NodeOf(IV, flags, byte, 0, n), i - 1)]
    BY <2>3
  <2> QED BY <2>1, <2>2, <2>4 DEF blake3_hasher_finalize
<1>8. NodeOf(IV, flags, byte, 0, n) = Tree(IV, flags, byte)[n][0]
  BY DEF NodeOf
<1>9. blake3_hasher_init_derive_key(n)
        = hasher_init_base(blake3_hasher_finalize(h, OUT_LEN), {"DERIVE_KEY_MATERIAL"})
  BY <1>2, <1>4 DEF blake3_hasher_init_derive_key
<1> QED BY <1>2, <1>3, <1>7, <1>8, <1>9

\* A hasher is made with its mode's key and flags.
LEMMA MadeIs ==
  ASSUME NEW m \in Modes
  PROVE  Made(m) = hasher_init_base(TreeKey(m), TreeFlags(m))
<1>1. CASE m.kind = "plain"
  BY <1>1 DEF Made, TreeKey, TreeFlags, blake3_hasher_init
<1>2. CASE m.kind = "keyed"
  BY <1>2 DEF Made, TreeKey, TreeFlags, blake3_hasher_init_keyed
<1>3. CASE m.kind = "derive"
  <2>1. m.context \in ContextLengths
    BY <1>3 DEF Modes
  <2>2. Made(m) = blake3_hasher_init_derive_key(m.context)
    BY <1>3 DEF Made
  <2>3. TreeFlags(m) = {"DERIVE_KEY_MATERIAL"}
    BY <1>3 DEF TreeFlags
  <2>4. TreeKey(m)
          = [i \in 1 .. OUT_LEN |->
               TreeByte(Tree(IV, {"DERIVE_KEY_CONTEXT"}, Context(MaxLength))[m.context][0], i - 1)]
    BY <1>3 DEF TreeKey
  <2> QED BY <2>1, <2>2, <2>3, <2>4, DerivedKey
<1>4. m.kind \in {"plain", "keyed", "derive"}
  BY DEF Modes
<1> QED BY <1>1, <1>2, <1>3, <1>4

-----------------------------------------------------------------------------
(* A hasher in use                                                         *)

\* What was fed is in the hasher: as the values of the subtrees that are over,
\* and the chunk in progress.
FedIsHeld ==
  /\ mode \in Modes
  /\ fed \in 0 .. MaxLength
  /\ Ready(hasher, fed, TreeKey(mode), TreeFlags(mode), Message)

LEMMA FedIsHeldInit ==
  ASSUME HasherInit
  PROVE  FedIsHeld
<1>1. mode \in Modes /\ hasher = Made(mode) /\ fed = 0
  BY DEF HasherInit
<1>2. Ready(hasher, fed, TreeKey(mode), TreeFlags(mode), Message)
  BY <1>1, MadeIs, InitIsReady
<1>3. fed \in 0 .. MaxLength
  BY <1>1, MaxLengthIs
<1> QED BY <1>1, <1>2, <1>3 DEF FedIsHeld

\* The inductive invariant: an update or a reset keeps it.
LEMMA FedIsHeldStep ==
  ASSUME FedIsHeld, [HasherNext]_hasherVars
  PROVE  FedIsHeld'
<1>1. /\ mode \in Modes /\ fed \in 0 .. MaxLength /\ MaxLength \in Nat
      /\ Ready(hasher, fed, TreeKey(mode), TreeFlags(mode), Message)
  BY MaxLengthIs DEF FedIsHeld
<1>2. CASE Reset
  <2>1. hasher' = blake3_hasher_reset(hasher) /\ fed' = 0 /\ mode' = mode
    BY <1>2 DEF Reset
  <2>2. Ready(hasher', fed', TreeKey(mode), TreeFlags(mode), Message)
    BY <1>1, <2>1, ResetIsReady
  <2> QED BY <1>1, <2>1, <2>2 DEF FedIsHeld
<1>3. ASSUME NEW n \in 0 .. MaxLength, Update(n)
      PROVE  FedIsHeld'
  <2>1. /\ fed + n <= MaxLength /\ fed' = fed + n /\ mode' = mode
        /\ hasher' = blake3_hasher_update(hasher, [i \in 1 .. n |-> fed + i])
    BY <1>3 DEF Update
  <2>2. fed \in Nat /\ n \in Nat
    BY <1>1
  <2>3. [i \in 1 .. n |-> fed + i] = Segment(Message, fed, n)
    BY <2>1, <2>2, MessageIs
  <2>4. Ready(blake3_hasher_update(hasher, [i \in 1 .. n |-> fed + i]), fed + n, TreeKey(mode),
              TreeFlags(mode), Message)
    BY <1>1, <2>1, <2>2, <2>3, UpdateKeepsReady
  <2>5. fed + n \in 0 .. MaxLength
    BY <1>1, <2>1, <2>2
  <2> QED BY <1>1, <2>1, <2>4, <2>5 DEF FedIsHeld
<1>4. CASE UNCHANGED hasherVars
  BY <1>1, <1>4 DEF hasherVars, FedIsHeld
<1> QED BY <1>2, <1>3, <1>4 DEF HasherNext

\* Not only the offsets and the lengths that DigestIsOfTree names.
OutputIsOfTree ==
  \A seek, out_len \in Nat :
    blake3_hasher_finalize_seek(hasher, seek, out_len)
      = [i \in 1 .. out_len |->
           TreeByte(NodeOf(TreeKey(mode), TreeFlags(mode), Message, 0, fed), seek + i - 1)]

LEMMA HeldGivesOutput ==
  ASSUME FedIsHeld
  PROVE  OutputIsOfTree
<1>1. PICK key, flags : key = TreeKey(mode) /\ flags = TreeFlags(mode)
  OBVIOUS
<1>2. fed \in Nat /\ fed <= MaxLength /\ Ready(hasher, fed, key, flags, Message)
  BY <1>1, MaxLengthIs DEF FedIsHeld
<1>3. ASSUME NEW seek \in Nat, NEW out_len \in Nat
      PROVE  blake3_hasher_finalize_seek(hasher, seek, out_len)
               = [i \in 1 .. out_len |->
                    TreeByte(NodeOf(key, flags, Message, 0, fed), seek + i - 1)]
  <2>1. blake3_hasher_finalize_seek(hasher, seek, out_len)
          = Segment(RootBytes(NodeOf(key, flags, Message, 0, fed)), seek, out_len)
    BY <1>2, FinalizeIs
  <2> QED BY <2>1, SegmentOfRoot
<1> QED BY <1>1, <1>3 DEF OutputIsOfTree

LEMMA OutputGivesDigest ==
  ASSUME OutputIsOfTree
  PROVE  DigestIsOfTree
<1>1. BLOCK_LEN - 1 \in Nat /\ BLOCK_LEN \in Nat /\ OUT_LEN \in Nat /\ 2 * BLOCK_LEN \in Nat
  BY BlocksAre
<1>2. ASSUME NEW seek \in {0, 1, BLOCK_LEN - 1, BLOCK_LEN},
             NEW out_len \in {0, 1, OUT_LEN, 2 * BLOCK_LEN}
      PROVE  blake3_hasher_finalize_seek(hasher, seek, out_len)
               = [i \in 1 .. out_len |->
                    TreeByte(NodeOf(TreeKey(mode), TreeFlags(mode), Message, 0, fed), seek + i - 1)]
  <2>1. seek \in Nat /\ out_len \in Nat
    BY <1>1, <1>2
  <2> QED BY <2>1 DEF OutputIsOfTree
<1> QED BY <1>2 DEF DigestIsOfTree, NodeOf

\* finalize (blake3.cpp:573-613) and finalize_seek (output_root_bytes,
\* blake3.cpp:90): whatever updates a message was fed in, and however often the
\* hasher was reset before, every part of its endless output is that of the tree
\* over the whole message.
THEOREM OutputsAreOfTrees == HasherSpec => []OutputIsOfTree
<1>1. HasherInit => FedIsHeld
  BY FedIsHeldInit
<1>2. FedIsHeld /\ [HasherNext]_hasherVars => FedIsHeld'
  BY FedIsHeldStep
<1>3. FedIsHeld => OutputIsOfTree
  BY HeldGivesOutput
<1> QED BY <1>1, <1>2, <1>3, PTL DEF HasherSpec

\* The parts of the output that the run asks for (blake3.cpp:573-613): a digest
\* is a function of the message, not of the updates it came in.
THEOREM DigestsAreOfTrees == HasherSpec => []DigestIsOfTree
<1>1. HasherInit => FedIsHeld
  BY FedIsHeldInit
<1>2. FedIsHeld /\ [HasherNext]_hasherVars => FedIsHeld'
  BY FedIsHeldStep
<1>3. FedIsHeld => DigestIsOfTree
  BY HeldGivesOutput, OutputGivesDigest
<1> QED BY <1>1, <1>2, <1>3, PTL DEF HasherSpec

-----------------------------------------------------------------------------
(* The stack                                                               *)

\* A chunk in progress of r bytes, after c chunks whose values are on a stack of
\* d, which begin at b.
Stacked(h, n, c, r, st, d, b, key, flags, byte) ==
  /\ h = Hasher(key, ChunkOf(key, flags, byte, c, r), st)
  /\ n = c * CHUNK_LEN + r
  /\ Shape(b, d, c) /\ Values(st, b, d, key, flags, byte)
  /\ r = 0 => d # 1
  /\ r # 0 => Even(b, d)

LEMMA StackedIs ==
  ASSUME NEW key, NEW flags, NEW byte, NEW n \in Nat, n <= MaxLength,
         NEW h, Ready(h, n, key, flags, byte)
  PROVE  \E c \in Nat, r \in 0 .. CHUNK_LEN, d \in Nat : \E st, b :
           Stacked(h, n, c, r, st, d, b, key, flags, byte)
<1>1. CHUNK_LEN \in Nat \ {0}
  BY BlocksAre
<1>2. CASE \E c \in Nat : n = c * CHUNK_LEN /\ Whole(h, c, key, flags, byte)
  <2>1. PICK c \in Nat : n = c * CHUNK_LEN /\ Whole(h, c, key, flags, byte)
    BY <1>2
  <2>2. PICK d \in Nat \ {1} : Holds(h, ChunkOf(key, flags, byte, c, 0), d, c, key, flags, byte)
    BY <2>1 DEF Whole
  <2>3. PICK st : /\ h = Hasher(key, ChunkOf(key, flags, byte, c, 0), st)
                  /\ Held(st, d, c, key, flags, byte)
    BY <2>2 DEF Holds
  <2>4. PICK b : Shape(b, d, c) /\ Values(st, b, d, key, flags, byte)
    BY <2>3 DEF Held
  <2>5. n = c * CHUNK_LEN + 0 /\ d \in Nat /\ d # 1 /\ 0 \in 0 .. CHUNK_LEN
    BY <1>1, <2>1
  <2>6. Stacked(h, n, c, 0, st, d, b, key, flags, byte)
    BY <2>3, <2>4, <2>5 DEF Stacked
  <2> QED BY <2>5, <2>6
<1>3. CASE \E c \in Nat, r \in 1 .. CHUNK_LEN :
             n = c * CHUNK_LEN + r /\ Within(h, c, r, key, flags, byte)
  <2>1. PICK c \in Nat, r \in 1 .. CHUNK_LEN :
          n = c * CHUNK_LEN + r /\ Within(h, c, r, key, flags, byte)
    BY <1>3
  <2>2. PICK d \in Nat :
          HoldsEven(h, ChunkOf(key, flags, byte, c, r), d, c, key, flags, byte)
    BY <2>1 DEF Within
  <2>3. PICK st : /\ h = Hasher(key, ChunkOf(key, flags, byte, c, r), st)
                  /\ HeldEven(st, d, c, key, flags, byte)
    BY <2>2 DEF HoldsEven
  <2>4. PICK b : Shape(b, d, c) /\ Values(st, b, d, key, flags, byte) /\ Even(b, d)
    BY <2>3 DEF HeldEven
  <2>5. r # 0 /\ r \in 0 .. CHUNK_LEN
    BY <1>1
  <2>6. Stacked(h, n, c, r, st, d, b, key, flags, byte)
    BY <2>1, <2>3, <2>4, <2>5 DEF Stacked
  <2> QED BY <2>5, <2>6
<1> QED BY <1>2, <1>3 DEF Ready

\* Below the top there is a bit for every subtree.
LEMMA StackIsBounded ==
  ASSUME NEW b, NEW d \in Nat, NEW c \in Nat, Shape(b, d, c), c <= power_of_two[MAX_DEPTH]
  PROVE  d <= MAX_DEPTH + 1
<1>1. MAX_DEPTH \in 0 .. SIZE_BITS - 1 /\ SIZE_BITS \in Nat
  BY Lengths
<1>2. CASE d = 0
  BY <1>1, <1>2
<1>3. CASE d # 0
  <2>1. d \in 1 .. d /\ d - 1 \in 0 .. d /\ d - 1 # d
    BY <1>3
  <2>2. b[d - 1] \in Nat /\ Size(b, d) \in Nat \ {0} /\ b[d] = b[d - 1] + Size(b, d)
    BY <2>1, SizesAre
  <2>3. b[d] = c
    BY DEF Shape
  <2>4. power_of_two[MAX_DEPTH] \in Nat
    BY MaxLengthIs
  <2>5. b[d - 1] < power_of_two[MAX_DEPTH]
    BY <2>2, <2>3, <2>4
  <2>6. popcnt(b[d - 1]) = d - 1
    BY <2>1, EvenPrefix
  <2>7. popcnt(b[d - 1]) <= MAX_DEPTH
    BY <1>1, <2>2, <2>5, PopcntIsBounded
  <2> QED BY <1>1, <2>6, <2>7
<1> QED BY <1>2, <1>3

LEMMA StackedParts ==
  ASSUME NEW key, NEW flags, NEW byte, NEW n \in Nat, n <= MaxLength, NEW h,
         NEW c \in Nat, NEW r \in 0 .. CHUNK_LEN, NEW d \in Nat, NEW st, NEW b,
         Stacked(h, n, c, r, st, d, b, key, flags, byte)
  PROVE  /\ chunk_state_len(h.chunk) = r /\ h.chunk.chunk_counter = c
         /\ h.cv_stack = st /\ Len(st) = d
         /\ c <= power_of_two[MAX_DEPTH] /\ c <= Top
<1>1. h = Hasher(key, ChunkOf(key, flags, byte, c, r), st)
  BY DEF Stacked
<1>2. h.chunk = ChunkOf(key, flags, byte, c, r) /\ h.cv_stack = st
  BY <1>1 DEF Hasher
<1>3. /\ chunk_state_len(ChunkOf(key, flags, byte, c, r)) = r
      /\ ChunkOf(key, flags, byte, c, r).chunk_counter = c
  BY ChunkIs
<1>4. Len(st) = d
  <2>1. Sequence(st, d)
    BY DEF Stacked, Values
  <2> QED BY <2>1, SequencesAre
<1>5. c * CHUNK_LEN <= MaxLength
  <2>1. n = c * CHUNK_LEN + r
    BY DEF Stacked
  <2>2. c * CHUNK_LEN \in Nat /\ CHUNK_LEN \in Nat /\ MaxLength \in Nat
    BY BlocksAre, ChunksOrder, MaxLengthIs
  <2> QED BY <2>1, <2>2
<1>6. c <= Top /\ c <= power_of_two[MAX_DEPTH]
  BY <1>5, TopHolds
<1> QED BY <1>2, <1>3, <1>4, <1>6

LEMMA HeldAwaitsMore ==
  ASSUME FedIsHeld
  PROVE  StackAwaitsMore
<1>1. PICK key, flags : key = TreeKey(mode) /\ flags = TreeFlags(mode)
  OBVIOUS
<1>2. fed \in Nat /\ fed <= MaxLength /\ Ready(hasher, fed, key, flags, Message)
  BY <1>1, MaxLengthIs DEF FedIsHeld
<1>3. \E c \in Nat, r \in 0 .. CHUNK_LEN, d \in Nat : \E st, b :
        Stacked(hasher, fed, c, r, st, d, b, key, flags, Message)
  BY <1>2, StackedIs
<1>4. PICK c \in Nat, r \in 0 .. CHUNK_LEN, d \in Nat : \E st, b :
        Stacked(hasher, fed, c, r, st, d, b, key, flags, Message)
  BY <1>3
<1>5. PICK st, b : Stacked(hasher, fed, c, r, st, d, b, key, flags, Message)
  BY <1>4
<1>6. /\ chunk_state_len(hasher.chunk) = r /\ hasher.chunk.chunk_counter = c
      /\ hasher.cv_stack = st /\ Len(st) = d
      /\ c <= power_of_two[MAX_DEPTH]
  BY <1>2, <1>5, StackedParts
<1>7. Shape(b, d, c) /\ fed = c * CHUNK_LEN + r
  BY <1>5 DEF Stacked
<1>8. d <= MAX_DEPTH + 1
  BY <1>6, <1>7, StackIsBounded
<1>9. r > 0 => d = popcnt(c)
  <2>1. ASSUME r > 0
        PROVE  d = popcnt(c)
    <3>1. Even(b, d)
      <4>1. r # 0
        BY <2>1, BlocksAre
      <4> QED BY <1>5, <4>1 DEF Stacked
    <3> QED BY <1>7, <3>1, EvenShape
  <2> QED BY <2>1
<1>10. r = 0 => d # 1
  BY <1>5 DEF Stacked
<1> QED BY <1>6, <1>7, <1>8, <1>9, <1>10 DEF StackAwaitsMore

\* (blake3.cpp:602, blake3.h:30)  Merging lazily never leaves finalize too few
\* values, nor more than the stack has room for, for any number of chunks.
THEOREM StacksAwaitMore == HasherSpec => []StackAwaitsMore
<1>1. HasherInit => FedIsHeld
  BY FedIsHeldInit
<1>2. FedIsHeld /\ [HasherNext]_hasherVars => FedIsHeld'
  BY FedIsHeldStep
<1>3. FedIsHeld => StackAwaitsMore
  BY HeldAwaitsMore
<1> QED BY <1>1, <1>2, <1>3, PTL DEF HasherSpec

-----------------------------------------------------------------------------
(* The subtrees on the stack                                               *)

NextSize(below, n, d, c) ==
  IF below + round_down_to_power_of_2(c - below) = c /\ n < d
  THEN below + round_down_to_power_of_2(c - below) \div 2
  ELSE below + round_down_to_power_of_2(c - below)

Sizes(f, d, c) == [n \in 0 .. d |-> IF n = 0 THEN 0 ELSE NextSize(f[n - 1], n, d, c)]

TheSizes(d, c) == CHOOSE f : f = Sizes(f, d, c)

\* Greedy sizes are those of every stack: only the last two may be equal.
LEMMA NextSizeIs ==
  ASSUME NEW b, NEW d \in Nat, NEW c \in Nat, c <= Top, Shape(b, d, c), NEW n \in 1 .. d
  PROVE  NextSize(b[n - 1], n, d, c) = b[n]
<1>1. PICK s : s = Size(b, n)
  OBVIOUS
<1>2. /\ b[n] \in Nat /\ b[n - 1] \in Nat /\ s \in Nat \ {0} /\ s \in PowersOfTwo
      /\ b[n] = b[n - 1] + s
  BY <1>1, SizesAre
<1>3. b[n] <= c /\ (n < d => b[n] < c) /\ c - b[n] <= s
  BY <1>1, AboveIs
<1>4. Top \in Nat
  BY TopIsLargest, PowersAre
<1>5. PICK x \in Nat : x = c - b[n - 1]
  BY <1>2, <1>3
<1>6. CASE c - b[n] < s
  <2>1. s <= x /\ x < 2 * s
    BY <1>2, <1>3, <1>5, <1>6
  <2>2. round_down_to_power_of_2(x) = s
    BY <1>2, <2>1, RoundDown
  <2>3. ~(b[n - 1] + s = c /\ n < d)
    BY <1>2, <1>3
  <2> QED BY <1>2, <1>5, <2>2, <2>3 DEF NextSize
<1>7. CASE c - b[n] = s
  <2>1. x = 2 * s /\ b[n - 1] + 2 * s = c
    BY <1>2, <1>3, <1>5, <1>7
  <2>2. PICK p \in Nat : p = 2 * s
    BY <1>2
  <2>3. p \in PowersOfTwo
    <3>1. 2 * s <= Top
      BY <1>2, <1>4, <2>1
    <3> QED BY <1>2, <2>2, <3>1, DoubleIsPower
  <2>4. round_down_to_power_of_2(x) = p
    <3>1. p <= x /\ x < 2 * p
      BY <1>2, <2>1, <2>2
    <3> QED BY <2>3, <3>1, RoundDown
  <2>5. n < d
    <3>1. b[d] = c
      BY DEF Shape
    <3>2. n # d
      BY <1>2, <1>7, <3>1
    <3> QED BY <3>2
  <2>6. p \div 2 = s
    BY <1>2, <2>2
  <2>7. b[n - 1] + p = c
    BY <2>1, <2>2
  <2> QED BY <1>2, <1>5, <2>4, <2>5, <2>6, <2>7 DEF NextSize
<1> QED BY <1>2, <1>3, <1>6, <1>7

\* The greedy sizes are the stack's.
LEMMA SizesAreOfShape ==
  ASSUME NEW b, NEW d \in Nat, NEW c \in Nat, c <= Top, Shape(b, d, c)
  PROVE  \A n \in 0 .. d : TheSizes(d, c)[n] = b[n]
<1>1. PICK f : f = TheSizes(d, c)
  OBVIOUS
<1>2. f = Sizes(f, d, c)
  <2>1. PICK fn : fn = [n \in 0 .. d |-> b[n]]
    OBVIOUS
  <2>2. \A n \in 0 .. d : (IF n = 0 THEN 0 ELSE NextSize(fn[n - 1], n, d, c)) = b[n]
    <3>1. ASSUME NEW n \in 0 .. d, n = 0
          PROVE  b[n] = 0
      BY <3>1 DEF Shape
    <3>2. ASSUME NEW n \in 0 .. d, n # 0
          PROVE  NextSize(fn[n - 1], n, d, c) = b[n]
      <4>1. n \in 1 .. d /\ n - 1 \in 0 .. d
        BY <3>2
      <4>2. fn[n - 1] = b[n - 1]
        BY <2>1, <4>1
      <4>3. NextSize(b[n - 1], n, d, c) = b[n]
        BY <4>1, NextSizeIs
      <4> QED BY <4>2, <4>3
    <3> QED BY <3>1, <3>2
  <2>3. fn = Sizes(fn, d, c)
    BY <2>1, <2>2 DEF Sizes
  <2> QED BY <1>1, <2>3 DEF TheSizes
<1>3. PICK T : T = {n \in 0 .. d : f[n] = b[n]}
  OBVIOUS
<1>4. T = 0 .. d
  <2>1. T \in SUBSET (0 .. d)
    BY <1>3
  <2>2. 0 \in T
    <3>1. f[0] = 0
      BY <1>2 DEF Sizes
    <3>2. b[0] = 0
      BY DEF Shape
    <3> QED BY <1>3, <3>1, <3>2
  <2>3. ASSUME NEW k \in 1 .. d, k - 1 \in T
        PROVE  k \in T
    <3>1. f[k - 1] = b[k - 1] /\ k \in 0 .. d /\ k # 0
      BY <1>3, <2>3
    <3>2. f[k] = NextSize(f[k - 1], k, d, c)
      BY <1>2, <3>1 DEF Sizes
    <3>3. NextSize(b[k - 1], k, d, c) = b[k]
      BY NextSizeIs
    <3> QED BY <1>3, <3>1, <3>2, <3>3
  <2> QED BY <2>1, <2>2, <2>3, UpTo
<1> QED BY <1>1, <1>3, <1>4

SubtreesAt(s, d, c, st, key, flags) ==
  /\ s[d] = c
  /\ \A n \in 1 .. d :
       st[n] = FirstBytes(NodeOf(key, flags, Message, s[n - 1], (s[n] - s[n - 1]) * CHUNK_LEN))

LEMMA SubtreesSteps ==
  SubtreesAt(TheSizes(Len(hasher.cv_stack), hasher.chunk.chunk_counter), Len(hasher.cv_stack),
             hasher.chunk.chunk_counter, hasher.cv_stack, TreeKey(mode), TreeFlags(mode))
    => StackHoldsSubtrees
BY DEF StackHoldsSubtrees, SubtreesAt, TheSizes, Sizes, NextSize, NodeOf

LEMMA HeldAreSubtrees ==
  ASSUME FedIsHeld
  PROVE  StackHoldsSubtrees
<1>1. PICK key, flags : key = TreeKey(mode) /\ flags = TreeFlags(mode)
  OBVIOUS
<1>2. fed \in Nat /\ fed <= MaxLength /\ Ready(hasher, fed, key, flags, Message)
  BY <1>1, MaxLengthIs DEF FedIsHeld
<1>3. \E c \in Nat, r \in 0 .. CHUNK_LEN, d \in Nat : \E st, b :
        Stacked(hasher, fed, c, r, st, d, b, key, flags, Message)
  BY <1>2, StackedIs
<1>4. PICK c \in Nat, r \in 0 .. CHUNK_LEN, d \in Nat : \E st, b :
        Stacked(hasher, fed, c, r, st, d, b, key, flags, Message)
  BY <1>3
<1>5. PICK st, b : Stacked(hasher, fed, c, r, st, d, b, key, flags, Message)
  BY <1>4
<1>6. /\ hasher.chunk.chunk_counter = c
      /\ hasher.cv_stack = st /\ Len(st) = d /\ c <= Top
  BY <1>2, <1>5, StackedParts
<1>7. Shape(b, d, c) /\ Values(st, b, d, key, flags, Message)
  BY <1>5 DEF Stacked
<1>8. PICK s : s = TheSizes(d, c)
  OBVIOUS
<1>9. \A n \in 0 .. d : s[n] = b[n]
  BY <1>6, <1>7, <1>8, SizesAreOfShape
<1>10. s[d] = c
  <2>1. b[d] = c /\ d \in 0 .. d
    BY <1>7 DEF Shape
  <2> QED BY <1>9, <2>1
<1>11. ASSUME NEW n \in 1 .. d
       PROVE  st[n] = FirstBytes(NodeOf(key, flags, Message, s[n - 1], (s[n] - s[n - 1]) * CHUNK_LEN))
  <2>1. n \in 0 .. d /\ n - 1 \in 0 .. d
    OBVIOUS
  <2>2. s[n] = b[n] /\ s[n - 1] = b[n - 1]
    BY <1>9, <2>1
  <2>3. st[n] = FirstBytes(NodeOf(key, flags, Message, b[n - 1], Size(b, n) * CHUNK_LEN))
    BY <1>7 DEF Values
  <2> QED BY <2>2, <2>3 DEF Size
<1>12. SubtreesAt(s, d, c, st, key, flags)
  BY <1>10, <1>11 DEF SubtreesAt
<1> QED BY <1>1, <1>6, <1>8, <1>12, SubtreesSteps

\* (hasher_push_cv, blake3.cpp:451)  After any updates the stack holds the values
\* of the tree's subtrees, for which the number of chunks has bits.
THEOREM StacksHoldSubtrees == HasherSpec => []StackHoldsSubtrees
<1>1. HasherInit => FedIsHeld
  BY FedIsHeldInit
<1>2. FedIsHeld /\ [HasherNext]_hasherVars => FedIsHeld'
  BY FedIsHeldStep
<1>3. FedIsHeld => StackHoldsSubtrees
  BY HeldAreSubtrees
<1> QED BY <1>1, <1>2, <1>3, PTL DEF HasherSpec

-----------------------------------------------------------------------------
(* The halves of a word                                                    *)

LEMMA TwosAre ==
  /\ \A n \in 0 .. 16 : two_to[n] \in Nat \ {0}
  /\ two_to[0] = 1
  /\ \A n \in 1 .. 16 : two_to[n] = 2 * two_to[n - 1]
<1> DEFINE Step(f) == [n \in 0 .. 16 |-> IF n = 0 THEN 1 ELSE 2 * f[n - 1]]
           F == [n \in 1 .. 16 |-> [x \in Nat \ {0} |-> 2 * x]]
           p == CHOOSE f : f = Step(f)
<1>1. two_to = p
  BY DEF two_to
<1>2. PICK f \in [0 .. 16 -> Nat \ {0}] : Solves(f, 16, 1, F)
  <2>1. F \in [1 .. 16 -> [Nat \ {0} -> Nat \ {0}]] /\ 1 \in Nat \ {0} /\ 16 \in Nat
    OBVIOUS
  <2> HIDE DEF F
  <2> QED BY <2>1, StepsExist
<1>3. f = Step(f)
  <2>1. ASSUME NEW n \in 0 .. 16
        PROVE  f[n] = IF n = 0 THEN 1 ELSE 2 * f[n - 1]
    <3>1. CASE n = 0
      BY <1>2, <3>1 DEF Solves
    <3>2. CASE n # 0
      <4>1. n \in 1 .. 16 /\ f[n - 1] \in Nat \ {0}
        BY <3>2
      <4> QED BY <1>2, <3>2, <4>1 DEF Solves
    <3> QED BY <3>1, <3>2
  <2> QED BY <2>1
<1>4. p = Step(p)
  <2> HIDE DEF Step
  <2> QED BY <1>3
<1>5. \A n \in 0 .. 16 : p[n] = IF n = 0 THEN 1 ELSE 2 * p[n - 1]
  <2>1. \A n \in 0 .. 16 : p[n] = Step(p)[n]
    <3> HIDE DEF p, Step
    <3> QED BY <1>4
  <2> HIDE DEF p
  <2> QED BY <2>1
<1> HIDE DEF p
<1> DEFINE T == {n \in 0 .. 16 : p[n] \in Nat \ {0}}
<1>6. T = 0 .. 16
  <2>1. 0 \in T /\ T \in SUBSET (0 .. 16) /\ 16 \in Nat
    BY <1>5
  <2>2. ASSUME NEW k \in 1 .. 16, k - 1 \in T
        PROVE  k \in T
    BY <1>5, <2>2
  <2> HIDE DEF T
  <2> QED BY <2>1, <2>2, UpTo
<1>7. \A n \in 1 .. 16 : p[n] = 2 * p[n - 1]
  BY <1>5
<1>8. p[0] = 1
  BY <1>5
<1> QED BY <1>1, <1>6, <1>7, <1>8

\* The powers a distance of g shifts by.
LEMMA TwosInNumbers ==
  /\ two_to[0] = 1 /\ two_to[4] = 16 /\ two_to[7] = 128 /\ two_to[8] = 256
  /\ two_to[9] = 512 /\ two_to[12] = 4096 /\ two_to[16] = 65536
<1>1. two_to[1] = 2 /\ two_to[2] = 4 /\ two_to[3] = 8 /\ two_to[4] = 16
  BY TwosAre
<1>2. two_to[5] = 32 /\ two_to[6] = 64 /\ two_to[7] = 128 /\ two_to[8] = 256
  BY <1>1, TwosAre
<1>3. two_to[9] = 512 /\ two_to[10] = 1024 /\ two_to[11] = 2048 /\ two_to[12] = 4096
  BY <1>2, TwosAre
<1>4. two_to[13] = 8192 /\ two_to[14] = 16384 /\ two_to[15] = 32768 /\ two_to[16] = 65536
  BY <1>3, TwosAre
<1> QED BY <1>1, <1>2, <1>3, <1>4, TwosAre

LEMMA HalfWordsAre ==
  /\ HALF_WORD = 65536
  /\ \A a \in Halves : a \in Nat /\ a < 65536
  /\ \A a \in Nat : a < 65536 => a \in Halves
<1>1. HALF_WORD = 65536
  BY TwosInNumbers DEF HALF_WORD
<1>2. \A n \in Nat : /\ \A a \in 0 .. n - 1 : a \in Nat /\ a < n
                    /\ \A a \in Nat : a < n => a \in 0 .. n - 1
  OBVIOUS
<1>3. HALF_WORD \in Nat
  BY <1>1
<1>4. /\ \A a \in Halves : a \in Nat /\ a < HALF_WORD
      /\ \A a \in Nat : a < HALF_WORD => a \in Halves
  BY <1>2, <1>3, Zenon DEF Halves
<1> QED BY <1>1, <1>4

\* The low digits of a number in base two, with one more and without it.
LEMMA OneMoreDigit ==
  ASSUME NEW p \in Nat \ {0}, NEW x \in Nat
  PROVE  /\ x % (2 * p) = (x % p) + p * ((x \div p) % 2)
         /\ (x % (2 * p)) % p = x % p
<1>1. PICK q, r : q = x \div p /\ r = x % p
  OBVIOUS
<1>2. q \in Nat /\ r \in 0 .. p - 1 /\ x = p * q + r
  BY <1>1, QuotientRemainder
<1>3. PICK h \in Nat, e \in 0 .. 1 : q = 2 * h + e /\ e = q % 2
  <2>1. q \div 2 \in Nat /\ q % 2 \in 0 .. 1 /\ q = 2 * (q \div 2) + (q % 2)
    BY <1>2
  <2> QED BY <2>1
<1>4. p * e \in Nat /\ p * e + r \in 0 .. 2 * p - 1 /\ 2 * p \in Nat \ {0}
  <2>1. CASE e = 0
    BY <1>2, <2>1
  <2>2. CASE e = 1
    BY <1>2, <2>2
  <2> QED BY <2>1, <2>2
<1>5. x = (2 * p) * h + (p * e + r)
  <2>1. p * (2 * h + e) = (2 * p) * h + p * e
    OBVIOUS
  <2> QED BY <1>2, <1>3, <2>1
<1>6. x % (2 * p) = p * e + r
  <2>1. PICK m, s : m = 2 * p /\ s = p * e + r
    OBVIOUS
  <2>2. m \in Nat \ {0} /\ s \in 0 .. m - 1 /\ x = m * h + s
    BY <1>4, <1>5, <2>1
  <2>3. (m * h + s) % m = s
    BY <2>2, Quotient
  <2> QED BY <2>1, <2>2, <2>3
<1>7. (p * e + r) % p = r
  <2>1. e \in Nat
    OBVIOUS
  <2> QED BY <1>2, <2>1, Quotient
<1>8. p * e + r = r + p * e
  BY <1>2, <1>4
<1> QED BY <1>1, <1>3, <1>6, <1>7, <1>8

\* The bit two halves differ in.
BitOfXor(a, b, n) == (a \div two_to[n] + b \div two_to[n]) % 2

\* XorHalves sums the bits up.
LEMMA XorInSteps ==
  ASSUME NEW a \in Halves, NEW b \in Halves
  PROVE  \E f \in [0 .. 16 -> Nat] :
           /\ f[0] = 0 /\ f[16] = XorHalves(a, b)
           /\ \A n \in 1 .. 16 : f[n] = f[n - 1] + two_to[n - 1] * BitOfXor(a, b, n - 1)
<1> DEFINE Term(n) == two_to[n] * ((a \div two_to[n] + b \div two_to[n]) % 2)
           Step(f) == [n \in 0 .. 16 |-> IF n = 0 THEN 0 ELSE f[n - 1] + Term(n - 1)]
           F == [n \in 1 .. 16 |-> [x \in Nat |-> x + Term(n - 1)]]
           p == CHOOSE f : f = Step(f)
<1>1. XorHalves(a, b) = p[16]
  BY DEF XorHalves
<1>2. \A n \in 0 .. 16 : Term(n) \in Nat
  <2>1. ASSUME NEW n \in 0 .. 16
        PROVE  Term(n) \in Nat
    <3>1. PICK t \in Nat \ {0} : t = two_to[n]
      BY TwosAre
    <3>2. a \in Nat /\ b \in Nat
      BY HalfWordsAre
    <3>3. a \div t \in Nat /\ b \div t \in Nat
      BY <3>2, QuotientRemainder
    <3>4. (a \div t + b \div t) % 2 \in Nat
      BY <3>3
    <3> QED BY <3>1, <3>4
  <2> QED BY <2>1
<1> HIDE DEF Term
<1>3. PICK f \in [0 .. 16 -> Nat] : Solves(f, 16, 0, F)
  <2>1. F \in [1 .. 16 -> [Nat -> Nat]] /\ 0 \in Nat /\ 16 \in Nat
    BY <1>2
  <2> HIDE DEF F
  <2> QED BY <2>1, StepsExist
<1>4. f = Step(f)
  <2>1. ASSUME NEW n \in 0 .. 16
        PROVE  f[n] = IF n = 0 THEN 0 ELSE f[n - 1] + Term(n - 1)
    <3>1. CASE n = 0
      BY <1>3, <3>1 DEF Solves
    <3>2. CASE n # 0
      <4>1. n \in 1 .. 16 /\ f[n - 1] \in Nat
        BY <3>2
      <4> QED BY <1>3, <3>2, <4>1 DEF Solves
    <3> QED BY <3>1, <3>2
  <2> QED BY <2>1
<1>5. p = Step(p)
  <2> HIDE DEF Step
  <2> QED BY <1>4
<1>6. \A n \in 0 .. 16 : p[n] = IF n = 0 THEN 0 ELSE p[n - 1] + Term(n - 1)
  <2>1. \A n \in 0 .. 16 : p[n] = Step(p)[n]
    <3> HIDE DEF p, Step
    <3> QED BY <1>5
  <2> HIDE DEF p
  <2> QED BY <2>1
<1>7. p = [n \in 0 .. 16 |-> p[n]]
  <2> DEFINE q == Step(p)
  <2>1. q = [n \in 0 .. 16 |-> q[n]]
    OBVIOUS
  <2> HIDE DEF q, p
  <2> QED BY <1>5, <2>1 DEF q
<1> HIDE DEF p
<1> DEFINE T == {n \in 0 .. 16 : p[n] \in Nat}
<1>8. T = 0 .. 16
  <2>1. 0 \in T /\ T \in SUBSET (0 .. 16) /\ 16 \in Nat
    BY <1>6
  <2>2. ASSUME NEW k \in 1 .. 16, k - 1 \in T
        PROVE  k \in T
    BY <1>2, <1>6, <2>2
  <2> HIDE DEF T
  <2> QED BY <2>1, <2>2, UpTo
<1>9. p \in [0 .. 16 -> Nat]
  BY <1>7, <1>8
<1>10. p[0] = 0 /\ \A n \in 1 .. 16 : p[n] = p[n - 1] + Term(n - 1)
  BY <1>6
<1>11. \A n \in 0 .. 16 : Term(n) = two_to[n] * BitOfXor(a, b, n)
  BY DEF Term, BitOfXor
<1>12. \A n \in 1 .. 16 : p[n] = p[n - 1] + two_to[n - 1] * BitOfXor(a, b, n - 1)
  <2>1. \A n \in 1 .. 16 : n - 1 \in 0 .. 16
    OBVIOUS
  <2> QED BY <1>10, <1>11, <2>1
<1> QED BY <1>1, <1>9, <1>10, <1>12

\* The first n sums are the n low digits of the result.
LEMMA DigitsOfXor ==
  ASSUME NEW a \in Halves, NEW b \in Halves
  PROVE  /\ XorHalves(a, b) \in Halves
         /\ \A n \in 0 .. 15 : (XorHalves(a, b) \div two_to[n]) % 2 = BitOfXor(a, b, n)
<1>1. PICK f \in [0 .. 16 -> Nat] :
        /\ f[0] = 0 /\ f[16] = XorHalves(a, b)
        /\ \A n \in 1 .. 16 : f[n] = f[n - 1] + two_to[n - 1] * BitOfXor(a, b, n - 1)
  BY XorInSteps
<1>2. PICK x : x = f[16]
  OBVIOUS
<1>3. x \in Nat
  BY <1>2
<1>4. \A n \in 0 .. 16 : BitOfXor(a, b, n) \in 0 .. 1
  <2>1. ASSUME NEW n \in 0 .. 16
        PROVE  BitOfXor(a, b, n) \in 0 .. 1
    <3>1. PICK t \in Nat \ {0} : t = two_to[n]
      BY TwosAre
    <3>2. a \in Nat /\ b \in Nat
      BY HalfWordsAre
    <3>3. a \div t \in Nat /\ b \div t \in Nat
      BY <3>2, QuotientRemainder
    <3>4. (a \div t + b \div t) % 2 \in 0 .. 1
      BY <3>3
    <3> QED BY <3>1, <3>4 DEF BitOfXor
  <2> QED BY <2>1
<1> DEFINE T == {n \in 0 .. 16 : f[n] < two_to[n]}
<1>5. T = 0 .. 16
  <2>1. 0 \in T /\ T \in SUBSET (0 .. 16) /\ 16 \in Nat
    BY <1>1, TwosAre
  <2>2. ASSUME NEW k \in 1 .. 16, k - 1 \in T
        PROVE  k \in T
    <3>1. PICK t \in Nat \ {0}, e \in 0 .. 1 : t = two_to[k - 1] /\ e = BitOfXor(a, b, k - 1)
      <4>1. k - 1 \in 0 .. 16
        OBVIOUS
      <4> QED BY <1>4, <4>1, TwosAre
    <3>2. f[k] = f[k - 1] + t * e /\ two_to[k] = 2 * t /\ f[k - 1] < t
          /\ f[k - 1] \in Nat
      BY <1>1, <2>2, <3>1, TwosAre
    <3>3. t * e <= t /\ t * e \in Nat
      <4>1. CASE e = 0
        BY <4>1
      <4>2. CASE e = 1
        BY <4>2
      <4> QED BY <4>1, <4>2
    <3> QED BY <3>2, <3>3
  <2> HIDE DEF T
  <2> QED BY <2>1, <2>2, UpTo
<1>6. \A n \in 0 .. 16 : f[n] < two_to[n]
  BY <1>5
<1> DEFINE D == {m \in 0 .. 16 : x % two_to[16 - m] = f[16 - m]}
<1>7. D = 0 .. 16
  <2>1. 0 \in D /\ D \in SUBSET (0 .. 16) /\ 16 \in Nat
    <3>1. x < two_to[16] /\ two_to[16] \in Nat
      BY <1>2, <1>6, TwosAre
    <3>2. x % two_to[16] = x
      BY <1>3, <3>1, TwosInNumbers
    <3> QED BY <1>2, <3>2
  <2>2. ASSUME NEW k \in 1 .. 16, k - 1 \in D
        PROVE  k \in D
    <3>1. PICK n \in 1 .. 16 : n = 16 - (k - 1) /\ n - 1 = 16 - k /\ n - 1 \in 0 .. 16
      <4>1. 16 - (k - 1) \in 1 .. 16 /\ 16 - (k - 1) - 1 = 16 - k /\ 16 - k \in 0 .. 16
        OBVIOUS
      <4> QED BY <4>1
    <3>2. PICK t \in Nat \ {0}, e \in 0 .. 1 : t = two_to[n - 1] /\ e = BitOfXor(a, b, n - 1)
      BY <1>4, <3>1, TwosAre
    <3>3. x % (2 * t) = f[n]
      <4>1. x % two_to[16 - (k - 1)] = f[16 - (k - 1)]
        BY <2>2
      <4>2. two_to[n] = 2 * t
        BY <3>2, TwosAre
      <4> QED BY <3>1, <4>1, <4>2
    <3>4. f[n] = t * e + f[n - 1] /\ f[n - 1] \in 0 .. t - 1 /\ e \in Nat
      <4>1. f[n - 1] \in Nat /\ f[n - 1] < t
        BY <1>6, <3>1, <3>2
      <4>2. f[n] = f[n - 1] + t * e
        BY <1>1, <3>2
      <4> QED BY <4>1, <4>2
    <3>5. (t * e + f[n - 1]) % t = f[n - 1]
      BY <3>4, Quotient
    <3>6. (x % (2 * t)) % t = x % t
      BY <1>3, OneMoreDigit
    <3>7. x % two_to[n - 1] = f[n - 1]
      BY <3>2, <3>3, <3>4, <3>5, <3>6
    <3> QED BY <3>1, <3>7
  <2> HIDE DEF D
  <2> QED BY <2>1, <2>2, UpTo
<1>8. ASSUME NEW n \in 0 .. 16
      PROVE  x % two_to[n] = f[n]
  <2>1. 16 - n \in 0 .. 16 /\ 16 - (16 - n) = n
    OBVIOUS
  <2>2. x % two_to[16 - (16 - n)] = f[16 - (16 - n)]
    BY <1>7, <2>1
  <2> QED BY <2>1, <2>2
<1>9. ASSUME NEW n \in 0 .. 15
      PROVE  (x \div two_to[n]) % 2 = BitOfXor(a, b, n)
  <2>1. PICK t \in Nat \ {0}, e \in 0 .. 1 : t = two_to[n] /\ e = BitOfXor(a, b, n)
    <3>1. n \in 0 .. 16
      OBVIOUS
    <3> QED BY <1>4, <3>1, TwosAre
  <2>2. n + 1 \in 1 .. 16 /\ n + 1 - 1 = n /\ n \in 0 .. 16 /\ n + 1 \in 0 .. 16
    OBVIOUS
  <2>3. two_to[n + 1] = 2 * t /\ f[n + 1] = f[n] + t * e
    BY <1>1, <2>1, <2>2, TwosAre
  <2>4. x % (2 * t) = f[n] + t * e /\ x % t = f[n] /\ f[n] \in Nat
    BY <1>8, <2>1, <2>2, <2>3
  <2>5. PICK d \in 0 .. 1 : d = (x \div t) % 2
    <3>1. x \div t \in Nat
      BY <1>3, QuotientRemainder
    <3>2. (x \div t) % 2 \in 0 .. 1
      BY <3>1
    <3> QED BY <3>2
  <2>6. x % (2 * t) = (x % t) + t * ((x \div t) % 2)
    BY <1>3, OneMoreDigit
  <2>7. f[n] + t * e = f[n] + t * d
    BY <2>4, <2>5, <2>6
  <2>8. d = e
    <3>1. CASE e = 0 /\ d = 1
      BY <2>4, <2>7, <3>1
    <3>2. CASE e = 1 /\ d = 0
      BY <2>4, <2>7, <3>2
    <3> QED BY <3>1, <3>2
  <2> QED BY <2>1, <2>5, <2>8
<1>10. x \in Halves
  BY <1>2, <1>3, <1>6, TwosInNumbers, HalfWordsAre
<1> QED BY <1>1, <1>2, <1>9, <1>10

\* A half is known by its bits.
LEMMA HalvesAreTheirBits ==
  ASSUME NEW a \in Halves, NEW b \in Halves,
         \A n \in 0 .. 15 : (a \div two_to[n]) % 2 = (b \div two_to[n]) % 2
  PROVE  a = b
<1> DEFINE T == {n \in 0 .. 16 : a % two_to[n] = b % two_to[n]}
<1>1. a \in Nat /\ b \in Nat
  BY HalfWordsAre
<1>2. T = 0 .. 16
  <2>1. 0 \in T /\ T \in SUBSET (0 .. 16) /\ 16 \in Nat
    <3>1. a % 1 = 0 /\ b % 1 = 0
      BY <1>1
    <3> QED BY <3>1, TwosAre
  <2>2. ASSUME NEW k \in 1 .. 16, k - 1 \in T
        PROVE  k \in T
    <3>1. k - 1 \in 0 .. 16 /\ k - 1 \in 0 .. 15
      OBVIOUS
    <3>2. PICK t \in Nat \ {0} : t = two_to[k - 1]
      BY <3>1, TwosAre
    <3>3. two_to[k] = 2 * t /\ a % t = b % t /\ (a \div t) % 2 = (b \div t) % 2
      BY <2>2, <3>1, <3>2, TwosAre
    <3>4. a % (2 * t) = (a % t) + t * ((a \div t) % 2)
      BY <1>1, OneMoreDigit
    <3>5. b % (2 * t) = (b % t) + t * ((b \div t) % 2)
      BY <1>1, OneMoreDigit
    <3>6. a % two_to[k] = b % two_to[k]
      BY <3>3, <3>4, <3>5
    <3> QED BY <3>6
  <2> HIDE DEF T
  <2> QED BY <2>1, <2>2, UpTo
<1>3. a % two_to[16] = b % two_to[16]
  <2>1. 16 \in T
    BY <1>2
  <2> QED BY <2>1
<1> QED BY <1>3, TwosInNumbers, HalfWordsAre

\* What is put over a half twice is taken off.
LEMMA XorTwice ==
  ASSUME NEW a \in Halves, NEW b \in Halves
  PROVE  XorHalves(XorHalves(a, b), b) = a /\ XorHalves(a, b) \in Halves
<1>1. PICK x : x = XorHalves(a, b)
  OBVIOUS
<1>2. x \in Halves /\ \A n \in 0 .. 15 : (x \div two_to[n]) % 2 = BitOfXor(a, b, n)
  BY <1>1, DigitsOfXor
<1>3. PICK y : y = XorHalves(x, b)
  OBVIOUS
<1>4. y \in Halves /\ \A n \in 0 .. 15 : (y \div two_to[n]) % 2 = BitOfXor(x, b, n)
  BY <1>2, <1>3, DigitsOfXor
<1>5. ASSUME NEW n \in 0 .. 15
      PROVE  (y \div two_to[n]) % 2 = (a \div two_to[n]) % 2
  <2>1. n \in 0 .. 16
    OBVIOUS
  <2>2. PICK t \in Nat \ {0} : t = two_to[n]
    BY <2>1, TwosAre
  <2>3. a \in Nat /\ b \in Nat /\ x \in Nat
    BY <1>2, HalfWordsAre
  <2>4. PICK i \in Nat, j \in Nat, k \in Nat : i = a \div t /\ j = b \div t /\ k = x \div t
    <3>1. a \div t \in Nat /\ b \div t \in Nat /\ x \div t \in Nat
      BY <2>3, QuotientRemainder
    <3> QED BY <3>1
  <2>5. k % 2 = (i + j) % 2
    BY <1>2, <2>2, <2>4 DEF BitOfXor
  <2>6. (y \div t) % 2 = (k + j) % 2
    BY <1>4, <2>2, <2>4 DEF BitOfXor
  <2>7. (k + j) % 2 = i % 2
    BY <2>5
  <2> QED BY <2>2, <2>4, <2>6, <2>7
<1>6. y = a
  BY <1>2, <1>4, <1>5, HalvesAreTheirBits
<1> QED BY <1>1, <1>2, <1>3, <1>6

-----------------------------------------------------------------------------
(* Words                                                                   *)

Words == Halves \X Halves

\* A word is its two halves.
LEMMA WordsAre ==
  /\ \A i \in Halves, j \in Halves : <<i, j>> \in Words
  /\ \A w \in Words : \E i \in Halves, j \in Halves : w = <<i, j>>
BY DEF Words

\* What is over the half and what is under it.
LEMMA Carries ==
  /\ \A s \in Nat : /\ s < 65536 => s % 65536 = s /\ s \div 65536 = 0
                    /\ s >= 65536 /\ s < 131072 =>
                         s % 65536 = s - 65536 /\ s \div 65536 = 1
                    /\ s >= 131072 /\ s < 196608 =>
                         s % 65536 = s - 131072 /\ s \div 65536 = 2
  /\ \A s \in Int : s < 0 /\ s >= -65536 => s % 65536 = s + 65536
OBVIOUS

LEMMA AddIsUndone ==
  ASSUME NEW x \in Words, NEW y \in Words
  PROVE  Add(x, y) \in Words /\ Sub(Add(x, y), y) = x
<1>1. PICK i \in Halves, j \in Halves, k \in Halves, l \in Halves : x = <<i, j>> /\ y = <<k, l>>
  BY WordsAre
<1>2. /\ i \in Nat /\ j \in Nat /\ k \in Nat /\ l \in Nat
      /\ i < 65536 /\ j < 65536 /\ k < 65536 /\ l < 65536
  BY HalfWordsAre
<1>3. PICK c \in 0 .. 1, v \in Nat : /\ c = (j + l) \div 65536 /\ v = (j + l) % 65536
                                     /\ v < 65536 /\ j + l = 65536 * c + v
  <2>1. CASE j + l < 65536
    BY <1>2, <2>1, Carries
  <2>2. CASE j + l >= 65536
    BY <1>2, <2>2, Carries
  <2> QED BY <1>2, <2>1, <2>2
<1>4. PICK e \in 0 .. 1, u \in Nat : /\ u = (i + k + c) % 65536
                                     /\ u < 65536 /\ i + k + c = 65536 * e + u
  <2>1. CASE i + k + c < 65536
    BY <1>2, <2>1, Carries
  <2>2. CASE i + k + c >= 65536
    BY <1>2, <2>2, Carries
  <2> QED BY <1>2, <2>1, <2>2
<1>5. Add(x, y) = <<u, v>>
  BY <1>1, <1>3, <1>4, HalfWordsAre DEF Add
<1>6. u \in Halves /\ v \in Halves
  BY <1>3, <1>4, HalfWordsAre
<1>7. (v - l) % 65536 = j /\ (v < l <=> c = 1)
  <2>1. CASE c = 0
    BY <1>2, <1>3, <2>1, Carries
  <2>2. CASE c = 1
    <3>1. v - l \in Int /\ v - l < 0 /\ v - l >= -65536 /\ j = v - l + 65536
      BY <1>2, <1>3, <2>2
    <3> QED BY <2>2, <3>1, Carries
  <2> QED BY <2>1, <2>2
<1>8. (u - k - c) % 65536 = i
  <2>1. CASE e = 0
    BY <1>2, <1>4, <2>1, Carries
  <2>2. CASE e = 1
    <3>1. u - k - c \in Int /\ u - k - c < 0 /\ u - k - c >= -65536 /\ i = u - k - c + 65536
      BY <1>2, <1>4, <2>2
    <3> QED BY <3>1, Carries
  <2> QED BY <2>1, <2>2
<1>9. Sub(<<u, v>>, y) = <<(u - k - (IF v < l THEN 1 ELSE 0)) % 65536, (v - l) % 65536>>
  BY <1>1, HalfWordsAre DEF Sub
<1>10. (IF v < l THEN 1 ELSE 0) = c
  BY <1>7
<1>11. Sub(Add(x, y), y) = x
  BY <1>1, <1>5, <1>7, <1>8, <1>9, <1>10
<1> QED BY <1>5, <1>6, <1>11, WordsAre

\* Of three words the order of the sums does not matter.
LEMMA SumsCommute ==
  ASSUME NEW x \in Words, NEW y \in Words, NEW z \in Words
  PROVE  Add(Add(x, y), z) = Add(Add(x, z), y)
<1> DEFINE High(s, t) == (s + (t \div 65536)) % 65536
           Sum(i, j, k, l, m, n) == <<High(i + k + m, j + l + n), (j + l + n) % 65536>>
<1>1. ASSUME NEW i \in Halves, NEW j \in Halves, NEW k \in Halves, NEW l \in Halves,
             NEW m \in Halves, NEW n \in Halves
      PROVE  Add(Add(<<i, j>>, <<k, l>>), <<m, n>>) = Sum(i, j, k, l, m, n)
  <2>1. /\ i \in Nat /\ j \in Nat /\ k \in Nat /\ l \in Nat /\ m \in Nat /\ n \in Nat
        /\ i < 65536 /\ j < 65536 /\ k < 65536 /\ l < 65536 /\ m < 65536 /\ n < 65536
    BY HalfWordsAre
  <2>2. PICK c \in Nat, v \in Nat : c = (j + l) \div 65536 /\ v = (j + l) % 65536
                                    /\ v < 65536 /\ j + l = 65536 * c + v
    BY <2>1
  <2>3. PICK d \in Nat, w \in Nat : d = (v + n) \div 65536 /\ w = (v + n) % 65536
                                    /\ w < 65536 /\ v + n = 65536 * d + w
    BY <2>2, <2>1
  <2>4. (j + l + n) % 65536 = w /\ (j + l + n) \div 65536 = c + d
    BY <2>1, <2>2, <2>3
  <2>5. PICK u \in Nat : u = (i + k + c) % 65536
    BY <2>1, <2>2
  <2>6. (u + m + d) % 65536 = (i + k + m + (c + d)) % 65536
    <3>1. PICK e \in Nat : i + k + c = 65536 * e + u
      BY <2>1, <2>2, <2>5
    <3>2. i + k + m + (c + d) = 65536 * e + (u + m + d)
      BY <2>1, <2>2, <2>3, <3>1
    <3>3. \A r \in Nat : (65536 * e + r) % 65536 = r % 65536
      OBVIOUS
    <3> QED BY <2>1, <2>3, <3>2, <3>3
  <2>7. Add(<<i, j>>, <<k, l>>) = <<u, v>>
    BY <2>2, <2>5, HalfWordsAre DEF Add
  <2>8. Add(<<u, v>>, <<m, n>>) = <<(u + m + d) % 65536, w>>
    BY <2>3, HalfWordsAre DEF Add
  <2> QED BY <2>4, <2>6, <2>7, <2>8
<1>2. ASSUME NEW i \in Halves, NEW j \in Halves, NEW k \in Halves, NEW l \in Halves,
             NEW m \in Halves, NEW n \in Halves
      PROVE  Sum(i, j, k, l, m, n) = Sum(i, j, m, n, k, l)
  <2>1. /\ i \in Nat /\ j \in Nat /\ k \in Nat /\ l \in Nat /\ m \in Nat /\ n \in Nat
    BY HalfWordsAre
  <2>2. i + k + m = i + m + k /\ j + l + n = j + n + l
    BY <2>1
  <2> HIDE DEF High
  <2> QED BY <2>2
<1> HIDE DEF Sum
<1>3. PICK i \in Halves, j \in Halves, k \in Halves, l \in Halves, m \in Halves, n \in Halves :
        x = <<i, j>> /\ y = <<k, l>> /\ z = <<m, n>>
  BY WordsAre
<1> QED BY <1>1, <1>2, <1>3

LEMMA XorIsUndone ==
  ASSUME NEW x \in Words, NEW y \in Words
  PROVE  XorWords(x, y) \in Words /\ XorWords(XorWords(x, y), y) = x
<1>1. PICK i \in Halves, j \in Halves, k \in Halves, l \in Halves : x = <<i, j>> /\ y = <<k, l>>
  BY WordsAre
<1>2. PICK p, q : p = XorHalves(i, k) /\ q = XorHalves(j, l)
  OBVIOUS
<1>3. p \in Halves /\ q \in Halves /\ XorHalves(p, k) = i /\ XorHalves(q, l) = j
  BY <1>2, XorTwice
<1>4. XorWords(x, y) = <<p, q>>
  BY <1>1, <1>2 DEF XorWords
<1>5. XorWords(<<p, q>>, y) = <<i, j>>
  BY <1>1, <1>3 DEF XorWords
<1> QED BY <1>1, <1>3, <1>4, <1>5, WordsAre

\* A half of a word that is turned: the high digits of one half under the low
\* digits of the other.
Down(a, b, p, q) == (a \div p) + (b % p) * q
IsTurned(d, a, b, p, q) == d \in Nat /\ d < p * q /\ d % q = a \div p /\ d \div q = b % p

LEMMA TurnedHalf ==
  ASSUME NEW p \in Nat \ {0}, NEW q \in Nat \ {0}, NEW a \in Nat, NEW b \in Nat,
         a < p * q
  PROVE  IsTurned(Down(a, b, p, q), a, b, p, q)
<1>1. PICK i \in Nat, j \in 0 .. p - 1 : i = a \div p /\ a = p * i + j
  <2>1. a \div p \in Nat /\ a % p \in 0 .. p - 1 /\ a = p * (a \div p) + (a % p)
    BY QuotientRemainder
  <2>2. PICK i, j : i = a \div p /\ j = a % p
    OBVIOUS
  <2> QED BY <2>1, <2>2
<1>2. PICK k \in 0 .. p - 1 : k = b % p
  <2>1. b % p \in 0 .. p - 1
    BY QuotientRemainder
  <2> QED BY <2>1
<1>3. i \in 0 .. q - 1
  <2>1. ASSUME i >= q
        PROVE  FALSE
    <3>1. PICK e \in Nat : i = q + e
      <4>1. i - q \in Nat /\ i = q + (i - q)
        BY <2>1
      <4> QED BY <4>1
    <3>2. p * (q + e) = p * q + p * e /\ p * e \in Nat /\ p * q \in Nat
      OBVIOUS
    <3> QED BY <1>1, <3>1, <3>2
  <2> QED BY <2>1
<1>4. k \in Nat /\ i + k * q = q * k + i /\ q * k \in Nat
  OBVIOUS
<1>5. (q * k + i) % q = i /\ (q * k + i) \div q = k
  BY <1>3, <1>4, Quotient
<1>6. q * k + i < p * q
  <2>1. PICK e \in Nat : p = k + 1 + e
    <3>1. p - k - 1 \in Nat /\ p = k + 1 + (p - k - 1)
      OBVIOUS
    <3> QED BY <3>1
  <2>2. p * q = q * k + q + e * q /\ e * q \in Nat
    BY <2>1
  <2> QED BY <1>3, <1>4, <2>2
<1>7. (a \div p) + (b % p) * q = q * k + i
  BY <1>1, <1>2, <1>4
<1>8. q * k + i \in Nat
  BY <1>4
<1> QED BY <1>1, <1>2, <1>5, <1>6, <1>7, <1>8 DEF IsTurned, Down

\* Words are turned by the distances of g and back.
LEMMA TurnsAreUndone ==
  ASSUME NEW w \in Words, NEW c \in {7, 8, 12, 16}
  PROVE  rotr32(w, c) \in Words /\ rotr32(rotr32(w, c), 32 - c) = w
<1>1. PICK a \in Halves, b \in Halves : w = <<a, b>>
  BY WordsAre
<1>2. a \in Nat /\ b \in Nat /\ a < 65536 /\ b < 65536
  BY HalfWordsAre
<1>3. CASE c = 16
  <2>1. two_to[0] = 1 /\ two_to[16] = 65536
    BY TwosInNumbers
  <2>2. ASSUME NEW i \in Halves, NEW j \in Halves
        PROVE  rotr32(<<i, j>>, 16) = <<j, i>>
    <3>1. i \in Nat /\ j \in Nat
      BY HalfWordsAre
    <3>2. (i \div 1) + (j % 1) * 65536 = i /\ (j \div 1) + (i % 1) * 65536 = j
      BY <3>1
    <3>3. 16 % 16 = 0 /\ 16 >= 16 /\ 16 - 0 = 16
      OBVIOUS
    <3> QED BY <2>1, <3>2, <3>3 DEF rotr32
  <2>3. 32 - c = 16
    BY <1>3
  <2> QED BY <1>1, <1>3, <2>2, <2>3, WordsAre
<1>4. CASE c # 16
  <2>1. PICK p \in Nat \ {0}, q \in Nat \ {0} :
          /\ p = two_to[c] /\ q = two_to[16 - c] /\ p * q = 65536 /\ q * p = 65536
    <3>1. CASE c = 7
      <4>1. two_to[7] = 128 /\ two_to[9] = 512 /\ 16 - c = 9 /\ 128 * 512 = 65536
        BY <3>1, TwosInNumbers
      <4> QED BY <3>1, <4>1
    <3>2. CASE c = 8
      <4>1. two_to[8] = 256 /\ 16 - c = 8 /\ 256 * 256 = 65536
        BY <3>2, TwosInNumbers
      <4> QED BY <3>2, <4>1
    <3>3. CASE c = 12
      <4>1. two_to[12] = 4096 /\ two_to[4] = 16 /\ 16 - c = 4 /\ 4096 * 16 = 65536
        BY <3>3, TwosInNumbers
      <4> QED BY <3>3, <4>1
    <3> QED BY <1>4, <3>1, <3>2, <3>3
  <2>2. /\ c % 16 = c /\ ~(c >= 16)
        /\ (32 - c) % 16 = 16 - c /\ 32 - c >= 16 /\ 16 - (16 - c) = c
    BY <1>4
  <2>3. PICK h, l : h = Down(a, b, p, q) /\ l = Down(b, a, p, q)
    OBVIOUS
  <2>4. rotr32(w, c) = <<h, l>>
    BY <1>1, <2>1, <2>2, <2>3 DEF rotr32, Down
  <2>a. a < p * q /\ b < p * q
    BY <1>2, <2>1
  <2>b. IsTurned(h, a, b, p, q) /\ IsTurned(l, b, a, p, q)
    BY <1>2, <2>a, <2>3, TurnedHalf
  <2>5. h \in Nat /\ h < p * q /\ h % q = a \div p /\ h \div q = b % p
    BY <2>b DEF IsTurned
  <2>6. l \in Nat /\ l < p * q /\ l % q = b \div p /\ l \div q = a % p
    BY <2>b DEF IsTurned
  <2>7. h \in Halves /\ l \in Halves
    BY <2>1, <2>5, <2>6, HalfWordsAre
  <2>8. rotr32(<<h, l>>, 32 - c) = <<Down(l, h, q, p), Down(h, l, q, p)>>
    BY <2>1, <2>2 DEF rotr32, Down
  <2>9. \A i \in Nat : (i % p) + (i \div p) * p = i
    <3>1. ASSUME NEW i \in Nat
          PROVE  (i % p) + (i \div p) * p = i
      <4>1. i \div p \in Nat /\ i % p \in 0 .. p - 1 /\ i = p * (i \div p) + (i % p)
        BY QuotientRemainder
      <4>2. PICK m \in Nat, n \in Nat : m = i \div p /\ n = i % p
        BY <4>1
      <4>3. n + m * p = p * m + n
        OBVIOUS
      <4> QED BY <4>1, <4>2, <4>3
    <3> QED BY <3>1
  <2>10. Down(l, h, q, p) = a /\ Down(h, l, q, p) = b
    BY <1>2, <2>5, <2>6, <2>9 DEF Down
  <2> QED BY <1>1, <2>4, <2>7, <2>8, <2>10, WordsAre
<1> QED BY <1>3, <1>4

-----------------------------------------------------------------------------
(* Calls of g                                                              *)

Quads == [a : Words, b : Words, c : Words, d : Words]

LEMMA MixIsUndone ==
  ASSUME NEW v \in Quads, NEW x \in Words, NEW s \in {7, 8, 12, 16}, NEW t \in {7, 8, 12, 16}
  PROVE  /\ Mix(v, x, <<s, t>>) \in Quads
         /\ Unmix(Mix(v, x, <<s, t>>), x, <<s, t>>) = v
<1>1. v.a \in Words /\ v.b \in Words /\ v.c \in Words /\ v.d \in Words
      /\ v = [a |-> v.a, b |-> v.b, c |-> v.c, d |-> v.d]
  BY DEF Quads
<1>2. PICK a : a = Add(Add(v.a, v.b), x)
  OBVIOUS
<1>3. a \in Words /\ Sub(Sub(a, v.b), x) = v.a
  <2>1. PICK y : y = Add(v.a, x)
    OBVIOUS
  <2>2. y \in Words /\ Sub(y, x) = v.a
    BY <1>1, <2>1, AddIsUndone
  <2>3. a = Add(y, v.b)
    BY <1>1, <1>2, <2>1, SumsCommute
  <2>4. a \in Words /\ Sub(a, v.b) = y
    BY <1>1, <2>2, <2>3, AddIsUndone
  <2> QED BY <2>2, <2>4
<1>4. PICK e : e = XorWords(v.d, a)
  OBVIOUS
<1>5. e \in Words /\ XorWords(e, a) = v.d
  BY <1>1, <1>3, <1>4, XorIsUndone
<1>6. PICK d : d = rotr32(e, s)
  OBVIOUS
<1>7. d \in Words /\ rotr32(d, 32 - s) = e
  BY <1>5, <1>6, TurnsAreUndone
<1>8. PICK c : c = Add(v.c, d)
  OBVIOUS
<1>9. c \in Words /\ Sub(c, d) = v.c
  BY <1>1, <1>7, <1>8, AddIsUndone
<1>10. PICK u : u = XorWords(v.b, c)
  OBVIOUS
<1>11. u \in Words /\ XorWords(u, c) = v.b
  BY <1>1, <1>9, <1>10, XorIsUndone
<1>12. PICK b : b = rotr32(u, t)
  OBVIOUS
<1>13. b \in Words /\ rotr32(b, 32 - t) = u
  BY <1>11, <1>12, TurnsAreUndone
<1>14. PICK w : w = [a |-> a, b |-> b, c |-> c, d |-> d]
  OBVIOUS
<1>15. w.a = a /\ w.b = b /\ w.c = c /\ w.d = d
  BY <1>14
<1>16. <<s, t>>[1] = s /\ <<s, t>>[2] = t
  OBVIOUS
<1>17. Mix(v, x, <<s, t>>) = w
  BY <1>2, <1>4, <1>6, <1>8, <1>10, <1>12, <1>14, <1>16, Zenon DEF Mix
<1>18. w \in Quads
  BY <1>3, <1>7, <1>9, <1>13, <1>14 DEF Quads
<1>19. Unmix(w, x, <<s, t>>) = [a |-> v.a, b |-> v.b, c |-> v.c, d |-> v.d]
  <2>1. XorWords(rotr32(w.b, 32 - t), w.c) = v.b /\ XorWords(rotr32(w.d, 32 - s), w.a) = v.d
    BY <1>5, <1>7, <1>11, <1>13, <1>15, Zenon
  <2>2. Sub(Sub(w.a, v.b), x) = v.a /\ Sub(w.c, w.d) = v.c
    BY <1>3, <1>9, <1>15, Zenon
  <2> QED BY <1>16, <2>1, <2>2, Zenon DEF Unmix
<1> QED BY <1>1, <1>17, <1>18, <1>19, Zenon

\* Both halves of g.
LEMMA CallsAreUndone ==
  ASSUME NEW v \in Quads, NEW x \in Words, NEW y \in Words, NEW w,
         w = Mix(Mix(v, x, <<16, 12>>), y, <<8, 7>>)
  PROVE  w \in Quads /\ v = Unmix(Unmix(w, y, <<8, 7>>), x, <<16, 12>>)
<1>1. PICK u : u = Mix(v, x, <<16, 12>>)
  OBVIOUS
<1>2. u \in Quads /\ Unmix(u, x, <<16, 12>>) = v
  BY <1>1, MixIsUndone
<1>3. w = Mix(u, y, <<8, 7>>)
  BY <1>1
<1>4. w \in Quads /\ Unmix(w, y, <<8, 7>>) = u
  BY <1>2, <1>3, MixIsUndone
<1> QED BY <1>2, <1>4

States == [1 .. 16 -> Words]

\* Four words of a state.
IsLane(l) ==
  /\ l[1] \in 0 .. 15 /\ l[2] \in 0 .. 15 /\ l[3] \in 0 .. 15 /\ l[4] \in 0 .. 15
  /\ l[1] # l[2] /\ l[1] # l[3] /\ l[1] # l[4] /\ l[2] # l[3] /\ l[2] # l[4] /\ l[3] # l[4]

LEMMA LanesAre ==
  \A n \in 0 .. 7 : IsLane(Lanes[n + 1])
<1>1. Lanes[1] = <<0, 4, 8, 12>> /\ Lanes[2] = <<1, 5, 9, 13>>
      /\ Lanes[3] = <<2, 6, 10, 14>> /\ Lanes[4] = <<3, 7, 11, 15>>
  BY DEF Lanes
<1>2. Lanes[5] = <<0, 5, 10, 15>> /\ Lanes[6] = <<1, 6, 11, 12>>
      /\ Lanes[7] = <<2, 7, 8, 13>> /\ Lanes[8] = <<3, 4, 9, 14>>
  BY DEF Lanes
<1>4. IsLane(Lanes[1]) /\ IsLane(Lanes[2]) /\ IsLane(Lanes[3]) /\ IsLane(Lanes[4])
  BY <1>1 DEF IsLane
<1>5. IsLane(Lanes[5]) /\ IsLane(Lanes[6]) /\ IsLane(Lanes[7]) /\ IsLane(Lanes[8])
  BY <1>2 DEF IsLane
<1>6. ASSUME NEW n \in 0 .. 7
      PROVE  n + 1 \in {1, 2, 3, 4, 5, 6, 7, 8}
  OBVIOUS
<1>7. \A m \in {1, 2, 3, 4, 5, 6, 7, 8} : IsLane(Lanes[m])
  BY <1>4, <1>5
<1> QED BY <1>6, <1>7

\* A call changes the four words of its lane, to what Mix gives.
LEMMA CallsMix ==
  ASSUME NEW s \in States, NEW l, IsLane(l), NEW x \in Words, NEW y \in Words
  PROVE  /\ g(s, l, x, y) \in States
         /\ Four(s, l) = Unmix(Unmix(Four(g(s, l, x, y), l), y, <<8, 7>>), x, <<16, 12>>)
<1>1. PICK i, j, k, m : i = l[1] + 1 /\ j = l[2] + 1 /\ k = l[3] + 1 /\ m = l[4] + 1
  OBVIOUS
<1>2. /\ i \in 1 .. 16 /\ j \in 1 .. 16 /\ k \in 1 .. 16 /\ m \in 1 .. 16
      /\ i # j /\ i # k /\ i # m /\ j # k /\ j # m /\ k # m
  BY <1>1 DEF IsLane
<1>3. PICK v : v = Four(s, l)
  OBVIOUS
<1>4. v = [a |-> s[i], b |-> s[j], c |-> s[k], d |-> s[m]]
  BY <1>1, <1>3 DEF Four
<1>5. v \in Quads
  <2>1. s[i] \in Words /\ s[j] \in Words /\ s[k] \in Words /\ s[m] \in Words
    BY <1>2 DEF States
  <2> QED BY <1>4, <2>1 DEF Quads
<1>6. PICK w : w = Mix(Mix(v, x, <<16, 12>>), y, <<8, 7>>)
  OBVIOUS
<1>7. w \in Quads /\ v = Unmix(Unmix(w, y, <<8, 7>>), x, <<16, 12>>)
  BY <1>5, <1>6, CallsAreUndone
<1>8. w.a \in Words /\ w.b \in Words /\ w.c \in Words /\ w.d \in Words
      /\ w = [a |-> w.a, b |-> w.b, c |-> w.c, d |-> w.d]
  BY <1>7 DEF Quads
<1>9. PICK r : r = g(s, l, x, y)
  OBVIOUS
<1>10. r = [s EXCEPT ![i] = w.a, ![j] = w.b, ![k] = w.c, ![m] = w.d]
  BY <1>1, <1>3, <1>6, <1>9, Zenon DEF g
<1>11. r \in States
  BY <1>2, <1>8, <1>10 DEF States
<1>12. r[i] = w.a /\ r[j] = w.b /\ r[k] = w.c /\ r[m] = w.d
  BY <1>2, <1>10 DEF States
<1>13. Four(r, l) = w
  BY <1>1, <1>8, <1>12 DEF Four
<1> QED BY <1>3, <1>7, <1>9, <1>11, <1>13

-----------------------------------------------------------------------------
(* The words a call takes in                                               *)

LEMMA LoadsAre ==
  ASSUME NEW p, p[1] \in 0 .. 255, p[2] \in 0 .. 255, p[3] \in 0 .. 255, p[4] \in 0 .. 255
  PROVE  load32(p) \in Words
<1>1. ASSUME NEW i \in 0 .. 255, NEW j \in 0 .. 255
      PROVE  i * 256 + j \in Halves
  <2>1. PICK u \in Nat : u = i * 256 + j
    OBVIOUS
  <2>2. u < 65536
    BY <2>1
  <2> QED BY <2>1, <2>2, HalfWordsAre
<1>2. p[4] * 256 + p[3] \in Halves /\ p[2] * 256 + p[1] \in Halves
  BY <1>1, Zenon
<1> QED BY <1>2, WordsAre DEF load32

LEMMA SchedulesAre ==
  \A n \in 1 .. 7 : \A k \in 1 .. 16 : MSG_SCHEDULE[n][k] \in 0 .. 15
<1>1. ASSUME NEW k \in 1 .. 16
      PROVE  /\ MSG_SCHEDULE[1][k] \in 0 .. 15 /\ MSG_SCHEDULE[2][k] \in 0 .. 15
             /\ MSG_SCHEDULE[3][k] \in 0 .. 15 /\ MSG_SCHEDULE[4][k] \in 0 .. 15
             /\ MSG_SCHEDULE[5][k] \in 0 .. 15 /\ MSG_SCHEDULE[6][k] \in 0 .. 15
             /\ MSG_SCHEDULE[7][k] \in 0 .. 15
  BY DEF MSG_SCHEDULE
<1>2. \A n \in 1 .. 7 : n \in {1, 2, 3, 4, 5, 6, 7}
  OBVIOUS
<1>3. \A n \in {1, 2, 3, 4, 5, 6, 7} : \A k \in 1 .. 16 : MSG_SCHEDULE[n][k] \in 0 .. 15
  BY <1>1
<1> QED BY <1>2, <1>3

LEMMA JobsAre ==
  ASSUME NEW j \in Jobs
  PROVE  /\ j.cv \in [1 .. 8 -> Words] /\ j.block \in [1 .. 64 -> 0 .. 255]
         /\ j.counter[1] \in Words /\ j.counter[2] \in Words
         /\ j.block_len \in Halves /\ j.flags \in Halves
<1>1. j.cv \in [1 .. 8 -> Halves \X Halves]
  BY JobsAssumption, ZenonT(40)
<1>2. j.block \in [1 .. 64 -> 0 .. 255]
  BY JobsAssumption, ZenonT(40)
<1>3. {j.counter[1], j.counter[2]} \subseteq Halves \X Halves
  BY JobsAssumption, ZenonT(40)
<1>4. {j.block_len, j.flags} \subseteq Halves
  BY JobsAssumption, ZenonT(40)
<1> QED BY <1>1, <1>2, <1>3, <1>4 DEF Words

LEMMA TakenIn ==
  ASSUME job \in Jobs, NEW n \in 0 .. 55
  PROVE  schedule(n).x \in Words /\ schedule(n).y \in Words
<1>1. job.block \in [1 .. 64 -> 0 .. 255]
  BY JobsAre, ZenonT(40)
<1> DEFINE Word(i) == load32(SubSeq(job.block, 4 * i + 1, 4 * i + 4))
<1>2. ASSUME NEW i \in 0 .. 15
      PROVE  Word(i) \in Words
  <2>1. PICK p, m : p = SubSeq(job.block, 4 * i + 1, 4 * i + 4) /\ m = 4 * i
    OBVIOUS
  <2>2. m \in Nat /\ p = SubSeq(job.block, m + 1, m + 4)
    BY <2>1
  <2>3. p = [k \in 1 .. 4 |-> job.block[m + k]]
    BY <2>2, PartsAre
  <2>4. \A k \in 1 .. 4 : m + k \in 1 .. 64
    BY <2>1
  <2>5. ASSUME NEW k \in 1 .. 4
        PROVE  p[k] \in 0 .. 255
    <3>1. m + k \in 1 .. 64 /\ p[k] = job.block[m + k]
      BY <2>3, <2>4, Zenon
    <3>2. \A l \in 1 .. 64 : job.block[l] \in 0 .. 255
      BY <1>1
    <3> QED BY <3>1, <3>2, Zenon
  <2>6. p[1] \in 0 .. 255 /\ p[2] \in 0 .. 255 /\ p[3] \in 0 .. 255 /\ p[4] \in 0 .. 255
    BY <2>5
  <2> QED BY <2>1, <2>6, LoadsAre
<1>3. PICK q, r : q = n \div 8 /\ r = n % 8
  OBVIOUS
<1>4. q + 1 \in 1 .. 7 /\ 2 * r + 1 \in 1 .. 16 /\ 2 * r + 2 \in 1 .. 16
  BY <1>3
<1>5. MSG_SCHEDULE[q + 1][2 * r + 1] \in 0 .. 15 /\ MSG_SCHEDULE[q + 1][2 * r + 2] \in 0 .. 15
  BY <1>4, SchedulesAre
<1>6. schedule(n) = [x |-> Word(MSG_SCHEDULE[q + 1][2 * r + 1]),
                     y |-> Word(MSG_SCHEDULE[q + 1][2 * r + 2])]
  BY <1>3, Zenon DEF schedule
<1> HIDE DEF Word
<1>7. Word(MSG_SCHEDULE[q + 1][2 * r + 1]) \in Words
      /\ Word(MSG_SCHEDULE[q + 1][2 * r + 2]) \in Words
  BY <1>2, <1>5
<1> QED BY <1>6, <1>7

-----------------------------------------------------------------------------
(* No call loses anything                                                  *)

\* The inductive invariant: while the rounds go on, the state is that of a
\* compression.
CallsGoOn ==
  /\ calls \in 0 .. CALLS
  /\ calls < CALLS => job \in Jobs /\ working \in States

\* The words compress_pre loads.
LEMMA LoadedWords ==
  ASSUME NEW j \in Jobs
  PROVE  j.cv \o SubSeq(IVWords, 1, 4)
           \o <<j.counter[1], j.counter[2], <<0, j.block_len>>, <<0, j.flags>>>> \in States
<1>1. /\ j.cv \in [1 .. 8 -> Words]
      /\ j.counter[1] \in Words /\ j.counter[2] \in Words
      /\ j.block_len \in Halves /\ j.flags \in Halves
  BY JobsAre, ZenonT(40)
<1>2. PICK s : s = SubSeq(IVWords, 1, 4)
  OBVIOUS
<1>3. PICK t : t = <<j.counter[1], j.counter[2], <<0, j.block_len>>, <<0, j.flags>>>>
  OBVIOUS
<1>4. Sequence(s, 4) /\ \A k \in 1 .. 4 : s[k] \in Words
  <2>1. SubSeq(IVWords, 0 + 1, 0 + 4) = [k \in 1 .. 4 |-> IVWords[0 + k]]
    BY PartsAre
  <2>2. 0 + 1 = 1 /\ 0 + 4 = 4 /\ \A k \in 1 .. 4 : 0 + k = k
    OBVIOUS
  <2>3. s = [k \in 1 .. 4 |-> IVWords[k]]
    BY <1>2, <2>1, <2>2
  <2>4. /\ IVWords[1] = <<27145, 58983>> /\ IVWords[2] = <<47975, 44677>>
        /\ IVWords[3] = <<15470, 62322>> /\ IVWords[4] = <<42319, 62778>>
    BY DEF IVWords
  <2>5. /\ 27145 \in Halves /\ 58983 \in Halves /\ 47975 \in Halves /\ 44677 \in Halves
        /\ 15470 \in Halves /\ 62322 \in Halves /\ 42319 \in Halves /\ 62778 \in Halves
    BY HalfWordsAre
  <2>6. IVWords[1] \in Words /\ IVWords[2] \in Words /\ IVWords[3] \in Words
        /\ IVWords[4] \in Words
    BY <2>4, <2>5, WordsAre
  <2>7. \A k \in 1 .. 4 : k = 1 \/ k = 2 \/ k = 3 \/ k = 4
    OBVIOUS
  <2>8. \A k \in 1 .. 4 : s[k] \in Words
    BY <2>3, <2>6, <2>7
  <2> QED BY <2>3, <2>8 DEF Sequence
<1>5. Sequence(t, 4) /\ \A k \in 1 .. 4 : t[k] \in Words
  <2>1. 0 \in Halves
    BY HalfWordsAre
  <2>2. j.counter[1] \in Words /\ j.counter[2] \in Words
        /\ <<0, j.block_len>> \in Words /\ <<0, j.flags>> \in Words
    BY <1>1, <2>1, WordsAre
  <2>3. ASSUME NEW a \in Words, NEW b \in Words, NEW c \in Words, NEW d \in Words,
               NEW u, u = <<a, b, c, d>>
        PROVE  Sequence(u, 4) /\ \A k \in 1 .. 4 : u[k] \in Words
    BY <2>3 DEF Sequence
  <2> QED BY <1>3, <2>2, <2>3, Zenon
<1>6. Sequence(j.cv, 8)
  BY <1>1 DEF Sequence
<1>7. PICK c : c = Joined(j.cv, s)
  OBVIOUS
<1>8. Sequence(c, 12) /\ \A k \in 1 .. 12 : c[k] \in Words
  <2>1. 8 \in Nat /\ 4 \in Nat /\ 8 + 4 = 12
    OBVIOUS
  <2>2. /\ Sequence(Joined(j.cv, s), 8 + 4)
        /\ \A k \in 1 .. 8 : Joined(j.cv, s)[k] = j.cv[k]
        /\ \A k \in 1 .. 4 : Joined(j.cv, s)[8 + k] = s[k]
    BY <1>4, <1>6, <2>1, ConcatsAre
  <2>3. \A k \in 1 .. 12 : k \in 1 .. 8 \/ (k - 8 \in 1 .. 4 /\ 8 + (k - 8) = k)
    OBVIOUS
  <2>4. \A k \in 1 .. 8 : c[k] \in Words
    BY <1>1, <1>7, <2>2
  <2>5. \A k \in 1 .. 4 : c[8 + k] \in Words
    BY <1>4, <1>7, <2>2
  <2>6. ASSUME NEW k \in 1 .. 12
        PROVE  c[k] \in Words
    <3>1. CASE k \in 1 .. 8
      BY <2>4, <3>1
    <3>2. CASE k - 8 \in 1 .. 4 /\ 8 + (k - 8) = k
      BY <2>5, <3>2
    <3> QED BY <2>3, <3>1, <3>2
  <2> QED BY <1>7, <2>1, <2>2, <2>6
<1>9. Joined(c, t) \in States
  <2>1. 12 \in Nat /\ 4 \in Nat /\ 12 + 4 = 16
    OBVIOUS
  <2>2. /\ Sequence(Joined(c, t), 12 + 4)
        /\ \A k \in 1 .. 12 : Joined(c, t)[k] = c[k]
        /\ \A k \in 1 .. 4 : Joined(c, t)[12 + k] = t[k]
    BY <1>5, <1>8, <2>1, ConcatsAre
  <2>3. \A k \in 1 .. 16 : k \in 1 .. 12 \/ (k - 12 \in 1 .. 4 /\ 12 + (k - 12) = k)
    OBVIOUS
  <2>4. \A k \in 1 .. 12 : Joined(c, t)[k] \in Words
    BY <1>8, <2>2
  <2>5. \A k \in 1 .. 4 : Joined(c, t)[12 + k] \in Words
    BY <1>5, <2>2
  <2>6. ASSUME NEW k \in 1 .. 16
        PROVE  Joined(c, t)[k] \in Words
    <3>1. CASE k \in 1 .. 12
      BY <2>4, <3>1
    <3>2. CASE k - 12 \in 1 .. 4 /\ 12 + (k - 12) = k
      BY <2>5, <3>2
    <3> QED BY <2>3, <3>1, <3>2
  <2>7. Joined(c, t) = [k \in 1 .. 16 |-> Joined(c, t)[k]]
    BY <2>1, <2>2 DEF Sequence
  <2> QED BY <2>6, <2>7 DEF States
<1> QED BY <1>2, <1>3, <1>7, <1>9, Zenon DEF Joined

LEMMA CallsGoOnInductive ==
  /\ CompressInit => CallsGoOn
  /\ CallsGoOn /\ [CompressNext]_compressVars => CallsGoOn'
<1>1. ASSUME CompressInit
      PROVE  CallsGoOn
  BY <1>1 DEF CompressInit, CallsGoOn, CALLS
<1>2. ASSUME CallsGoOn, [CompressNext]_compressVars
      PROVE  CallsGoOn'
  <2>1. CASE round_fn
    <3>1. calls \in 0 .. 55 /\ job \in Jobs /\ working \in States
      BY <1>2, <2>1 DEF CallsGoOn, CALLS, round_fn
    <3>2. schedule(calls).x \in Words /\ schedule(calls).y \in Words
      BY <3>1, TakenIn
    <3>3. calls % 8 \in 0 .. 7
      BY <3>1
    <3>4. IsLane(Lanes[(calls % 8) + 1])
      BY <3>3, LanesAre
    <3>5. working' \in States
      BY <2>1, <3>1, <3>2, <3>4, CallsMix DEF round_fn
    <3>6. calls' \in 0 .. CALLS
      BY <2>1, <3>1 DEF round_fn, CALLS
    <3>7. job' = job
      BY <2>1 DEF round_fn
    <3> QED BY <3>1, <3>5, <3>6, <3>7 DEF CallsGoOn
  <2>2. ASSUME NEW j \in Jobs, compress_pre(j)
        PROVE  CallsGoOn'
    <3>1. working' \in States
      BY <2>2, LoadedWords DEF compress_pre
    <3>2. job' \in Jobs /\ calls' \in 0 .. CALLS
      BY <2>2 DEF compress_pre, CALLS
    <3> QED BY <3>1, <3>2 DEF CallsGoOn
  <2>3. CASE UNCHANGED compressVars
    BY <1>2, <2>3 DEF CallsGoOn, compressVars
  <2> QED BY <1>2, <2>1, <2>2, <2>3 DEF CompressNext
<1> QED BY <1>1, <1>2

\* Of every compression of any block a call of g can be undone: the four words
\* it mixed can be told from the four it made and the two words of the message
\* (g and rotr32, blake3_portable.cpp:5-19).
THEOREM CallsLoseNothing == CompressSpec => NothingIsLost
<1> DEFINE Told ==
      LET lane == Lanes[(calls % 8) + 1]
          v == Four(working, lane)
          w == Four(working', lane)
      IN  v = Unmix(Unmix(w, schedule(calls).y, <<8, 7>>), schedule(calls).x, <<16, 12>>)
<1>1. ASSUME CallsGoOn, CompressNext, calls < CALLS
      PROVE  Told
  <2>1. round_fn
    <3>1. calls # CALLS
      BY <1>1 DEF CallsGoOn, CALLS
    <3>2. ~ \E j \in Jobs : compress_pre(j)
      BY <3>1, Zenon DEF compress_pre
    <3> QED BY <1>1, <3>2, Zenon DEF CompressNext
  <2>2. calls \in 0 .. 55 /\ job \in Jobs /\ working \in States
    BY <1>1 DEF CallsGoOn, CALLS
  <2>3. schedule(calls).x \in Words /\ schedule(calls).y \in Words
    BY <2>2, TakenIn
  <2>4. calls % 8 \in 0 .. 7
    BY <2>2
  <2>5. IsLane(Lanes[(calls % 8) + 1])
    BY <2>4, LanesAre
  <2>6. working' = g(working, Lanes[(calls % 8) + 1], schedule(calls).x, schedule(calls).y)
    BY <2>1 DEF round_fn
  <2> QED BY <2>2, <2>3, <2>5, <2>6, CallsMix
<1>2. CallsGoOn /\ [CompressNext]_compressVars => [calls < CALLS => Told]_compressVars
  BY <1>1
<1>3. CompressInit => CallsGoOn
  BY CallsGoOnInductive
<1>4. CallsGoOn /\ [CompressNext]_compressVars => CallsGoOn'
  BY CallsGoOnInductive
<1> HIDE DEF Told
<1>5. CompressSpec => [][calls < CALLS => Told]_compressVars
  BY <1>2, <1>3, <1>4, PTL DEF CompressSpec
<1> QED BY <1>5 DEF NothingIsLost, Told
=============================================================================
