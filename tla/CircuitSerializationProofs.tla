---------------------- MODULE CircuitSerializationProofs ----------------------
(***************************************************************************)
(* Why FCircuit::read gives back what FCircuit::write wrote                *)
(* (include/circuitpp/finalized.h), for any circuits and any size of a     *)
(* byte: the cursors of the two stand at the places that the sizes of the  *)
(* circuit in the buffer give them, what one writes at a place the other   *)
(* reads there, and no write touches what an earlier one left.             *)
(***************************************************************************)
EXTENDS CircuitSerialization, FiniteSetTheorems, SequenceTheorems,
        WellFoundedInduction, TLAPS

-----------------------------------------------------------------------------
(* Recursive functions                                                     *)

\* A function on 1 .. n is a sequence of length n.
LEMMA SequenceOfLength ==
  ASSUME NEW S, NEW n \in Nat, NEW s \in [1 .. n -> S]
  PROVE  s \in Seq(S) /\ Len(s) = n
<1>1. s \in Seq(S) /\ DOMAIN s = 1 .. n
  OBVIOUS
<1>2. Len(s) \in Nat /\ DOMAIN s = 1 .. Len(s)
  BY <1>1, LenProperties
<1>3. PICK m \in Nat : m = Len(s)
  BY <1>2
<1>4. \A k \in Int : k \in 1 .. m <=> k \in 1 .. n
  BY <1>1, <1>2, <1>3
<1>5. m = n
  <2>1. m \in 1 .. m <=> m \in 1 .. n
    BY <1>4
  <2>2. n \in 1 .. m <=> n \in 1 .. n
    BY <1>4
  <2> QED BY <2>1, <2>2
<1> QED BY <1>1, <1>3, <1>5

\* A set of naturals has a least element.
LEMMA LeastNumber ==
  ASSUME NEW T \in SUBSET Nat, T # {}
  PROVE  \E x \in T : \A y \in T : x <= y
<1> DEFINE R == OpToRel(<, Nat)
<1>1. IsWellFoundedOn(R, Nat)
  BY NatLessThanWellFounded
<1>2. \A x, y \in Nat : y < x => <<y, x>> \in R
  BY DEF OpToRel
<1> HIDE DEF R
<1>3. PICK x \in T : \A y \in T : ~ (<<y, x>> \in R)
  <2>1. \E x \in T : \A y \in T : ~ (<<y, x>> \in R)
    BY <1>1, WFMin
  <2> QED BY <2>1
<1>4. ASSUME NEW y \in T
      PROVE  x <= y
  <2>1. x \in Nat /\ y \in Nat
    OBVIOUS
  <2>2. ~(y < x)
    BY <1>2, <1>3, <2>1
  <2> QED BY <2>1, <2>2
<1> QED BY <1>4

\* What holds at 0 and at the next number holds up to n.
LEMMA UpTo ==
  ASSUME NEW n \in Nat, NEW T \in SUBSET (0 .. n), 0 \in T,
         \A k \in 1 .. n : k - 1 \in T => k \in T
  PROVE  T = 0 .. n
<1> DEFINE U == (0 .. n) \ T
<1>1. SUFFICES ASSUME U # {}
               PROVE  FALSE
  OBVIOUS
<1>2. PICK k \in U : \A y \in U : k <= y
  <2>1. U \in SUBSET Nat
    OBVIOUS
  <2> HIDE DEF U
  <2> QED BY <1>1, <2>1, LeastNumber
<1>3. k \in 1 .. n /\ k \notin T
  OBVIOUS
<1>4. k - 1 \in 0 .. n /\ ~(k <= k - 1)
  BY <1>3
<1>5. k - 1 \in T
  BY <1>2, <1>4
<1> QED BY <1>3, <1>5

\* A function that takes a step F[k] from its value at k - 1 has numbers for values.
LEMMA StepsAreNumbers ==
  ASSUME NEW n \in Nat, NEW F \in [1 .. n -> [Nat -> Nat]],
         NEW f, f = [k \in 0 .. n |-> f[k]], f[0] \in Nat,
         \A k \in 1 .. n : f[k - 1] \in Nat => f[k] = F[k][f[k - 1]]
  PROVE  f \in [0 .. n -> Nat]
<1> DEFINE T == {k \in 0 .. n : f[k] \in Nat}
<1>1. T = 0 .. n
  <2>1. T \in SUBSET (0 .. n) /\ 0 \in T
    OBVIOUS
  <2>2. ASSUME NEW k \in 1 .. n, k - 1 \in T
        PROVE  k \in T
    <3>1. f[k - 1] \in Nat /\ F[k] \in [Nat -> Nat]
      BY <2>2
    <3>2. f[k] \in Nat
      BY <3>1
    <3>3. k \in 0 .. n
      OBVIOUS
    <3> QED BY <3>2, <3>3
  <2> HIDE DEF T
  <2> QED BY <2>1, <2>2, UpTo
<1>2. \A k \in 0 .. n : f[k] \in Nat
  BY <1>1
<1> QED BY <1>2

\* There is one, so that a recursive definition with these steps is one.
LEMMA StepsExist ==
  ASSUME NEW n \in Nat, NEW e \in Nat, NEW F \in [1 .. n -> [Nat -> Nat]]
  PROVE  \E f \in [0 .. n -> Nat] :
           f[0] = e /\ \A k \in 1 .. n : f[k] = F[k][f[k - 1]]
<1> DEFINE Steps(f, m) == \A k \in 0 .. m : f[k] = IF k = 0 THEN e ELSE F[k][f[k - 1]]
           T == {m \in 0 .. n : \E f : f = [k \in 0 .. m |-> f[k]] /\ Steps(f, m)}
<1>1. 0 \in T
  <2> DEFINE f == [k \in 0 .. 0 |-> e]
  <2>1. f = [k \in 0 .. 0 |-> f[k]] /\ Steps(f, 0)
    OBVIOUS
  <2>2. 0 \in 0 .. n
    OBVIOUS
  <2> HIDE DEF f
  <2> QED BY <2>1, <2>2
<1>2. ASSUME NEW m \in 1 .. n, m - 1 \in T
      PROVE  m \in T
  <2>1. PICK g : g = [k \in 0 .. m - 1 |-> g[k]] /\ Steps(g, m - 1)
    BY <1>2
  <2> DEFINE f == [k \in 0 .. m |-> IF k = m THEN F[m][g[m - 1]] ELSE g[k]]
  <2>2. ASSUME NEW k \in 0 .. m
        PROVE  f[k] = IF k = 0 THEN e ELSE F[k][f[k - 1]]
    <3>1. CASE k = m
      BY <3>1
    <3>2. CASE k # m
      <4>1. k \in 0 .. m - 1 /\ f[k] = g[k]
        BY <3>2
      <4>2. g[k] = IF k = 0 THEN e ELSE F[k][g[k - 1]]
        BY <2>1, <4>1
      <4>3. k # 0 => f[k - 1] = g[k - 1]
        BY <4>1
      <4> QED BY <4>1, <4>2, <4>3
    <3> QED BY <3>1, <3>2
  <2>3. f = [k \in 0 .. m |-> f[k]]
    OBVIOUS
  <2>4. Steps(f, m)
    BY <2>2
  <2>5. m \in 0 .. n
    OBVIOUS
  <2> HIDE DEF f, Steps
  <2> QED BY <2>3, <2>4, <2>5
<1>3. T = 0 .. n
  <2>1. T \in SUBSET (0 .. n)
    OBVIOUS
  <2> HIDE DEF T
  <2> QED BY <1>1, <1>2, <2>1, UpTo
<1>4. PICK f : f = [k \in 0 .. n |-> f[k]] /\ Steps(f, n)
  BY <1>3
<1>5. /\ f[0] = e
      /\ \A k \in 1 .. n : f[k] = F[k][f[k - 1]]
  <2>1. f[0] = e
    <3>1. 0 \in 0 .. n
      OBVIOUS
    <3>2. Steps(f, n)
      BY <1>4
    <3> QED BY <3>1, <3>2, Zenon
  <2>2. ASSUME NEW k \in 1 .. n
        PROVE  f[k] = F[k][f[k - 1]]
    <3>1. k \in 0 .. n /\ k # 0
      OBVIOUS
    <3> QED BY <1>4, <3>1
  <2> QED BY <2>1, <2>2
<1>6. f \in [0 .. n -> Nat]
  <2> HIDE DEF Steps, T
  <2> QED BY <1>4, <1>5, StepsAreNumbers
<1> QED BY <1>5, <1>6

-----------------------------------------------------------------------------
(* Numbers and their bytes                                                 *)

\* Quotient and remainder.
LEMMA Division ==
  ASSUME NEW x \in Nat
  PROVE  /\ x \div BYTE \in Nat /\ x % BYTE \in 0 .. BYTE - 1
         /\ x = BYTE * (x \div BYTE) + (x % BYTE)
BY ByteAssumption

LEMMA RestOfNumber ==
  ASSUME NEW n \in Nat, NEW v \in Nat
  PROVE  /\ Rest(n, v) \in [0 .. n -> Nat]
         /\ Rest(n, v)[0] = v
         /\ \A k \in 1 .. n : Rest(n, v)[k] = Rest(n, v)[k - 1] \div BYTE
<1> DEFINE F == [k \in 1 .. n |-> [x \in Nat |-> x \div BYTE]]
           Step(f) == [k \in 0 .. n |-> IF k = 0 THEN v ELSE f[k - 1] \div BYTE]
           rest == CHOOSE f : f = Step(f)
<1>1. F \in [1 .. n -> [Nat -> Nat]]
  BY Division
<1>2. ASSUME NEW k \in 1 .. n, NEW x \in Nat
      PROVE  F[k][x] = x \div BYTE
  OBVIOUS
<1> HIDE DEF F
<1>3. \E f : f = Step(f)
  <2>1. PICK f \in [0 .. n -> Nat] :
          f[0] = v /\ \A k \in 1 .. n : f[k] = F[k][f[k - 1]]
    BY <1>1, StepsExist
  <2>2. ASSUME NEW k \in 0 .. n
        PROVE  f[k] = IF k = 0 THEN v ELSE f[k - 1] \div BYTE
    <3>1. CASE k = 0
      BY <2>1, <3>1
    <3>2. CASE k # 0
      <4>1. k \in 1 .. n /\ f[k - 1] \in Nat
        BY <3>2
      <4>2. f[k] = F[k][f[k - 1]]
        BY <2>1, <4>1
      <4>3. F[k][f[k - 1]] = f[k - 1] \div BYTE
        BY <1>2, <4>1
      <4> QED BY <3>2, <4>2, <4>3
    <3> QED BY <3>1, <3>2
  <2>3. f = Step(f)
    <3>1. Step(f) = [k \in 0 .. n |-> f[k]]
      BY <2>2, Zenon
    <3> QED BY <3>1
  <2> QED BY <2>3
<1>4. Rest(n, v) = rest /\ rest = Step(rest)
  BY <1>3 DEF Rest
<1> HIDE DEF rest
<1>5. rest = [k \in 0 .. n |-> rest[k]]
  BY <1>4
<1>6. ASSUME NEW k \in 0 .. n
      PROVE  rest[k] = IF k = 0 THEN v ELSE rest[k - 1] \div BYTE
  BY <1>4
<1>7. rest[0] = v
  BY <1>6
<1>8. ASSUME NEW k \in 1 .. n
      PROVE  rest[k] = rest[k - 1] \div BYTE
  <2>1. k \in 0 .. n /\ k # 0
    OBVIOUS
  <2> QED BY <1>6, <2>1
<1>9. rest \in [0 .. n -> Nat]
  <2>1. ASSUME NEW k \in 1 .. n, rest[k - 1] \in Nat
        PROVE  rest[k] = F[k][rest[k - 1]]
    <3>1. F[k][rest[k - 1]] = rest[k - 1] \div BYTE
      BY <1>2, <2>1
    <3> QED BY <1>8, <3>1
  <2> QED BY <1>1, <1>5, <1>7, <2>1, StepsAreNumbers
<1> QED BY <1>4, <1>7, <1>8, <1>9

\* Load adds the bytes up from the highest on.
LEMMA LoadIsSum ==
  ASSUME NEW n \in Nat, NEW at \in Nat,
         \A k \in 1 .. n : LoadBytes(at, n)[k] \in Nat
  PROVE  \E value \in [0 .. n -> Nat] :
           /\ Load(n, at) = value[n]
           /\ value[0] = 0
           /\ \A k \in 1 .. n :
                value[k] = LoadBytes(at, n)[n - k + 1] + BYTE * value[k - 1]
<1>1. PICK b : b = LoadBytes(at, n)
  OBVIOUS
<1> DEFINE F == [k \in 1 .. n |-> [x \in Nat |-> b[n - k + 1] + BYTE * x]]
           Step(f) == [k \in 0 .. n |-> IF k = 0 THEN 0
                                        ELSE b[n - k + 1] + BYTE * f[k - 1]]
           value == CHOOSE f : f = Step(f)
<1>2. F \in [1 .. n -> [Nat -> Nat]]
  <2>1. ASSUME NEW k \in 1 .. n, NEW x \in Nat
        PROVE  b[n - k + 1] + BYTE * x \in Nat
    <3>1. b[n - k + 1] \in Nat
      BY <1>1
    <3>2. BYTE * x \in Nat
      BY ByteAssumption
    <3> QED BY <3>1, <3>2
  <2> QED BY <2>1
<1>3. ASSUME NEW k \in 1 .. n, NEW x \in Nat
      PROVE  F[k][x] = b[n - k + 1] + BYTE * x
  OBVIOUS
<1> HIDE DEF F
<1>4. \E f : f = Step(f)
  <2>0. PICK e \in Nat : e = 0
    OBVIOUS
  <2>1. PICK f \in [0 .. n -> Nat] :
          f[0] = e /\ \A k \in 1 .. n : f[k] = F[k][f[k - 1]]
    BY <1>2, StepsExist
  <2>2. ASSUME NEW k \in 0 .. n
        PROVE  f[k] = IF k = 0 THEN 0 ELSE b[n - k + 1] + BYTE * f[k - 1]
    <3>1. CASE k = 0
      BY <2>0, <2>1, <3>1
    <3>2. CASE k # 0
      <4>1. k \in 1 .. n /\ f[k - 1] \in Nat
        BY <3>2
      <4>2. f[k] = F[k][f[k - 1]]
        BY <2>1, <4>1
      <4>3. F[k][f[k - 1]] = b[n - k + 1] + BYTE * f[k - 1]
        BY <1>3, <4>1
      <4> QED BY <3>2, <4>2, <4>3
    <3> QED BY <3>1, <3>2
  <2>3. f = Step(f)
    <3>1. Step(f) = [k \in 0 .. n |-> f[k]]
      BY <2>2, Zenon
    <3> QED BY <3>1
  <2> QED BY <2>3
<1>5. Load(n, at) = value[n] /\ value = Step(value)
  BY <1>1, <1>4 DEF Load
<1> HIDE DEF value
<1>6. value = [k \in 0 .. n |-> value[k]]
  BY <1>5
<1>7. ASSUME NEW k \in 0 .. n
      PROVE  value[k] = IF k = 0 THEN 0 ELSE b[n - k + 1] + BYTE * value[k - 1]
  BY <1>5
<1>8. value[0] = 0 /\ value[0] \in Nat
  BY <1>7
<1>9. ASSUME NEW k \in 1 .. n
      PROVE  value[k] = b[n - k + 1] + BYTE * value[k - 1]
  <2>1. k \in 0 .. n /\ k # 0
    OBVIOUS
  <2> QED BY <1>7, <2>1
<1>10. value \in [0 .. n -> Nat]
  <2>1. ASSUME NEW k \in 1 .. n, value[k - 1] \in Nat
        PROVE  value[k] = F[k][value[k - 1]]
    <3>1. F[k][value[k - 1]] = b[n - k + 1] + BYTE * value[k - 1]
      BY <1>3, <2>1
    <3> QED BY <1>9, <3>1
  <2> QED BY <1>2, <1>6, <1>8, <2>1, StepsAreNumbers
<1> QED BY <1>1, <1>5, <1>8, <1>9, <1>10

\* A sum of sizes is the one before and a size.
LEMMA TotalOfSizes ==
  ASSUME NEW n \in Nat, NEW sizes \in [1 .. n -> Nat]
  PROVE  /\ Total(sizes) \in [0 .. n -> Nat]
         /\ Total(sizes)[0] = 0
         /\ \A k \in 1 .. n : Total(sizes)[k] = Total(sizes)[k - 1] + sizes[k]
<1> DEFINE F == [k \in 1 .. n |-> [x \in Nat |-> x + sizes[k]]]
           Step(f) == [k \in 0 .. n |-> IF k = 0 THEN 0 ELSE f[k - 1] + sizes[k]]
           total == CHOOSE f : f = Step(f)
<1>1. Len(sizes) = n
  BY SequenceOfLength
<1>2. F \in [1 .. n -> [Nat -> Nat]]
  OBVIOUS
<1>3. ASSUME NEW k \in 1 .. n, NEW x \in Nat
      PROVE  F[k][x] = x + sizes[k]
  OBVIOUS
<1> HIDE DEF F
<1>4. \E f : f = Step(f)
  <2>0. PICK e \in Nat : e = 0
    OBVIOUS
  <2>1. PICK f \in [0 .. n -> Nat] :
          f[0] = e /\ \A k \in 1 .. n : f[k] = F[k][f[k - 1]]
    BY <1>2, StepsExist
  <2>2. ASSUME NEW k \in 0 .. n
        PROVE  f[k] = IF k = 0 THEN 0 ELSE f[k - 1] + sizes[k]
    <3>1. CASE k = 0
      BY <2>0, <2>1, <3>1
    <3>2. CASE k # 0
      <4>1. k \in 1 .. n /\ f[k - 1] \in Nat
        BY <3>2
      <4>2. f[k] = F[k][f[k - 1]]
        BY <2>1, <4>1
      <4>3. F[k][f[k - 1]] = f[k - 1] + sizes[k]
        BY <1>3, <4>1
      <4> QED BY <3>2, <4>2, <4>3
    <3> QED BY <3>1, <3>2
  <2>3. f = Step(f)
    <3>1. Step(f) = [k \in 0 .. n |-> f[k]]
      BY <2>2, Zenon
    <3> QED BY <3>1
  <2> QED BY <2>3
<1>5. Total(sizes) = total /\ total = Step(total)
  BY <1>1, <1>4 DEF Total
<1> HIDE DEF total
<1>6. total = [k \in 0 .. n |-> total[k]]
  BY <1>5
<1>7. ASSUME NEW k \in 0 .. n
      PROVE  total[k] = IF k = 0 THEN 0 ELSE total[k - 1] + sizes[k]
  BY <1>5
<1>8. total[0] = 0 /\ total[0] \in Nat
  BY <1>7
<1>9. ASSUME NEW k \in 1 .. n
      PROVE  total[k] = total[k - 1] + sizes[k]
  <2>1. k \in 0 .. n /\ k # 0
    OBVIOUS
  <2> QED BY <1>7, <2>1
<1>10. total \in [0 .. n -> Nat]
  <2>1. ASSUME NEW k \in 1 .. n, total[k - 1] \in Nat
        PROVE  total[k] = F[k][total[k - 1]]
    <3>1. F[k][total[k - 1]] = total[k - 1] + sizes[k]
      BY <1>3, <2>1
    <3> QED BY <1>9, <3>1
  <2> QED BY <1>2, <1>6, <1>8, <2>1, StepsAreNumbers
<1> QED BY <1>5, <1>8, <1>9, <1>10

\* The sums only grow.
LEMMA TotalGrows ==
  ASSUME NEW n \in Nat, NEW sizes \in [1 .. n -> Nat],
         NEW k \in 0 .. n, NEW m \in k .. n
  PROVE  Total(sizes)[k] <= Total(sizes)[m]
<1>1. PICK total : total = Total(sizes)
  OBVIOUS
<1>2. total \in [0 .. n -> Nat] /\ \A i \in 1 .. n : total[i - 1] <= total[i]
  <2>1. /\ total \in [0 .. n -> Nat]
        /\ \A i \in 1 .. n : total[i] = total[i - 1] + sizes[i]
    BY <1>1, TotalOfSizes
  <2>2. ASSUME NEW i \in 1 .. n
        PROVE  total[i - 1] <= total[i]
    <3>0. /\ i - 1 \in 0 .. n /\ i \in 0 .. n
          /\ total[i - 1] \in Nat /\ total[i] \in Nat /\ sizes[i] \in Nat
      BY <2>1
    <3>1. PICK x, y, z \in Nat : x = total[i - 1] /\ y = total[i] /\ z = sizes[i]
      BY <3>0
    <3>2. y = x + z
      BY <2>1, <3>1
    <3> QED BY <3>1, <3>2
  <2> QED BY <2>1, <2>2
<1> DEFINE T == {i \in 0 .. n : i < k \/ total[k] <= total[i]}
<1>3. T = 0 .. n
  <2>1. T \in SUBSET (0 .. n)
    OBVIOUS
  <2>2. 0 \in T
    <3>1. total[k] \in Nat /\ 0 \in 0 .. n
      BY <1>2
    <3>2. k = 0 \/ 0 < k
      OBVIOUS
    <3> QED BY <3>1, <3>2
  <2>3. ASSUME NEW i \in 1 .. n, i - 1 \in T
        PROVE  i \in T
    <3>1. total[k] \in Nat /\ total[i] \in Nat /\ total[i - 1] \in Nat
          /\ total[i - 1] <= total[i] /\ i \in 0 .. n
      BY <1>2
    <3>2. CASE i <= k
      BY <3>1, <3>2
    <3>3. CASE k < i
      <4>1. total[k] <= total[i - 1]
        BY <2>3, <3>3
      <4> QED BY <3>1, <4>1
    <3> QED BY <3>2, <3>3
  <2> HIDE DEF T
  <2> QED BY <2>1, <2>2, <2>3, UpTo
<1>4. m \in T /\ ~(m < k)
  BY <1>3
<1> QED BY <1>1, <1>4

-----------------------------------------------------------------------------
(* Bytes in memory                                                         *)

Byte == 0 .. BYTE - 1

\* A memory holds bytes from the address `at` on, padding left aside.
BytesAt(memory, at, bytes) ==
  \A k \in 1 .. Len(bytes) :
    bytes[k] # Unwritten =>
      at + k - 1 \in DOMAIN memory /\ memory[at + k - 1] = bytes[k]

\* n bytes are stored at the address `at`, and nothing else is changed.
OnlyStores(memory, at, bytes, n, after) ==
  /\ DOMAIN after = DOMAIN memory \cup at .. at + n - 1
  /\ BytesAt(after, at, bytes)
  /\ \A a \in DOMAIN memory : a \notin at .. at + n - 1 => after[a] = memory[a]
  /\ \A a \in DOMAIN memory :
       a \in at .. at + n - 1 /\ memory[a] = Unwritten =>
         after[a] = bytes[a - at + 1]

LEMMA StoredBytes ==
  ASSUME NEW memory, DOMAIN memory \subseteq Nat, NEW at \in Nat,
         NEW bytes, bytes \in Seq(0 .. BYTE), NEW n \in Nat, n = Len(bytes)
  PROVE  OnlyStores(memory, at, bytes, n, Stored(memory, at, bytes))
<1> DEFINE after == Stored(memory, at, bytes)
<1>1. DOMAIN after = DOMAIN memory \cup at .. at + n - 1
  BY DEF Stored
<1>2. ASSUME NEW a \in DOMAIN memory \cup at .. at + n - 1
      PROVE  after[a] = IF a - at + 1 \in 1 .. n /\ bytes[a - at + 1] # Unwritten
                        THEN bytes[a - at + 1]
                        ELSE IF a \in DOMAIN memory THEN memory[a] ELSE Unwritten
  BY <1>2 DEF Stored
<1>3. BytesAt(after, at, bytes)
  <2>1. SUFFICES ASSUME NEW k \in 1 .. n, bytes[k] # Unwritten
                 PROVE  at + k - 1 \in DOMAIN after /\ after[at + k - 1] = bytes[k]
    BY DEF BytesAt
  <2>2. PICK a \in at .. at + n - 1 : a = at + k - 1
    OBVIOUS
  <2>3. a - at + 1 = k
    BY <2>2
  <2> QED BY <1>1, <1>2, <2>1, <2>2, <2>3
<1>4. ASSUME NEW a \in DOMAIN memory, a \notin at .. at + n - 1
      PROVE  after[a] = memory[a]
  <2>1. a \in Nat
    OBVIOUS
  <2>2. a - at + 1 \notin 1 .. n
    BY <1>4, <2>1
  <2> QED BY <1>2, <2>2
<1>5. ASSUME NEW a \in DOMAIN memory, a \in at .. at + n - 1,
             memory[a] = Unwritten
      PROVE  after[a] = bytes[a - at + 1]
  <2>1. a - at + 1 \in 1 .. n
    BY <1>5
  <2> QED BY <1>2, <1>5, <2>1
<1> QED BY <1>1, <1>3, <1>4, <1>5 DEF OnlyStores

\* Of bytes behind each other, each are where they begin.
LEMMA BytesBehindBytes ==
  ASSUME NEW memory, NEW at \in Nat, NEW s \in Seq(0 .. BYTE),
         NEW t \in Seq(0 .. BYTE), BytesAt(memory, at, s \o t)
  PROVE  BytesAt(memory, at, s) /\ BytesAt(memory, at + Len(s), t)
<1>1. PICK m, n \in Nat : m = Len(s) /\ n = Len(t)
  BY LenProperties
<1>2. PICK st : st = s \o t
  OBVIOUS
<1>3. Len(st) = m + n
      /\ \A i \in 1 .. m + n : st[i] = IF i <= m THEN s[i] ELSE t[i - m]
  BY <1>1, <1>2, ConcatProperties
<1>4. ASSUME NEW k \in 1 .. m + n, st[k] # Unwritten
      PROVE  at + k - 1 \in DOMAIN memory /\ memory[at + k - 1] = st[k]
  BY <1>2, <1>3, <1>4 DEF BytesAt
<1>5. BytesAt(memory, at, s)
  <2>1. SUFFICES ASSUME NEW k \in 1 .. m, s[k] # Unwritten
                 PROVE  at + k - 1 \in DOMAIN memory /\ memory[at + k - 1] = s[k]
    BY <1>1 DEF BytesAt
  <2>2. k \in 1 .. m + n /\ k <= m
    OBVIOUS
  <2>3. st[k] = s[k]
    BY <1>3, <2>2
  <2> QED BY <1>4, <2>1, <2>2, <2>3
<1>6. BytesAt(memory, at + m, t)
  <2>1. SUFFICES ASSUME NEW k \in 1 .. n, t[k] # Unwritten
                 PROVE  at + m + k - 1 \in DOMAIN memory
                        /\ memory[at + m + k - 1] = t[k]
    BY <1>1 DEF BytesAt
  <2>2. PICK j \in 1 .. m + n : j = m + k
    OBVIOUS
  <2>3. ~(j <= m) /\ j - m = k /\ at + j - 1 = at + m + k - 1
    BY <2>2
  <2>4. st[j] = t[k]
    BY <1>3, <2>3
  <2> QED BY <1>4, <2>1, <2>3, <2>4
<1> QED BY <1>1, <1>5, <1>6

\* A number takes n bytes.
LEMMA NumberBytes ==
  ASSUME NEW n \in Nat, NEW v \in Nat
  PROVE  Number(n, v) \in Seq(Byte) /\ Len(Number(n, v)) = n
         /\ Number(n, v) \in Seq(0 .. BYTE)
<1>1. PICK number : number = Number(n, v)
  OBVIOUS
<1>2. number \in [1 .. n -> Byte]
  <2>1. ASSUME NEW k \in 1 .. n
        PROVE  Rest(n, v)[k - 1] % BYTE \in Byte
    <3>1. Rest(n, v)[k - 1] \in Nat
      <4>1. Rest(n, v) \in [0 .. n -> Nat] /\ k - 1 \in 0 .. n
        BY RestOfNumber
      <4> QED BY <4>1
    <3> QED BY <3>1, Division DEF Byte
  <2> QED BY <1>1, <2>1 DEF Number
<1>3. number \in Seq(Byte) /\ Len(number) = n
  BY <1>2, SequenceOfLength
<1>4. Byte \subseteq 0 .. BYTE
  BY ByteAssumption DEF Byte
<1> QED BY <1>1, <1>3, <1>4, SeqMonotonic

\* Load gives back a number that n bytes hold: the sum of the k highest bytes
\* is what is left of the number behind the others.
LEMMA LoadOfNumber ==
  ASSUME NEW n \in Nat, NEW v \in Words(n), NEW at \in Nat,
         BytesAt(buffer, at, Number(n, v))
  PROVE  Load(n, at) = v
<1>1. v \in Nat /\ Rest(n, v)[n] = 0
  BY DEF Words
<1>2. PICK rest : rest = Rest(n, v)
  OBVIOUS
<1>3. rest \in [0 .. n -> Nat] /\ rest[0] = v /\ rest[n] = 0
      /\ \A k \in 1 .. n : rest[k] = rest[k - 1] \div BYTE
  <2>1. /\ Rest(n, v) \in [0 .. n -> Nat] /\ Rest(n, v)[0] = v
        /\ \A k \in 1 .. n : Rest(n, v)[k] = Rest(n, v)[k - 1] \div BYTE
    BY <1>1, RestOfNumber, Zenon
  <2> QED BY <1>1, <1>2, <2>1
<1>4. PICK loaded : loaded = LoadBytes(at, n)
  OBVIOUS
<1>5. ASSUME NEW k \in 1 .. n
      PROVE  loaded[k] = rest[k - 1] % BYTE /\ loaded[k] \in Nat
  <2>1. Number(n, v)[k] = rest[k - 1] % BYTE
    BY <1>2 DEF Number
  <2>2. rest[k - 1] \in Nat
    BY <1>3
  <2>3. rest[k - 1] % BYTE \in 0 .. BYTE - 1
    BY <2>2, Division
  <2>4. Number(n, v)[k] # Unwritten
    BY <2>1, <2>3, ByteAssumption DEF Unwritten
  <2>5. k \in 1 .. Len(Number(n, v))
    BY <1>1, NumberBytes
  <2>6. at + k - 1 \in DOMAIN buffer /\ buffer[at + k - 1] = Number(n, v)[k]
    BY <2>4, <2>5 DEF BytesAt
  <2>7. loaded[k] = buffer[at + k - 1]
    BY <1>4, <2>6 DEF LoadBytes
  <2> QED BY <2>1, <2>3, <2>6, <2>7
<1>6. PICK value \in [0 .. n -> Nat] :
        /\ Load(n, at) = value[n]
        /\ value[0] = 0
        /\ \A k \in 1 .. n : value[k] = loaded[n - k + 1] + BYTE * value[k - 1]
  BY <1>4, <1>5, LoadIsSum
<1> DEFINE T == {k \in 0 .. n : value[k] = rest[n - k]}
<1>7. T = 0 .. n
  <2>1. T \in SUBSET (0 .. n) /\ 0 \in T
    BY <1>3, <1>6
  <2>2. ASSUME NEW k \in 1 .. n, k - 1 \in T
        PROVE  k \in T
    <3>1. PICK j \in 1 .. n : j = n - k + 1
      OBVIOUS
    <3>2. j - 1 = n - k /\ n - (k - 1) = j
      BY <3>1
    <3>3. value[k - 1] = rest[j]
      BY <2>2, <3>2
    <3>4. value[k] = loaded[j] + BYTE * value[k - 1]
      BY <1>6, <3>1
    <3>5. PICK x \in Nat : x = rest[j - 1]
      BY <1>3
    <3>6. loaded[j] = x % BYTE /\ rest[j] = x \div BYTE
      BY <1>3, <1>5, <3>5
    <3>7. value[k] = (x % BYTE) + BYTE * (x \div BYTE)
      BY <3>3, <3>4, <3>6
    <3>8. value[k] = x
      <4>1. x \div BYTE \in Nat /\ x % BYTE \in 0 .. BYTE - 1
            /\ x = BYTE * (x \div BYTE) + (x % BYTE)
        BY Division
      <4>2. PICK q, r \in Nat : q = x \div BYTE /\ r = x % BYTE
        BY <4>1, ByteAssumption
      <4>3. PICK p \in Nat : p = BYTE * q
        BY ByteAssumption
      <4> QED BY <3>7, <4>1, <4>2, <4>3
    <3> QED BY <3>2, <3>5, <3>8
  <2> HIDE DEF T
  <2> QED BY <2>1, <2>2, UpTo
<1>8. value[n] = rest[0]
  <2>1. n \in T /\ n - n = 0
    BY <1>7
  <2> QED BY <2>1
<1> QED BY <1>3, <1>6, <1>8

\* A vector of numbers takes eight bytes for each of them, where its index says.
LEMMA NumbersBytes ==
  ASSUME NEW values \in Seq(Nat)
  PROVE  /\ Numbers(8, values) \in Seq(Byte)
         /\ Numbers(8, values) \in Seq(0 .. BYTE)
         /\ Len(Numbers(8, values)) = 8 * Len(values)
         /\ \A i \in 1 .. Len(values) : \A k \in 1 .. 8 :
              Numbers(8, values)[8 * (i - 1) + k] = Number(8, values[i])[k]
<1>1. PICK m \in Nat : m = Len(values)
  BY LenProperties
<1>2. PICK bytes : bytes = Numbers(8, values)
  OBVIOUS
<1>3. ASSUME NEW i \in 1 .. m
      PROVE  values[i] \in Nat
  BY <1>1, ElementOfSeq
<1>4. ASSUME NEW i \in 1 .. m, NEW k \in 1 .. 8
      PROVE  Number(8, values[i])[k] \in Byte
  <2>1. Number(8, values[i]) \in Seq(Byte) /\ Len(Number(8, values[i])) = 8
    BY <1>3, NumberBytes
  <2> QED BY <2>1, ElementOfSeq
<1>5. bytes = [k \in 1 .. 8 * m |->
                 Number(8, values[((k - 1) \div 8) + 1])[((k - 1) % 8) + 1]]
  BY <1>1, <1>2 DEF Numbers
<1>6. ASSUME NEW k \in 1 .. 8 * m
      PROVE  ((k - 1) \div 8) + 1 \in 1 .. m /\ ((k - 1) % 8) + 1 \in 1 .. 8
  OBVIOUS
<1>7. bytes \in [1 .. 8 * m -> Byte]
  <2>1. ASSUME NEW k \in 1 .. 8 * m
        PROVE  Number(8, values[((k - 1) \div 8) + 1])[((k - 1) % 8) + 1] \in Byte
    BY <1>4, <1>6
  <2> QED BY <1>5, <2>1
<1>8. bytes \in Seq(Byte) /\ Len(bytes) = 8 * m
  <2>1. 8 * m \in Nat
    OBVIOUS
  <2> QED BY <1>7, <2>1, SequenceOfLength
<1>9. bytes \in Seq(0 .. BYTE)
  <2>1. Byte \subseteq 0 .. BYTE
    BY ByteAssumption DEF Byte
  <2> QED BY <1>8, <2>1, SeqMonotonic
<1>10. ASSUME NEW i \in 1 .. m, NEW k \in 1 .. 8
       PROVE  bytes[8 * (i - 1) + k] = Number(8, values[i])[k]
  <2>1. PICK j \in 1 .. 8 * m : j = 8 * (i - 1) + k
    OBVIOUS
  <2>2. (j - 1) \div 8 = i - 1 /\ (j - 1) % 8 = k - 1
    BY <2>1
  <2>3. ((j - 1) \div 8) + 1 = i /\ ((j - 1) % 8) + 1 = k
    BY <2>2
  <2>4. bytes[j] = Number(8, values[((j - 1) \div 8) + 1])[((j - 1) % 8) + 1]
    BY <1>5
  <2> QED BY <2>1, <2>3, <2>4
<1> QED BY <1>1, <1>2, <1>8, <1>9, <1>10

\* LoadNumbers gives back the vector.
LEMMA LoadOfNumbers ==
  ASSUME NEW values \in Seq(Words(8)), NEW at \in Nat,
         BytesAt(buffer, at, Numbers(8, values))
  PROVE  LoadNumbers(8, at, Len(values)) = values
<1>1. PICK m \in Nat : m = Len(values)
  BY LenProperties
<1>2. values \in Seq(Nat)
  <2>1. Words(8) \subseteq Nat
    BY DEF Words
  <2> QED BY <2>1, SeqMonotonic
<1>3. ASSUME NEW i \in 1 .. m
      PROVE  Load(8, at + 8 * (i - 1)) = values[i]
  <2>1. PICK place \in Nat : place = at + 8 * (i - 1)
    OBVIOUS
  <2>2. values[i] \in Words(8) /\ values[i] \in Nat
    <3>1. values[i] \in Words(8)
      BY <1>1, ElementOfSeq
    <3> QED BY <3>1 DEF Words
  <2>3. Len(Number(8, values[i])) = 8
    BY <2>2, NumberBytes
  <2>4. BytesAt(buffer, place, Number(8, values[i]))
    <3>1. SUFFICES ASSUME NEW k \in 1 .. 8, Number(8, values[i])[k] # Unwritten
                   PROVE  /\ place + k - 1 \in DOMAIN buffer
                          /\ buffer[place + k - 1] = Number(8, values[i])[k]
      BY <2>3 DEF BytesAt
    <3>2. PICK j \in 1 .. 8 * m : j = 8 * (i - 1) + k
      OBVIOUS
    <3>3. at + j - 1 = place + k - 1
      BY <2>1, <3>2
    <3>4. Numbers(8, values)[j] = Number(8, values[i])[k]
          /\ j \in 1 .. Len(Numbers(8, values))
      BY <1>1, <1>2, <3>2, NumbersBytes
    <3>5. at + j - 1 \in DOMAIN buffer /\ buffer[at + j - 1] = Numbers(8, values)[j]
      BY <3>1, <3>4 DEF BytesAt
    <3> QED BY <3>3, <3>4, <3>5
  <2>5. Load(8, place) = values[i]
    BY <2>2, <2>4, LoadOfNumber
  <2> QED BY <2>1, <2>5
<1>4. LoadNumbers(8, at, m) = [i \in 1 .. m |-> values[i]]
  BY <1>3 DEF LoadNumbers
<1>5. values = [i \in 1 .. m |-> values[i]]
  BY <1>1, LenProperties
<1> QED BY <1>1, <1>4, <1>5

-----------------------------------------------------------------------------
(* The bytes of the parts                                                  *)

\* len bytes of which those at `holes` are padding.
Shaped(bytes, len, holes) ==
  /\ bytes \in Seq(0 .. BYTE) /\ Len(bytes) = len /\ holes \subseteq 1 .. len
  /\ \A k \in 1 .. len : bytes[k] = Unwritten <=> k \in holes

LEMMA ShapedBytes ==
  ASSUME NEW s \in Seq(Byte)
  PROVE  Shaped(s, Len(s), {})
<1>1. Byte \subseteq 0 .. BYTE /\ Unwritten \notin Byte
  BY ByteAssumption DEF Byte, Unwritten
<1>2. s \in Seq(0 .. BYTE)
  BY <1>1, SeqMonotonic
<1>3. ASSUME NEW k \in 1 .. Len(s)
      PROVE  s[k] # Unwritten
  <2>1. s[k] \in Byte
    BY ElementOfSeq
  <2> QED BY <1>1, <2>1
<1> QED BY <1>2, <1>3 DEF Shaped

\* Bytes behind others leave their holes where they are.
LEMMA ShapedAppend ==
  ASSUME NEW s, NEW m \in Nat, NEW holes, Shaped(s, m, holes),
         NEW t \in Seq(Byte), NEW n \in Nat, Len(t) = n, NEW st, st = s \o t, NEW len, len = m + n
  PROVE  Shaped(st, len, holes)
<1>1. s \in Seq(0 .. BYTE) /\ Len(s) = m /\ holes \subseteq 1 .. m
      /\ \A k \in 1 .. m : s[k] = Unwritten <=> k \in holes
  BY DEF Shaped
<1>2. t \in Seq(0 .. BYTE) /\ \A k \in 1 .. n : t[k] # Unwritten
  BY ShapedBytes DEF Shaped
<1>3. st \in Seq(0 .. BYTE) /\ Len(st) = m + n
      /\ \A i \in 1 .. m + n : st[i] = IF i <= m THEN s[i] ELSE t[i - m]
  <2>1. s \o t \in Seq(0 .. BYTE) /\ Len(s \o t) = Len(s) + Len(t)
        /\ \A i \in 1 .. Len(s) + Len(t) :
             (s \o t)[i] = IF i <= Len(s) THEN s[i] ELSE t[i - Len(s)]
    BY <1>1, <1>2, ConcatProperties, Zenon
  <2> QED BY <1>1, <2>1
<1>4. ASSUME NEW k \in 1 .. m + n
      PROVE  st[k] = Unwritten <=> k \in holes
  <2>1. CASE k <= m
    <3>1. k \in 1 .. m /\ st[k] = s[k]
      BY <1>3, <2>1
    <3> QED BY <1>1, <3>1
  <2>2. CASE ~(k <= m)
    <3>1. k - m \in 1 .. n /\ st[k] = t[k - m]
      BY <1>3, <2>2
    <3>2. k \notin holes
      BY <1>1, <2>2
    <3> QED BY <1>2, <3>1, <3>2
  <2> QED BY <2>1, <2>2
<1>5. holes \subseteq 1 .. len
  BY <1>1
<1> QED BY <1>3, <1>4, <1>5 DEF Shaped

\* Padding is a hole.
LEMMA ShapedPadding ==
  ASSUME NEW s, NEW m \in Nat, Shaped(s, m, {}), NEW n \in Nat
  PROVE  /\ Shaped(s \o Padding(n), m + n, m + 1 .. m + n)
         /\ Padding(n) \in Seq(0 .. BYTE) /\ Len(Padding(n)) = n
<1>1. PICK t : t = Padding(n)
  OBVIOUS
<1>2. t \in Seq(0 .. BYTE) /\ Len(t) = n /\ \A k \in 1 .. n : t[k] = Unwritten
  <2>1. t \in [1 .. n -> 0 .. BYTE] /\ \A k \in 1 .. n : t[k] = Unwritten
    BY <1>1, ByteAssumption DEF Padding, Unwritten
  <2> QED BY <2>1, SequenceOfLength
<1>3. s \in Seq(0 .. BYTE) /\ Len(s) = m /\ \A k \in 1 .. m : s[k] # Unwritten
  BY DEF Shaped
<1>4. PICK st : st = s \o t
  OBVIOUS
<1>5. st \in Seq(0 .. BYTE) /\ Len(st) = m + n
      /\ \A i \in 1 .. m + n : st[i] = IF i <= m THEN s[i] ELSE t[i - m]
  BY <1>2, <1>3, <1>4, ConcatProperties
<1>6. ASSUME NEW k \in 1 .. m + n
      PROVE  st[k] = Unwritten <=> k \in m + 1 .. m + n
  <2>1. CASE k <= m
    <3>1. k \in 1 .. m /\ st[k] = s[k] /\ k \notin m + 1 .. m + n
      BY <1>5, <2>1
    <3> QED BY <1>3, <3>1
  <2>2. CASE ~(k <= m)
    <3>1. k - m \in 1 .. n /\ st[k] = t[k - m] /\ k \in m + 1 .. m + n
      BY <1>5, <2>2
    <3> QED BY <1>2, <3>1
  <2> QED BY <2>1, <2>2
<1> QED BY <1>1, <1>2, <1>4, <1>5, <1>6 DEF Shaped

\* Five pieces behind each other are each where the lengths before it say.
LEMMA FivePieces ==
  ASSUME NEW memory, NEW at \in Nat,
         NEW a \in Seq(0 .. BYTE), NEW b \in Seq(0 .. BYTE),
         NEW c \in Seq(0 .. BYTE), NEW d \in Seq(0 .. BYTE),
         NEW e \in Seq(0 .. BYTE), BytesAt(memory, at, a \o b \o c \o d \o e)
  PROVE  /\ BytesAt(memory, at, a)
         /\ BytesAt(memory, at + Len(a), b)
         /\ BytesAt(memory, at + Len(a) + Len(b), c)
         /\ BytesAt(memory, at + Len(a) + Len(b) + Len(c), d)
         /\ BytesAt(memory, at + Len(a) + Len(b) + Len(c) + Len(d), e)
<1>1. PICK i, j, k, l \in Nat : i = Len(a) /\ j = Len(b) /\ k = Len(c) /\ l = Len(d)
  BY LenProperties
<1>2. PICK ab : ab = a \o b
  OBVIOUS
<1>3. ab \in Seq(0 .. BYTE) /\ Len(ab) = i + j
  BY <1>1, <1>2, ConcatProperties
<1>4. PICK abc : abc = ab \o c
  OBVIOUS
<1>5. abc \in Seq(0 .. BYTE) /\ Len(abc) = i + j + k
  <2>1. abc \in Seq(0 .. BYTE) /\ Len(abc) = Len(ab) + Len(c)
    BY <1>3, <1>4, ConcatProperties
  <2> QED BY <1>1, <1>3, <2>1
<1>6. PICK abcd : abcd = abc \o d
  OBVIOUS
<1>7. abcd \in Seq(0 .. BYTE) /\ Len(abcd) = i + j + k + l
  <2>1. abcd \in Seq(0 .. BYTE) /\ Len(abcd) = Len(abc) + Len(d)
    BY <1>5, <1>6, ConcatProperties
  <2> QED BY <1>1, <1>5, <2>1
<1>8. BytesAt(memory, at, abcd) /\ BytesAt(memory, at + Len(abcd), e)
  <2>1. BytesAt(memory, at, abcd \o e)
    BY <1>2, <1>4, <1>6
  <2> QED BY <1>7, <2>1, BytesBehindBytes
<1>9. BytesAt(memory, at, abc) /\ BytesAt(memory, at + Len(abc), d)
  BY <1>5, <1>6, <1>8, BytesBehindBytes
<1>10. BytesAt(memory, at, ab) /\ BytesAt(memory, at + Len(ab), c)
  BY <1>3, <1>4, <1>9, BytesBehindBytes
<1>11. BytesAt(memory, at, a) /\ BytesAt(memory, at + Len(a), b)
  BY <1>2, <1>10, BytesBehindBytes
<1>12. /\ at + Len(ab) = at + i + j
       /\ at + Len(abc) = at + i + j + k
       /\ at + Len(abcd) = at + i + j + k + l
  BY <1>3, <1>5, <1>7
<1> QED BY <1>1, <1>8, <1>9, <1>10, <1>11, <1>12

\* What the type of a vector says.
LEMMA VectorIsSeq ==
  ASSUME NEW S, NEW s \in VectorOf(S)
  PROVE  s \in Seq(S) /\ Len(s) \in Words(4) /\ Len(s) \in Nat
BY LenProperties DEF VectorOf

\* The vectors of an operation or a generator, and where they are.
LEMMA VectorsBytes ==
  ASSUME NEW part, part.target_inputs \in VectorOf(Words(8)),
         part.constant_inputs \in VectorOf(Words(8)), NEW at \in Nat
  PROVE  /\ Vectors(part) \in Seq(Byte)
         /\ Len(Vectors(part)) = VectorsSize(part)
         /\ VectorsSize(part) \in Nat
         /\ BytesAt(buffer, at, Vectors(part)) =>
              /\ LoadNumbers(8, at, Len(part.target_inputs)) = part.target_inputs
              /\ LoadNumbers(8, at + Len(part.target_inputs) * 8,
                             Len(part.constant_inputs)) = part.constant_inputs
<1>1. PICK s, t : s = part.target_inputs /\ t = part.constant_inputs
  OBVIOUS
<1>2. /\ s \in Seq(Words(8)) /\ Len(s) \in Nat
      /\ t \in Seq(Words(8)) /\ Len(t) \in Nat
  BY <1>1, VectorIsSeq
<1>3. s \in Seq(Nat) /\ t \in Seq(Nat)
  <2>1. Words(8) \subseteq Nat
    BY DEF Words
  <2> QED BY <1>2, <2>1, SeqMonotonic
<1>4. PICK m, n \in Nat : m = Len(s) /\ n = Len(t)
  BY <1>2
<1>5. PICK ss, tt : ss = Numbers(8, s) /\ tt = Numbers(8, t)
  OBVIOUS
<1>6. /\ ss \in Seq(Byte) /\ ss \in Seq(0 .. BYTE) /\ Len(ss) = 8 * m
      /\ tt \in Seq(Byte) /\ tt \in Seq(0 .. BYTE) /\ Len(tt) = 8 * n
  BY <1>3, <1>4, <1>5, NumbersBytes
<1>7. Vectors(part) = ss \o tt
  BY <1>1, <1>5 DEF Vectors, sizeof_OPIndex, sizeof_uint64_t
<1>8. VectorsSize(part) = n * 8 + m * 8
  BY <1>1, <1>4 DEF VectorsSize, sizeof_OPIndex, sizeof_uint64_t
<1>9. ss \o tt \in Seq(Byte) /\ Len(ss \o tt) = 8 * m + 8 * n
  BY <1>6, ConcatProperties
<1>10. ASSUME BytesAt(buffer, at, Vectors(part))
       PROVE  LoadNumbers(8, at, m) = s /\ LoadNumbers(8, at + m * 8, n) = t
  <2>1. BytesAt(buffer, at, ss) /\ BytesAt(buffer, at + Len(ss), tt)
    BY <1>6, <1>7, <1>10, BytesBehindBytes
  <2>2. at + Len(ss) = at + m * 8 /\ at + m * 8 \in Nat
    BY <1>6
  <2>3. BytesAt(buffer, at + m * 8, tt)
    BY <2>1, <2>2
  <2> QED BY <1>2, <1>4, <1>5, <2>1, <2>2, <2>3, LoadOfNumbers
<1>11. Len(Vectors(part)) = VectorsSize(part) /\ VectorsSize(part) \in Nat
  BY <1>7, <1>8, <1>9
<1> QED BY <1>1, <1>4, <1>7, <1>9, <1>10, <1>11

\* FOperation: two bytes behind the op_type are padding, and read takes from the
\* other bytes the operation write left there.
LEMMA OperationBytes ==
  ASSUME NEW op \in FOperation, NEW at \in Nat
  PROVE  /\ operation_size(op) \in Nat
         /\ Shaped(operation_bytes(op), operation_size(op), 3 .. 4)
         /\ BytesAt(buffer, at, operation_bytes(op)) => read_operation_at(at) = op
<1>1. /\ op.op_type \in Words(2)
      /\ op.target_inputs \in VectorOf(Words(8))
      /\ op.constant_inputs \in VectorOf(Words(8))
      /\ op = [op_type |-> op.op_type, target_inputs |-> op.target_inputs,
               constant_inputs |-> op.constant_inputs]
  BY DEF FOperation
<1>2. PICK m, n \in Words(4) :
        m = Len(op.target_inputs) /\ n = Len(op.constant_inputs)
  BY <1>1, VectorIsSeq
<1>3. m \in Nat /\ n \in Nat /\ op.op_type \in Nat
  BY <1>1 DEF Words
<1>4. PICK a, p, b, c, v :
        /\ a = Number(2, op.op_type) /\ p = Padding(2)
        /\ b = Number(4, m) /\ c = Number(4, n) /\ v = Vectors(op)
  OBVIOUS
<1>5. /\ a \in Seq(Byte) /\ a \in Seq(0 .. BYTE) /\ Len(a) = 2
      /\ b \in Seq(Byte) /\ b \in Seq(0 .. BYTE) /\ Len(b) = 4
      /\ c \in Seq(Byte) /\ c \in Seq(0 .. BYTE) /\ Len(c) = 4
  BY <1>3, <1>4, NumberBytes
<1>6. v \in Seq(Byte) /\ Len(v) = VectorsSize(op) /\ VectorsSize(op) \in Nat
  BY <1>1, <1>4, VectorsBytes
<1>7. operation_bytes(op) = a \o p \o b \o c \o v
  BY <1>2, <1>4 DEF operation_bytes
<1>8. operation_size(op) = 12 + VectorsSize(op)
  BY DEF operation_size, sizeof_FOperationSerializedHeader
<1>9. Shaped(a \o p, 4, 3 .. 4) /\ p \in Seq(0 .. BYTE) /\ Len(p) = 2
  <2>1. Shaped(a, 2, {})
    BY <1>5, ShapedBytes
  <2>2. Shaped(a \o p, 2 + 2, 2 + 1 .. 2 + 2) /\ p \in Seq(0 .. BYTE) /\ Len(p) = 2
    BY <1>4, <2>1, ShapedPadding
  <2> QED BY <2>2
<1>10. Shaped(a \o p \o b \o c \o v, operation_size(op), 3 .. 4)
  <2>1. PICK ap, apb, apbc : ap = a \o p /\ apb = ap \o b /\ apbc = apb \o c
    OBVIOUS
  <2>2. PICK holes : holes = 3 .. 4
    OBVIOUS
  <2>3. 8 = 4 + 4 /\ 12 = 8 + 4 /\ 4 \in Nat /\ 8 \in Nat
    OBVIOUS
  <2>4. Shaped(apb, 8, holes)
    <3>1. Shaped(ap, 4, holes)
      BY <1>9, <2>1, <2>2
    <3> QED BY <1>5, <2>1, <2>3, <3>1, ShapedAppend, Zenon
  <2>5. Shaped(apbc, 12, holes)
    BY <1>5, <2>1, <2>3, <2>4, ShapedAppend, Zenon
  <2>6. Shaped(apbc \o v, operation_size(op), holes)
    BY <1>6, <1>8, <2>5, ShapedAppend
  <2> QED BY <2>1, <2>2, <2>6
<1>11. ASSUME BytesAt(buffer, at, operation_bytes(op))
       PROVE  read_operation_at(at) = op
  <2>1. v \in Seq(0 .. BYTE)
    BY <1>6, ShapedBytes DEF Shaped
  <2>2. /\ BytesAt(buffer, at, a)
        /\ BytesAt(buffer, at + Len(a) + Len(p), b)
        /\ BytesAt(buffer, at + Len(a) + Len(p) + Len(b), c)
        /\ BytesAt(buffer, at + Len(a) + Len(p) + Len(b) + Len(c), v)
    <3>1. BytesAt(buffer, at, a \o p \o b \o c \o v)
      BY <1>7, <1>11
    <3>2. /\ a \in Seq(0 .. BYTE) /\ p \in Seq(0 .. BYTE) /\ b \in Seq(0 .. BYTE)
          /\ c \in Seq(0 .. BYTE)
      BY <1>5, <1>9
    <3>3. /\ BytesAt(buffer, at, a)
          /\ BytesAt(buffer, at + Len(a), p)
          /\ BytesAt(buffer, at + Len(a) + Len(p), b)
          /\ BytesAt(buffer, at + Len(a) + Len(p) + Len(b), c)
          /\ BytesAt(buffer, at + Len(a) + Len(p) + Len(b) + Len(c), v)
      BY <2>1, <3>1, <3>2, FivePieces, Zenon
    <3> QED BY <3>3, Zenon
  <2>3. /\ BytesAt(buffer, at + 4, b)
        /\ BytesAt(buffer, at + 8, c)
        /\ BytesAt(buffer, at + 12, v)
    <3>1. /\ at + Len(a) + Len(p) = at + 4
          /\ at + Len(a) + Len(p) + Len(b) = at + 8
          /\ at + Len(a) + Len(p) + Len(b) + Len(c) = at + 12
      BY <1>5, <1>9
    <3> QED BY <2>2, <3>1
  <2>4. Load(2, at) = op.op_type /\ Load(4, at + 4) = m /\ Load(4, at + 8) = n
    <3>1. at + 4 \in Nat /\ at + 8 \in Nat
      OBVIOUS
    <3> QED BY <1>1, <1>4, <2>2, <2>3, <3>1, LoadOfNumber
  <2>5. /\ LoadNumbers(8, at + 12, m) = op.target_inputs
        /\ LoadNumbers(8, at + 12 + m * 8, n) = op.constant_inputs
    <3>1. at + 12 \in Nat
      OBVIOUS
    <3> QED BY <1>1, <1>2, <1>4, <2>3, <3>1, VectorsBytes
  <2> QED BY <1>1, <2>4, <2>5
          DEF read_operation_at, sizeof_FOperationSerializedHeader,
              sizeof_OPIndex, sizeof_uint64_t
<1>12. operation_size(op) \in Nat
  BY <1>6, <1>8
<1> QED BY <1>7, <1>10, <1>11, <1>12

\* FGenerator: no padding.
LEMMA GeneratorBytes ==
  ASSUME NEW gen \in FGenerator, NEW at \in Nat
  PROVE  /\ generator_size(gen) \in Nat
         /\ Shaped(generator_bytes(gen), generator_size(gen), {})
         /\ BytesAt(buffer, at, generator_bytes(gen)) => read_generator_at(at) = gen
<1>1. /\ gen.generator_id \in Words(8) /\ gen.op_dependency_id \in Words(8)
      /\ gen.target_inputs \in VectorOf(Words(8))
      /\ gen.constant_inputs \in VectorOf(Words(8))
      /\ gen = [generator_id |-> gen.generator_id,
                op_dependency_id |-> gen.op_dependency_id,
                target_inputs |-> gen.target_inputs,
                constant_inputs |-> gen.constant_inputs]
  BY DEF FGenerator
<1>2. PICK m, n \in Words(4) :
        m = Len(gen.target_inputs) /\ n = Len(gen.constant_inputs)
  BY <1>1, VectorIsSeq
<1>3. /\ m \in Nat /\ n \in Nat
      /\ gen.generator_id \in Nat /\ gen.op_dependency_id \in Nat
  BY <1>1 DEF Words
<1>4. PICK a, p, b, c, v :
        /\ a = Number(8, gen.generator_id) /\ p = Number(8, gen.op_dependency_id)
        /\ b = Number(4, m) /\ c = Number(4, n) /\ v = Vectors(gen)
  OBVIOUS
<1>5. /\ a \in Seq(Byte) /\ a \in Seq(0 .. BYTE) /\ Len(a) = 8
      /\ p \in Seq(Byte) /\ p \in Seq(0 .. BYTE) /\ Len(p) = 8
      /\ b \in Seq(Byte) /\ b \in Seq(0 .. BYTE) /\ Len(b) = 4
      /\ c \in Seq(Byte) /\ c \in Seq(0 .. BYTE) /\ Len(c) = 4
  BY <1>3, <1>4, NumberBytes
<1>6. v \in Seq(Byte) /\ Len(v) = VectorsSize(gen) /\ VectorsSize(gen) \in Nat
  BY <1>1, <1>4, VectorsBytes
<1>7. generator_bytes(gen) = a \o p \o b \o c \o v
  BY <1>2, <1>4 DEF generator_bytes
<1>8. generator_size(gen) = 24 + VectorsSize(gen)
  BY DEF generator_size, sizeof_FGeneratorSerializedHeader
<1>9. Shaped(a \o p \o b \o c \o v, generator_size(gen), {})
  <2>1. PICK ap, apb, apbc : ap = a \o p /\ apb = ap \o b /\ apbc = apb \o c
    OBVIOUS
  <2>2. Shaped(a, 8, {})
    BY <1>5, ShapedBytes
  <2>7. /\ 16 = 8 + 8 /\ 20 = 16 + 4 /\ 24 = 20 + 4
        /\ 4 \in Nat /\ 8 \in Nat /\ 16 \in Nat /\ 20 \in Nat
    OBVIOUS
  <2>3. Shaped(ap, 16, {})
    BY <1>5, <2>1, <2>2, <2>7, ShapedAppend, Zenon
  <2>4. Shaped(apb, 20, {})
    BY <1>5, <2>1, <2>3, <2>7, ShapedAppend, Zenon
  <2>5. Shaped(apbc, 24, {})
    BY <1>5, <2>1, <2>4, <2>7, ShapedAppend, Zenon
  <2>6. Shaped(apbc \o v, generator_size(gen), {})
    BY <1>6, <1>8, <2>5, ShapedAppend
  <2> QED BY <2>1, <2>6
<1>10. ASSUME BytesAt(buffer, at, generator_bytes(gen))
       PROVE  read_generator_at(at) = gen
  <2>1. v \in Seq(0 .. BYTE)
    BY <1>6, ShapedBytes DEF Shaped
  <2>2. /\ BytesAt(buffer, at, a)
        /\ BytesAt(buffer, at + Len(a), p)
        /\ BytesAt(buffer, at + Len(a) + Len(p), b)
        /\ BytesAt(buffer, at + Len(a) + Len(p) + Len(b), c)
        /\ BytesAt(buffer, at + Len(a) + Len(p) + Len(b) + Len(c), v)
    <3>1. BytesAt(buffer, at, a \o p \o b \o c \o v)
      BY <1>7, <1>10
    <3>2. /\ a \in Seq(0 .. BYTE) /\ p \in Seq(0 .. BYTE) /\ b \in Seq(0 .. BYTE)
          /\ c \in Seq(0 .. BYTE)
      BY <1>5
    <3> QED BY <2>1, <3>1, <3>2, FivePieces, Zenon
  <2>3. /\ BytesAt(buffer, at + 8, p)
        /\ BytesAt(buffer, at + 16, b)
        /\ BytesAt(buffer, at + 20, c)
        /\ BytesAt(buffer, at + 24, v)
    <3>1. /\ at + Len(a) = at + 8
          /\ at + Len(a) + Len(p) = at + 16
          /\ at + Len(a) + Len(p) + Len(b) = at + 20
          /\ at + Len(a) + Len(p) + Len(b) + Len(c) = at + 24
      BY <1>5
    <3> QED BY <2>2, <3>1
  <2>4. /\ Load(8, at) = gen.generator_id /\ Load(8, at + 8) = gen.op_dependency_id
        /\ Load(4, at + 16) = m /\ Load(4, at + 20) = n
    <3>1. at + 8 \in Nat /\ at + 16 \in Nat /\ at + 20 \in Nat
      OBVIOUS
    <3>2. Load(8, at) = gen.generator_id
      BY <1>1, <1>4, <2>2, LoadOfNumber
    <3>3. Load(8, at + 8) = gen.op_dependency_id
      BY <1>1, <1>4, <2>3, <3>1, LoadOfNumber
    <3>4. Load(4, at + 16) = m /\ Load(4, at + 20) = n
      BY <1>4, <2>3, <3>1, LoadOfNumber
    <3> QED BY <3>2, <3>3, <3>4
  <2>5. /\ LoadNumbers(8, at + 24, m) = gen.target_inputs
        /\ LoadNumbers(8, at + 24 + m * 8, n) = gen.constant_inputs
    <3>1. at + 24 \in Nat
      OBVIOUS
    <3> QED BY <1>1, <1>2, <1>4, <2>3, <3>1, VectorsBytes
  <2> QED BY <1>1, <2>4, <2>5
          DEF read_generator_at, sizeof_FGeneratorSerializedHeader,
              sizeof_OPIndex, sizeof_uint64_t
<1>11. generator_size(gen) \in Nat
  BY <1>6, <1>8
<1> QED BY <1>7, <1>9, <1>10, <1>11

\* FCircuitAssertion: four bytes between the length and the message are padding.
LEMMA AssertionBytes ==
  ASSUME NEW asrt \in FCircuitAssertion, NEW at \in Nat
  PROVE  /\ assertion_size(asrt) \in Nat
         /\ Shaped(assertion_bytes(asrt), assertion_size(asrt), 21 .. 24)
         /\ BytesAt(buffer, at, assertion_bytes(asrt)) => read_assertion_at(at) = asrt
<1>1. /\ asrt.left \in Words(8) /\ asrt.right \in Words(8)
      /\ asrt.message \in VectorOf(0 .. BYTE - 1)
      /\ asrt = [left |-> asrt.left, right |-> asrt.right, message |-> asrt.message]
  BY DEF FCircuitAssertion
<1>2. PICK n, v : n \in Words(4) /\ v = asrt.message /\ n = Len(v)
  BY <1>1, VectorIsSeq
<1>3. n \in Nat /\ asrt.left \in Nat /\ asrt.right \in Nat
  BY <1>1, <1>2 DEF Words
<1>4. PICK a, b, c, p :
        /\ a = Number(8, asrt.left) /\ b = Number(8, asrt.right)
        /\ c = Number(4, n) /\ p = Padding(4)
  OBVIOUS
<1>5. /\ a \in Seq(Byte) /\ a \in Seq(0 .. BYTE) /\ Len(a) = 8
      /\ b \in Seq(Byte) /\ b \in Seq(0 .. BYTE) /\ Len(b) = 8
      /\ c \in Seq(Byte) /\ c \in Seq(0 .. BYTE) /\ Len(c) = 4
  BY <1>3, <1>4, NumberBytes
<1>6. v \in Seq(Byte) /\ Len(v) = n
  BY <1>1, <1>2, VectorIsSeq DEF Byte
<1>7. assertion_bytes(asrt) = a \o b \o c \o p \o v
  BY <1>2, <1>4 DEF assertion_bytes
<1>8. assertion_size(asrt) = 24 + n
  BY <1>2 DEF assertion_size, sizeof_FCircuitAssertionSerializedHeader
<1>9. PICK ab, abc, abcp : ab = a \o b /\ abc = ab \o c /\ abcp = abc \o p
  OBVIOUS
<1>10. /\ Shaped(abcp, 24, 21 .. 24)
       /\ p \in Seq(0 .. BYTE) /\ Len(p) = 4
  <2>1. /\ 16 = 8 + 8 /\ 20 = 16 + 4
        /\ 4 \in Nat /\ 8 \in Nat /\ 16 \in Nat /\ 20 \in Nat
    OBVIOUS
  <2>2. Shaped(a, 8, {})
    BY <1>5, ShapedBytes
  <2>3. Shaped(ab, 16, {})
    BY <1>5, <1>9, <2>1, <2>2, ShapedAppend, Zenon
  <2>4. Shaped(abc, 20, {})
    BY <1>5, <1>9, <2>1, <2>3, ShapedAppend, Zenon
  <2>5. Shaped(abc \o Padding(4), 20 + 4, 20 + 1 .. 20 + 4)
        /\ Padding(4) \in Seq(0 .. BYTE) /\ Len(Padding(4)) = 4
    BY <2>4, ShapedPadding
  <2> QED BY <1>4, <1>9, <2>5
<1>11. Shaped(a \o b \o c \o p \o v, assertion_size(asrt), 21 .. 24)
  <2>1. PICK holes : holes = 21 .. 24
    OBVIOUS
  <2>2. Shaped(abcp, 24, holes)
    BY <1>10, <2>1
  <2>3. Shaped(abcp \o v, assertion_size(asrt), holes)
    BY <1>3, <1>6, <1>8, <2>2, ShapedAppend
  <2> QED BY <1>9, <2>1, <2>3
<1>12. ASSUME BytesAt(buffer, at, assertion_bytes(asrt))
       PROVE  read_assertion_at(at) = asrt
  <2>1. v \in Seq(0 .. BYTE)
    BY <1>6, ShapedBytes DEF Shaped
  <2>2. /\ BytesAt(buffer, at, a)
        /\ BytesAt(buffer, at + Len(a), b)
        /\ BytesAt(buffer, at + Len(a) + Len(b), c)
        /\ BytesAt(buffer, at + Len(a) + Len(b) + Len(c) + Len(p), v)
    <3>1. BytesAt(buffer, at, a \o b \o c \o p \o v)
      BY <1>7, <1>12
    <3>2. /\ a \in Seq(0 .. BYTE) /\ b \in Seq(0 .. BYTE) /\ c \in Seq(0 .. BYTE)
          /\ p \in Seq(0 .. BYTE)
      BY <1>5, <1>10
    <3>3. /\ BytesAt(buffer, at, a)
          /\ BytesAt(buffer, at + Len(a), b)
          /\ BytesAt(buffer, at + Len(a) + Len(b), c)
          /\ BytesAt(buffer, at + Len(a) + Len(b) + Len(c), p)
          /\ BytesAt(buffer, at + Len(a) + Len(b) + Len(c) + Len(p), v)
      BY <2>1, <3>1, <3>2, FivePieces, Zenon
    <3> QED BY <3>3, Zenon
  <2>3. /\ BytesAt(buffer, at + 8, b)
        /\ BytesAt(buffer, at + 16, c)
        /\ BytesAt(buffer, at + 24, v)
    <3>1. /\ at + Len(a) = at + 8
          /\ at + Len(a) + Len(b) = at + 16
          /\ at + Len(a) + Len(b) + Len(c) + Len(p) = at + 24
      BY <1>5, <1>10
    <3> QED BY <2>2, <3>1
  <2>4. /\ Load(8, at) = asrt.left /\ Load(8, at + 8) = asrt.right
        /\ Load(4, at + 16) = n
    <3>1. at + 8 \in Nat /\ at + 16 \in Nat
      OBVIOUS
    <3>2. Load(8, at) = asrt.left
      BY <1>1, <1>4, <2>2, LoadOfNumber
    <3>3. Load(8, at + 8) = asrt.right
      BY <1>1, <1>4, <2>3, <3>1, LoadOfNumber
    <3>4. Load(4, at + 16) = n
      BY <1>2, <1>4, <2>3, <3>1, LoadOfNumber
    <3> QED BY <3>2, <3>3, <3>4
  <2>5. LoadBytes(at + 24, n) = asrt.message
    <3>1. ASSUME NEW k \in 1 .. n
          PROVE  /\ at + 24 + k - 1 \in DOMAIN buffer
                 /\ buffer[at + 24 + k - 1] = v[k]
      <4>1. v[k] # Unwritten
        BY <1>6, ShapedBytes DEF Shaped
      <4> QED BY <1>6, <2>3, <4>1 DEF BytesAt
    <3>2. LoadBytes(at + 24, n) = [k \in 1 .. n |-> v[k]]
      BY <3>1 DEF LoadBytes
    <3>3. v = [k \in 1 .. n |-> v[k]]
      BY <1>6, LenProperties
    <3> QED BY <1>2, <3>2, <3>3
  <2> QED BY <1>1, <2>4, <2>5
          DEF read_assertion_at, sizeof_FCircuitAssertionSerializedHeader
<1>13. assertion_size(asrt) \in Nat
  BY <1>3, <1>8
<1> QED BY <1>7, <1>11, <1>12, <1>13

\* An output is one number.
LEMMA OutputBytes ==
  ASSUME NEW id \in Words(8), NEW at \in Nat
  PROVE  /\ output_size(id) \in Nat
         /\ Shaped(output_bytes(id), output_size(id), {})
         /\ BytesAt(buffer, at, output_bytes(id)) => read_output_at(at) = id
<1>1. id \in Nat
  BY DEF Words
<1>2. Number(8, id) \in Seq(Byte) /\ Len(Number(8, id)) = 8
  BY <1>1, NumberBytes
<1>3. Shaped(Number(8, id), 8, {})
  BY <1>2, ShapedBytes
<1>4. BytesAt(buffer, at, Number(8, id)) => Load(8, at) = id
  BY LoadOfNumber
<1> QED BY <1>3, <1>4
        DEF output_size, output_bytes, read_output_at, sizeof_OPIndex

\* The header: its last four bytes are padding, and read finds each count but the
\* number of vector operations.
LEMMA HeaderBytes ==
  ASSUME NEW c \in FCircuit
  PROVE  /\ Shaped(circuit_header(c), 40, 37 .. 40)
         /\ BytesAt(buffer, 0, circuit_header(c)) =>
              /\ Load(8, 0) = c.input_target_count
              /\ Load(8, 8) = c.generator_target_count
              /\ Load(4, 16) = Len(c.operations)
              /\ Load(4, 24) = Len(c.assertions)
              /\ Load(4, 28) = Len(c.generators)
              /\ Load(4, 32) = Len(c.output_ops)
<1>1. /\ c.input_target_count \in Words(8) /\ c.generator_target_count \in Words(8)
      /\ c.vector_operation_count \in Words(4)
      /\ c.operations \in VectorOf(FOperation) /\ c.generators \in VectorOf(FGenerator)
      /\ c.assertions \in VectorOf(FCircuitAssertion)
      /\ c.output_ops \in VectorOf(Words(8))
  BY DEF FCircuit
<1>2. PICK n1, n2 \in Words(8) :
        n1 = c.input_target_count /\ n2 = c.generator_target_count
  BY <1>1
<1>3. PICK n3, n4, n5, n6, n7 \in Words(4) :
        /\ n3 = Len(c.operations) /\ n4 = c.vector_operation_count
        /\ n5 = Len(c.assertions) /\ n6 = Len(c.generators) /\ n7 = Len(c.output_ops)
  BY <1>1, VectorIsSeq
<1>4. /\ n1 \in Nat /\ n2 \in Nat /\ n3 \in Nat /\ n4 \in Nat /\ n5 \in Nat
      /\ n6 \in Nat /\ n7 \in Nat
  BY DEF Words
<1>5. PICK b1, b2, b3, b4, b5, b6, b7, p :
        /\ b1 = Number(8, n1) /\ b2 = Number(8, n2)
        /\ b3 = Number(4, n3) /\ b4 = Number(4, n4) /\ b5 = Number(4, n5)
        /\ b6 = Number(4, n6) /\ b7 = Number(4, n7) /\ p = Padding(4)
  OBVIOUS
<1>6. /\ b1 \in Seq(Byte) /\ b1 \in Seq(0 .. BYTE) /\ Len(b1) = 8
      /\ b2 \in Seq(Byte) /\ b2 \in Seq(0 .. BYTE) /\ Len(b2) = 8
      /\ b3 \in Seq(Byte) /\ b3 \in Seq(0 .. BYTE) /\ Len(b3) = 4
      /\ b4 \in Seq(Byte) /\ b4 \in Seq(0 .. BYTE) /\ Len(b4) = 4
      /\ b5 \in Seq(Byte) /\ b5 \in Seq(0 .. BYTE) /\ Len(b5) = 4
      /\ b6 \in Seq(Byte) /\ b6 \in Seq(0 .. BYTE) /\ Len(b6) = 4
      /\ b7 \in Seq(Byte) /\ b7 \in Seq(0 .. BYTE) /\ Len(b7) = 4
  BY <1>4, <1>5, NumberBytes
<1>7. PICK h2, h3, h4, h5, h6, h7 :
        /\ h2 = b1 \o b2 /\ h3 = h2 \o b3 /\ h4 = h3 \o b4
        /\ h5 = h4 \o b5 /\ h6 = h5 \o b6 /\ h7 = h6 \o b7
  OBVIOUS
<1>8. circuit_header(c) = h7 \o p
  BY <1>2, <1>3, <1>5, <1>7 DEF circuit_header
<1>9. /\ Shaped(h4, 24, {}) /\ Shaped(h5, 28, {})
      /\ Shaped(h6, 32, {}) /\ Shaped(h7, 36, {})
  <2>1. Shaped(b1, 8, {})
    BY <1>6, ShapedBytes
  <2>2. Shaped(h2, 16, {})
    <3>1. b2 \in Seq(Byte) /\ Len(b2) = 8 /\ h2 = b1 \o b2
      BY <1>6, <1>7
    <3>2. 16 = 8 + 8 /\ 8 \in Nat
      OBVIOUS
    <3> QED BY <2>1, <3>1, <3>2, ShapedAppend, Zenon
  <2>3. Shaped(h3, 20, {})
    <3>1. b3 \in Seq(Byte) /\ Len(b3) = 4 /\ h3 = h2 \o b3
      BY <1>6, <1>7
    <3>2. 20 = 16 + 4 /\ 4 \in Nat /\ 16 \in Nat
      OBVIOUS
    <3> QED BY <2>2, <3>1, <3>2, ShapedAppend, Zenon
  <2>4. Shaped(h4, 24, {})
    <3>1. b4 \in Seq(Byte) /\ Len(b4) = 4 /\ h4 = h3 \o b4
      BY <1>6, <1>7
    <3>2. 24 = 20 + 4 /\ 4 \in Nat /\ 20 \in Nat
      OBVIOUS
    <3> QED BY <2>3, <3>1, <3>2, ShapedAppend, Zenon
  <2>5. Shaped(h5, 28, {})
    <3>1. b5 \in Seq(Byte) /\ Len(b5) = 4 /\ h5 = h4 \o b5
      BY <1>6, <1>7
    <3>2. 28 = 24 + 4 /\ 4 \in Nat /\ 24 \in Nat
      OBVIOUS
    <3> QED BY <2>4, <3>1, <3>2, ShapedAppend, Zenon
  <2>6. Shaped(h6, 32, {})
    <3>1. b6 \in Seq(Byte) /\ Len(b6) = 4 /\ h6 = h5 \o b6
      BY <1>6, <1>7
    <3>2. 32 = 28 + 4 /\ 4 \in Nat /\ 28 \in Nat
      OBVIOUS
    <3> QED BY <2>5, <3>1, <3>2, ShapedAppend, Zenon
  <2>7. Shaped(h7, 36, {})
    <3>1. b7 \in Seq(Byte) /\ Len(b7) = 4 /\ h7 = h6 \o b7
      BY <1>6, <1>7
    <3>2. 36 = 32 + 4 /\ 4 \in Nat /\ 32 \in Nat
      OBVIOUS
    <3> QED BY <2>6, <3>1, <3>2, ShapedAppend, Zenon
  <2> QED BY <2>4, <2>5, <2>6, <2>7
<1>10. Shaped(h7 \o p, 40, 37 .. 40) /\ p \in Seq(0 .. BYTE)
  <2>1. Shaped(h7 \o Padding(4), 36 + 4, 36 + 1 .. 36 + 4)
        /\ Padding(4) \in Seq(0 .. BYTE)
    BY <1>9, ShapedPadding
  <2> QED BY <1>5, <2>1
<1>11. /\ h4 \in Seq(0 .. BYTE) /\ Len(h4) = 24 /\ h5 \in Seq(0 .. BYTE)
       /\ Len(h5) = 28 /\ h6 \in Seq(0 .. BYTE) /\ Len(h6) = 32
       /\ h7 \in Seq(0 .. BYTE) /\ Len(h7) = 36
  BY <1>9 DEF Shaped
<1>12. ASSUME BytesAt(buffer, 0, circuit_header(c))
       PROVE  /\ Load(8, 0) = n1 /\ Load(8, 8) = n2 /\ Load(4, 16) = n3
              /\ Load(4, 24) = n5 /\ Load(4, 28) = n6 /\ Load(4, 32) = n7
  <2>1. BytesAt(buffer, 0, h7)
    BY <1>8, <1>10, <1>11, <1>12, BytesBehindBytes
  <2>2. BytesAt(buffer, 0, h6) /\ BytesAt(buffer, 32, b7)
    <3>1. BytesAt(buffer, 0, h6) /\ BytesAt(buffer, 0 + Len(h6), b7)
      BY <1>6, <1>7, <1>11, <2>1, BytesBehindBytes
    <3> QED BY <1>11, <3>1
  <2>3. BytesAt(buffer, 0, h5) /\ BytesAt(buffer, 28, b6)
    <3>1. BytesAt(buffer, 0, h5) /\ BytesAt(buffer, 0 + Len(h5), b6)
      BY <1>6, <1>7, <1>11, <2>2, BytesBehindBytes
    <3> QED BY <1>11, <3>1
  <2>4. /\ BytesAt(buffer, 0, b1)
        /\ BytesAt(buffer, 0 + Len(b1), b2)
        /\ BytesAt(buffer, 0 + Len(b1) + Len(b2), b3)
        /\ BytesAt(buffer, 0 + Len(b1) + Len(b2) + Len(b3) + Len(b4), b5)
    <3>1. BytesAt(buffer, 0, b1 \o b2 \o b3 \o b4 \o b5)
      BY <1>7, <2>3
    <3>2. 0 \in Nat
      OBVIOUS
    <3>3. /\ b1 \in Seq(0 .. BYTE) /\ b2 \in Seq(0 .. BYTE) /\ b3 \in Seq(0 .. BYTE)
          /\ b4 \in Seq(0 .. BYTE) /\ b5 \in Seq(0 .. BYTE)
      BY <1>6
    <3> QED BY <3>1, <3>2, <3>3, FivePieces, Zenon
  <2>5. /\ BytesAt(buffer, 8, b2) /\ BytesAt(buffer, 16, b3)
        /\ BytesAt(buffer, 24, b5)
    <3>1. /\ 0 + Len(b1) = 8
          /\ 0 + Len(b1) + Len(b2) = 16
          /\ 0 + Len(b1) + Len(b2) + Len(b3) + Len(b4) = 24
      BY <1>6
    <3> QED BY <2>4, <3>1
  <2>6. Load(8, 0) = n1 /\ Load(8, 8) = n2
    BY <1>5, <2>4, <2>5, LoadOfNumber
  <2>7. Load(4, 16) = n3 /\ Load(4, 24) = n5
    BY <1>5, <2>5, LoadOfNumber
  <2>8. Load(4, 28) = n6 /\ Load(4, 32) = n7
    BY <1>5, <2>2, <2>3, LoadOfNumber
  <2> QED BY <2>6, <2>7, <2>8
<1> QED BY <1>2, <1>3, <1>8, <1>10, <1>12

-----------------------------------------------------------------------------
(* The parts of a circuit, loop by loop                                    *)

PartType(loop) ==
  CASE loop = "operations" -> FOperation
    [] loop = "assertions" -> FCircuitAssertion
    [] loop = "generators" -> FGenerator
    [] loop = "output_ops" -> Words(8)

PartSize(loop, part) ==
  CASE loop = "operations" -> operation_size(part)
    [] loop = "assertions" -> assertion_size(part)
    [] loop = "generators" -> generator_size(part)
    [] loop = "output_ops" -> output_size(part)

PartBytes(loop, part) ==
  CASE loop = "operations" -> operation_bytes(part)
    [] loop = "assertions" -> assertion_bytes(part)
    [] loop = "generators" -> generator_bytes(part)
    [] loop = "output_ops" -> output_bytes(part)

PartAt(loop, at) ==
  CASE loop = "operations" -> read_operation_at(at)
    [] loop = "assertions" -> read_assertion_at(at)
    [] loop = "generators" -> read_generator_at(at)
    [] loop = "output_ops" -> read_output_at(at)

\* The first hole in a part and the number of them.
FirstHole(loop) == IF loop = "operations" THEN 3 ELSE 21
HoleCount(loop) ==
  CASE loop = "operations" -> 2 [] loop = "assertions" -> 4
    [] loop = "generators" -> 0 [] loop = "output_ops" -> 0

LEMMA FourLoops ==
  /\ LoopNames = {"operations", "assertions", "generators", "output_ops"}
  /\ DOMAIN Loops = 1 .. 4
  /\ Loops[1] = "operations" /\ Loops[2] = "assertions"
  /\ Loops[3] = "generators" /\ Loops[4] = "output_ops"
<1>1. /\ DOMAIN Loops = 1 .. 4
      /\ Loops[1] = "operations" /\ Loops[2] = "assertions"
      /\ Loops[3] = "generators" /\ Loops[4] = "output_ops"
  BY DEF Loops
<1>2. DOMAIN Loops = {1, 2, 3, 4}
  BY <1>1
<1> HIDE DEF Loops
<1> QED BY <1>1, <1>2 DEF LoopNames

\* Every part has the size and the holes its loop says, and is read back.
LEMMA BytesOfPart ==
  ASSUME NEW loop \in LoopNames, NEW part \in PartType(loop), NEW at \in Nat
  PROVE  /\ PartSize(loop, part) \in Nat
         /\ Shaped(PartBytes(loop, part), PartSize(loop, part),
                   FirstHole(loop) .. FirstHole(loop) + HoleCount(loop) - 1)
         /\ BytesAt(buffer, at, PartBytes(loop, part)) => PartAt(loop, at) = part
<1>1. CASE loop = "operations"
  <2>1. part \in FOperation
    BY <1>1 DEF PartType
  <2>2. FirstHole(loop) .. FirstHole(loop) + HoleCount(loop) - 1 = 3 .. 4
    BY <1>1 DEF FirstHole, HoleCount
  <2> QED BY <1>1, <2>1, <2>2, OperationBytes DEF PartSize, PartBytes, PartAt
<1>2. CASE loop = "assertions"
  <2>1. part \in FCircuitAssertion
    BY <1>2 DEF PartType
  <2>2. FirstHole(loop) .. FirstHole(loop) + HoleCount(loop) - 1 = 21 .. 24
    BY <1>2 DEF FirstHole, HoleCount
  <2> QED BY <1>2, <2>1, <2>2, AssertionBytes DEF PartSize, PartBytes, PartAt
<1>3. CASE loop = "generators"
  <2>1. part \in FGenerator
    BY <1>3 DEF PartType
  <2>2. FirstHole(loop) .. FirstHole(loop) + HoleCount(loop) - 1 = {}
    BY <1>3 DEF FirstHole, HoleCount
  <2> QED BY <1>3, <2>1, <2>2, GeneratorBytes DEF PartSize, PartBytes, PartAt
<1>4. CASE loop = "output_ops"
  <2>1. part \in Words(8)
    BY <1>4 DEF PartType
  <2>2. FirstHole(loop) .. FirstHole(loop) + HoleCount(loop) - 1 = {}
    BY <1>4 DEF FirstHole, HoleCount
  <2> QED BY <1>4, <2>1, <2>2, OutputBytes DEF PartSize, PartBytes, PartAt
<1> QED BY <1>1, <1>2, <1>3, <1>4, FourLoops

LEMMA PartsOfCircuit ==
  ASSUME NEW c \in FCircuit, NEW loop \in LoopNames
  PROVE  /\ c[loop] \in Seq(PartType(loop)) /\ Len(c[loop]) \in Nat
         /\ \A i \in 1 .. Len(c[loop]) : c[loop][i] \in PartType(loop)
<1>1. c[loop] \in VectorOf(PartType(loop))
  BY FourLoops DEF FCircuit, PartType
<1>2. c[loop] \in Seq(PartType(loop)) /\ Len(c[loop]) \in Nat
  BY <1>1, VectorIsSeq
<1>3. PICK s, T : s = c[loop] /\ T = PartType(loop)
  OBVIOUS
<1>4. \A i \in 1 .. Len(s) : s[i] \in T
  BY <1>2, <1>3, ElementOfSeq
<1> QED BY <1>2, <1>3, <1>4

LEMMA SizesOfCircuit ==
  ASSUME NEW c \in FCircuit, NEW loop \in LoopNames
  PROVE  /\ Sizes(c)[loop] \in [1 .. Len(c[loop]) -> Nat]
         /\ \A i \in 1 .. Len(c[loop]) : Sizes(c)[loop][i] = PartSize(loop, c[loop][i])
<1>1. PICK n \in Nat : n = Len(c[loop])
  BY PartsOfCircuit
<1>2. DOMAIN c[loop] = 1 .. n
  BY <1>1, PartsOfCircuit, LenProperties
<1>3. Sizes(c)[loop] = [i \in DOMAIN c[loop] |-> PartSize(loop, c[loop][i])]
  BY FourLoops DEF Sizes, PartSize
<1>4. ASSUME NEW i \in 1 .. n
      PROVE  PartSize(loop, c[loop][i]) \in Nat
  <2>1. c[loop][i] \in PartType(loop) /\ 0 \in Nat
    BY <1>1, PartsOfCircuit
  <2> QED BY <2>1, BytesOfPart
<1>5. Sizes(c)[loop] = [i \in 1 .. n |-> PartSize(loop, c[loop][i])]
  BY <1>2, <1>3
<1> QED BY <1>1, <1>4, <1>5

-----------------------------------------------------------------------------
(* How far a call has come                                                 *)

Position(loop) ==
  CASE loop = "operations" -> 1 [] loop = "assertions" -> 2
    [] loop = "generators" -> 3 [] loop = "output_ops" -> 4

Nothing == [loop \in LoopNames |-> 0]
Everything(c) == [loop \in LoopNames |-> Len(c[loop])]

\* Some of the parts, a loop after the other.
InOrder(c, done) ==
  /\ done \in [LoopNames -> Nat]
  /\ \A loop \in LoopNames : done[loop] <= Len(c[loop])
  /\ \A loop, later \in LoopNames :
       Position(loop) < Position(later) /\ done[later] > 0 =>
         done[loop] = Len(c[loop])

\* The next part is one of this loop.
NextIn(c, done, loop) ==
  /\ done[loop] < Len(c[loop])
  /\ \A other \in LoopNames :
       Position(other) < Position(loop) => done[other] = Len(c[other])

\* What is handled before the i-th part of a loop, and the place of the part.
DoneBefore(c, loop, i) ==
  [other \in LoopNames |->
     IF Position(other) < Position(loop) THEN Len(c[other])
     ELSE IF other = loop THEN i - 1 ELSE 0]
Place(c, loop, i) == 40 + HandledSize(c, DoneBefore(c, loop, i))

LEMMA Positions ==
  /\ \A loop \in LoopNames : Position(loop) \in 1 .. 4
  /\ \A loop, other \in LoopNames :
       Position(loop) = Position(other) => loop = other
<1>1. /\ Position("operations") = 1 /\ Position("assertions") = 2
      /\ Position("generators") = 3 /\ Position("output_ops") = 4
  BY DEF Position
<1> QED BY <1>1, FourLoops

LEMMA DoneIsDoneBefore ==
  ASSUME NEW c \in FCircuit, NEW done, InOrder(c, done),
         NEW loop \in LoopNames, NextIn(c, done, loop)
  PROVE  /\ done = DoneBefore(c, loop, done[loop] + 1)
         /\ InOrder(c, [done EXCEPT ![loop] = @ + 1])
<1>1. done \in [LoopNames -> Nat]
      /\ \A other \in LoopNames : done[other] \in Nat /\ Len(c[other]) \in Nat
  BY PartsOfCircuit DEF InOrder
<1>2. ASSUME NEW other \in LoopNames
      PROVE  done[other] = IF Position(other) < Position(loop) THEN Len(c[other])
                           ELSE IF other = loop THEN done[loop] + 1 - 1 ELSE 0
  <2>1. Position(other) \in 1 .. 4 /\ Position(loop) \in 1 .. 4
        /\ (Position(loop) = Position(other) => loop = other)
    BY Positions
  <2>2. CASE Position(other) < Position(loop)
    BY <2>2 DEF NextIn
  <2>3. CASE other = loop
    BY <1>1, <2>1, <2>3
  <2>4. CASE Position(loop) < Position(other)
    <3>1. done[loop] # Len(c[loop])
      BY <1>1 DEF NextIn
    <3>2. ~(done[other] > 0)
      BY <2>4, <3>1 DEF InOrder
    <3>3. done[other] = 0
      BY <1>1, <3>2
    <3> QED BY <2>1, <2>4, <3>3
  <2> QED BY <2>1, <2>2, <2>3, <2>4
<1>3. done = DoneBefore(c, loop, done[loop] + 1)
  BY <1>1, <1>2 DEF DoneBefore
<1>4. PICK after : after = [done EXCEPT ![loop] = @ + 1]
  OBVIOUS
<1>5. after \in [LoopNames -> Nat]
      /\ \A other \in LoopNames :
           after[other] = IF other = loop THEN done[loop] + 1 ELSE done[other]
  BY <1>1, <1>4
<1>6. ASSUME NEW other \in LoopNames
      PROVE  after[other] <= Len(c[other])
  <2>1. done[other] <= Len(c[other])
    BY DEF InOrder
  <2>2. done[loop] + 1 <= Len(c[loop])
    BY <1>1 DEF NextIn
  <2> QED BY <1>5, <2>1, <2>2
<1>7. ASSUME NEW other \in LoopNames, NEW later \in LoopNames,
             Position(other) < Position(later), after[later] > 0
      PROVE  after[other] = Len(c[other])
  <2>1. Position(other) \in 1 .. 4 /\ Position(loop) \in 1 .. 4
        /\ Position(later) \in 1 .. 4
    BY Positions
  <2>2. CASE later = loop
    <3>1. other # loop /\ done[other] = Len(c[other])
      BY <1>7, <2>1, <2>2 DEF NextIn
    <3> QED BY <1>5, <3>1
  <2>3. CASE later # loop
    <3>1. done[later] > 0
      BY <1>5, <1>7, <2>3
    <3>2. done[other] = Len(c[other])
      BY <1>7, <3>1 DEF InOrder
    <3>3. other # loop
      BY <1>1, <3>2 DEF NextIn
    <3> QED BY <1>5, <3>2, <3>3
  <2> QED BY <2>2, <2>3
<1>8. InOrder(c, after)
  BY <1>5, <1>6, <1>7 DEF InOrder
<1> QED BY <1>3, <1>4, <1>8

\* HandledSize, a part more and all of them.
LEMMA HandledSizes ==
  ASSUME NEW c \in FCircuit, NEW done, done \in [LoopNames -> Nat],
         \A loop \in LoopNames : done[loop] <= Len(c[loop])
  PROVE  /\ HandledSize(c, done) \in Nat
         /\ size_bytes(c) = 40 + HandledSize(c, Everything(c))
         /\ HandledSize(c, done) <= HandledSize(c, Everything(c))
         /\ HandledSize(c, Everything(c)) \in Nat
         /\ HandledSize(c, Nothing) = 0
         /\ \A loop \in LoopNames :
              done[loop] < Len(c[loop]) =>
                HandledSize(c, [done EXCEPT ![loop] = @ + 1])
                  = HandledSize(c, done) + PartSize(loop, c[loop][done[loop] + 1])
<1> DEFINE total(loop) == Total(Sizes(c)[loop])
<1>1. ASSUME NEW loop \in LoopNames
      PROVE  LET n == Len(c[loop]) IN
             /\ n \in Nat
             /\ total(loop) \in [0 .. n -> Nat] /\ total(loop)[0] = 0
             /\ \A k \in 1 .. n :
                  total(loop)[k] = total(loop)[k - 1] + PartSize(loop, c[loop][k])
             /\ \A k \in 0 .. n : total(loop)[k] <= total(loop)[n]
  <2>1. PICK n \in Nat : n = Len(c[loop])
    BY PartsOfCircuit
  <2> DEFINE sizes == Sizes(c)[loop]
  <2>2. sizes \in [1 .. n -> Nat]
        /\ \A k \in 1 .. n : sizes[k] = PartSize(loop, c[loop][k])
    BY <2>1, SizesOfCircuit
  <2>3. /\ Total(sizes) \in [0 .. n -> Nat] /\ Total(sizes)[0] = 0
        /\ \A k \in 1 .. n : Total(sizes)[k] = Total(sizes)[k - 1] + sizes[k]
    BY <2>2, TotalOfSizes
  <2>4. ASSUME NEW k \in 0 .. n
        PROVE  Total(sizes)[k] <= Total(sizes)[n]
    <3>1. n \in k .. n
      OBVIOUS
    <3> QED BY <2>2, <3>1, TotalGrows
  <2> QED BY <2>1, <2>2, <2>3, <2>4
<1>2. \A d : HandledSize(c, d) =
        total("operations")[d["operations"]] + total("assertions")[d["assertions"]]
          + total("generators")[d["generators"]] + total("output_ops")[d["output_ops"]]
  BY DEF HandledSize
<1> HIDE DEF total
<1>3. ASSUME NEW loop \in LoopNames
      PROVE  /\ total(loop)[done[loop]] \in Nat
             /\ total(loop)[Len(c[loop])] \in Nat
             /\ total(loop)[done[loop]] <= total(loop)[Len(c[loop])]
             /\ total(loop)[0] = 0
  <2>1. PICK n, d \in Nat : n = Len(c[loop]) /\ d = done[loop]
    BY <1>1
  <2>2. d \in 0 .. n /\ n \in 0 .. n
    BY <2>1
  <2> QED BY <1>1, <2>1, <2>2
<1>4. ASSUME NEW loop \in LoopNames, done[loop] < Len(c[loop])
      PROVE  /\ total(loop)[done[loop] + 1]
                  = total(loop)[done[loop]] + PartSize(loop, c[loop][done[loop] + 1])
             /\ PartSize(loop, c[loop][done[loop] + 1]) \in Nat
  <2>1. PICK n, d \in Nat : n = Len(c[loop]) /\ d = done[loop]
    BY <1>1
  <2>2. d + 1 \in 1 .. n /\ (d + 1) - 1 = d
    BY <1>4, <2>1
  <2>3. total(loop)[d + 1] = total(loop)[(d + 1) - 1] + PartSize(loop, c[loop][d + 1])
    BY <1>1, <2>1, <2>2
  <2>4. c[loop][d + 1] \in PartType(loop) /\ 0 \in Nat
    BY <2>1, <2>2, PartsOfCircuit
  <2>5. PartSize(loop, c[loop][d + 1]) \in Nat
    BY <2>4, BytesOfPart
  <2> QED BY <2>1, <2>2, <2>3, <2>5
<1>12. /\ "operations" \in LoopNames /\ "assertions" \in LoopNames
       /\ "generators" \in LoopNames /\ "output_ops" \in LoopNames
  BY FourLoops
<1>5. PICK o, a, g, u, oo, aa, gg, uu \in Nat :
        /\ o = total("operations")[done["operations"]]
        /\ a = total("assertions")[done["assertions"]]
        /\ g = total("generators")[done["generators"]]
        /\ u = total("output_ops")[done["output_ops"]]
        /\ oo = total("operations")[Len(c["operations"])]
        /\ aa = total("assertions")[Len(c["assertions"])]
        /\ gg = total("generators")[Len(c["generators"])]
        /\ uu = total("output_ops")[Len(c["output_ops"])]
        /\ o <= oo /\ a <= aa /\ g <= gg /\ u <= uu
  <2>1. PICK o, oo \in Nat :
          /\ o = total("operations")[done["operations"]]
          /\ oo = total("operations")[Len(c["operations"])] /\ o <= oo
    BY <1>3, <1>12
  <2>2. PICK a, aa \in Nat :
          /\ a = total("assertions")[done["assertions"]]
          /\ aa = total("assertions")[Len(c["assertions"])] /\ a <= aa
    BY <1>3, <1>12
  <2>3. PICK g, gg \in Nat :
          /\ g = total("generators")[done["generators"]]
          /\ gg = total("generators")[Len(c["generators"])] /\ g <= gg
    BY <1>3, <1>12
  <2>4. PICK u, uu \in Nat :
          /\ u = total("output_ops")[done["output_ops"]]
          /\ uu = total("output_ops")[Len(c["output_ops"])] /\ u <= uu
    BY <1>3, <1>12
  <2> QED BY <2>1, <2>2, <2>3, <2>4
<1>6. HandledSize(c, done) = o + a + g + u
  BY <1>2, <1>5
<1>7. HandledSize(c, Everything(c)) = oo + aa + gg + uu
  <2>1. /\ Everything(c)["operations"] = Len(c["operations"])
        /\ Everything(c)["assertions"] = Len(c["assertions"])
        /\ Everything(c)["generators"] = Len(c["generators"])
        /\ Everything(c)["output_ops"] = Len(c["output_ops"])
    BY FourLoops DEF Everything
  <2> QED BY <1>2, <1>5, <2>1
<1>8. size_bytes(c) = 40 + HandledSize(c, Everything(c))
  <2>1. size_bytes(c) = 40 + total("operations")[Len(c["operations"])]
          + total("generators")[Len(c["generators"])]
          + total("assertions")[Len(c["assertions"])]
          + total("output_ops")[Len(c["output_ops"])]
    BY DEF size_bytes, sizeof_FCircuitSerializedHeader, total
  <2>2. size_bytes(c) = 40 + oo + gg + aa + uu
    BY <1>5, <2>1
  <2> QED BY <1>7, <2>2
<1>9. HandledSize(c, Nothing) = 0
  <2>1. /\ Nothing["operations"] = 0 /\ Nothing["assertions"] = 0
        /\ Nothing["generators"] = 0 /\ Nothing["output_ops"] = 0
    BY FourLoops DEF Nothing
  <2>2. /\ total("operations")[0] = 0 /\ total("assertions")[0] = 0
        /\ total("generators")[0] = 0 /\ total("output_ops")[0] = 0
    BY <1>3, FourLoops
  <2> QED BY <1>2, <2>1, <2>2
<1>10. ASSUME NEW loop \in LoopNames, done[loop] < Len(c[loop])
       PROVE  HandledSize(c, [done EXCEPT ![loop] = @ + 1])
                = HandledSize(c, done) + PartSize(loop, c[loop][done[loop] + 1])
  <2>1. PICK after : after = [done EXCEPT ![loop] = @ + 1]
    OBVIOUS
  <2>2. \A other \in LoopNames :
          after[other] = IF other = loop THEN done[loop] + 1 ELSE done[other]
    BY <2>1
  <2>3. PICK s \in Nat : s = PartSize(loop, c[loop][done[loop] + 1])
    BY <1>4, <1>10
  <2>4. total(loop)[after[loop]] = total(loop)[done[loop]] + s
    BY <1>4, <1>10, <2>2, <2>3
  <2>5. \A other \in LoopNames \ {loop} : total(other)[after[other]] = total(other)[done[other]]
    BY <2>2
  <2>6. CASE loop = "operations"
    <3>1. HandledSize(c, after) = (o + s) + a + g + u
      BY <1>2, <1>5, <2>4, <2>5, <2>6, FourLoops
    <3> QED BY <1>6, <2>1, <2>3, <3>1
  <2>7. CASE loop = "assertions"
    <3>1. HandledSize(c, after) = o + (a + s) + g + u
      BY <1>2, <1>5, <2>4, <2>5, <2>7, FourLoops
    <3> QED BY <1>6, <2>1, <2>3, <3>1
  <2>8. CASE loop = "generators"
    <3>1. HandledSize(c, after) = o + a + (g + s) + u
      BY <1>2, <1>5, <2>4, <2>5, <2>8, FourLoops
    <3> QED BY <1>6, <2>1, <2>3, <3>1
  <2>9. CASE loop = "output_ops"
    <3>1. HandledSize(c, after) = o + a + g + (u + s)
      BY <1>2, <1>5, <2>4, <2>5, <2>9, FourLoops
    <3> QED BY <1>6, <2>1, <2>3, <3>1
  <2> QED BY <2>6, <2>7, <2>8, <2>9, FourLoops
<1>11. /\ HandledSize(c, done) \in Nat
       /\ HandledSize(c, done) <= HandledSize(c, Everything(c))
       /\ HandledSize(c, Everything(c)) \in Nat
  <2>1. PICK x, y : x = HandledSize(c, done) /\ y = HandledSize(c, Everything(c))
    OBVIOUS
  <2>2. x = o + a + g + u /\ y = oo + aa + gg + uu
    BY <1>6, <1>7, <2>1
  <2>3. o <= oo /\ a <= aa /\ g <= gg /\ u <= uu
    BY <1>5
  <2>4. x \in Nat /\ y \in Nat /\ x <= y
    BY <2>2, <2>3
  <2> QED BY <2>1, <2>4
<1> QED BY <1>8, <1>9, <1>10, <1>11

-----------------------------------------------------------------------------
(* The image in the buffer                                                 *)

\* The bytes below ptr that nothing wrote, and how many of them are expected.
Gaps(memory, ptr) == {a \in 0 .. ptr - 1 : memory[a] = Unwritten}
GapCount(done) == 4 + 2 * done["operations"] + 4 * done["assertions"]

\* The memory holds the header of c and the parts handled so far, in front of
\* ptr, and nothing behind it.
Holds(memory, c, done, ptr) ==
  /\ DOMAIN memory = 0 .. size_bytes(c) - 1
  /\ BytesAt(memory, 0, circuit_header(c))
  /\ \A loop \in LoopNames : \A i \in 1 .. done[loop] :
       /\ Place(c, loop, i) \in Nat
       /\ Place(c, loop, i) + PartSize(loop, c[loop][i]) <= ptr
       /\ BytesAt(memory, Place(c, loop, i), PartBytes(loop, c[loop][i]))
  /\ \A a \in ptr .. size_bytes(c) - 1 : memory[a] = Unwritten
  /\ IsFiniteSet(Gaps(memory, ptr))
  /\ Cardinality(Gaps(memory, ptr)) = GapCount(done)

\* Bytes stored behind others leave those.
LEMMA StoredBehind ==
  ASSUME NEW memory, DOMAIN memory \subseteq Nat, NEW ptr \in Nat,
         NEW bytes \in Seq(0 .. BYTE), NEW at \in Nat, NEW old \in Seq(0 .. BYTE),
         at + Len(old) <= ptr, BytesAt(memory, at, old)
  PROVE  BytesAt(Stored(memory, ptr, bytes), at, old)
<1>1. Len(bytes) \in Nat /\ Len(old) \in Nat
  BY LenProperties
<1>2. PICK n, m \in Nat : n = Len(bytes) /\ m = Len(old)
  BY <1>1
<1>3. PICK after : after = Stored(memory, ptr, bytes)
  OBVIOUS
<1>4. /\ DOMAIN memory \subseteq DOMAIN after
      /\ \A a \in DOMAIN memory : a \notin ptr .. ptr + n - 1 => after[a] = memory[a]
  <2>1. OnlyStores(memory, ptr, bytes, n, after)
    BY <1>2, <1>3, StoredBytes, Zenon
  <2> QED BY <2>1 DEF OnlyStores
<1>5. SUFFICES ASSUME NEW k \in 1 .. m, old[k] # Unwritten
               PROVE  at + k - 1 \in DOMAIN after /\ after[at + k - 1] = old[k]
  BY <1>2, <1>3 DEF BytesAt
<1>6. at + k - 1 \in DOMAIN memory /\ memory[at + k - 1] = old[k]
  BY <1>2, <1>5 DEF BytesAt
<1>7. at + k - 1 \notin ptr .. ptr + n - 1
  BY <1>2
<1> QED BY <1>4, <1>6, <1>7

\* Bytes stored at ptr leave as many gaps more as they have holes.
MoreGaps(memory, ptr, after, end, n) ==
  /\ IsFiniteSet(Gaps(after, end))
  /\ Cardinality(Gaps(after, end)) = Cardinality(Gaps(memory, ptr)) + n

LEMMA GapsOfStored ==
  ASSUME NEW memory, DOMAIN memory \subseteq Nat, NEW ptr \in Nat, NEW len \in Nat,
         ptr .. ptr + len - 1 \subseteq DOMAIN memory,
         0 .. ptr - 1 \subseteq DOMAIN memory,
         \A a \in ptr .. ptr + len - 1 : memory[a] = Unwritten,
         NEW first \in Nat, first >= 1, NEW n \in Nat, NEW bytes,
         Shaped(bytes, len, first .. first + n - 1),
         IsFiniteSet(Gaps(memory, ptr))
  PROVE  MoreGaps(memory, ptr, Stored(memory, ptr, bytes), ptr + len, n)
<1>1. PICK after : after = Stored(memory, ptr, bytes)
  OBVIOUS
<1>2. /\ bytes \in Seq(0 .. BYTE) /\ Len(bytes) = len
      /\ first .. first + n - 1 \subseteq 1 .. len
      /\ \A k \in 1 .. len : bytes[k] = Unwritten <=> k \in first .. first + n - 1
  BY DEF Shaped
<1>3. /\ \A a \in DOMAIN memory : a \notin ptr .. ptr + len - 1 => after[a] = memory[a]
      /\ \A a \in ptr .. ptr + len - 1 : after[a] = bytes[a - ptr + 1]
  <2>1. OnlyStores(memory, ptr, bytes, len, after)
    BY <1>1, <1>2, StoredBytes, Zenon
  <2>2. ASSUME NEW a \in ptr .. ptr + len - 1
        PROVE  after[a] = bytes[a - ptr + 1]
    <3>1. a \in DOMAIN memory /\ memory[a] = Unwritten
      OBVIOUS
    <3> QED BY <2>1, <3>1 DEF OnlyStores
  <2> QED BY <2>1, <2>2 DEF OnlyStores
<1>4. PICK old, new, more :
        /\ old = Gaps(memory, ptr) /\ new = Gaps(after, ptr + len)
        /\ more = ptr + first - 1 .. ptr + first + n - 2
  OBVIOUS
<1>5. ASSUME NEW a
      PROVE  a \in new <=> a \in old \/ a \in more
  <2>1. CASE a \in 0 .. ptr - 1
    <3>1. after[a] = memory[a]
      BY <1>3, <2>1
    <3>2. a \in 0 .. ptr + len - 1 /\ a \notin more
      BY <1>4, <2>1
    <3> QED BY <1>4, <2>1, <3>1, <3>2 DEF Gaps
  <2>2. CASE a \in ptr .. ptr + len - 1
    <3>1. a - ptr + 1 \in 1 .. len /\ after[a] = bytes[a - ptr + 1]
      BY <1>3, <2>2
    <3>2. a - ptr + 1 \in first .. first + n - 1 <=> a \in more
      BY <1>4, <2>2
    <3>3. a \notin 0 .. ptr - 1 /\ a \in 0 .. ptr + len - 1
      BY <2>2
    <3>4. after[a] = Unwritten <=> a \in more
      BY <1>2, <3>1, <3>2
    <3> QED BY <1>4, <3>3, <3>4 DEF Gaps
  <2>3. CASE a \notin 0 .. ptr - 1 /\ a \notin ptr .. ptr + len - 1
    <3>1. a \notin 0 .. ptr + len - 1
      BY <2>3
    <3>2. a \notin more
      <4>1. ASSUME a \in more
            PROVE  FALSE
        <5>1. a - ptr + 1 \in first .. first + n - 1 /\ a \in Int
          BY <1>4, <4>1
        <5>2. a - ptr + 1 \in 1 .. len
          BY <1>2, <5>1
        <5> QED BY <2>3, <5>1, <5>2
      <4> QED BY <4>1
    <3> QED BY <1>4, <2>3, <3>1, <3>2 DEF Gaps
  <2> QED BY <2>1, <2>2, <2>3
<1>6. new = old \cup more /\ old \cap more = {}
  <2>1. ASSUME NEW a \in old
        PROVE  a \notin more
    <3>1. a \in 0 .. ptr - 1
      BY <1>4 DEF Gaps
    <3> QED BY <1>4, <3>1
  <2> QED BY <1>5, <2>1
<1>7. IsFiniteSet(more) /\ Cardinality(more) = n
  <2>1. PICK x, y \in Int : x = ptr + first - 1 /\ y = ptr + first + n - 2
    OBVIOUS
  <2>2. IsFiniteSet(x .. y) /\ Cardinality(x .. y) = IF x > y THEN 0 ELSE y - x + 1
    BY FS_Interval
  <2>3. (IF x > y THEN 0 ELSE y - x + 1) = n
    BY <2>1
  <2> QED BY <1>4, <2>1, <2>2, <2>3
<1>8. IsFiniteSet(old)
  BY <1>4
<1>9. IsFiniteSet(new)
      /\ Cardinality(new) = Cardinality(old) + Cardinality(more)
                              - Cardinality(old \cap more)
  BY <1>6, <1>7, <1>8, FS_Union
<1>10. Cardinality(old \cap more) = 0 /\ Cardinality(old) \in Nat
  BY <1>6, <1>8, FS_EmptySet, FS_CardinalityType
<1>11. Cardinality(new) = Cardinality(old) + n
  BY <1>7, <1>9, <1>10
<1> QED BY <1>1, <1>4, <1>9, <1>11 DEF MoreGaps

\* A new buffer into which the header is written.
LEMMA HeaderHolds ==
  ASSUME NEW c \in FCircuit
  PROVE  Holds(Stored([a \in 0 .. size_bytes(c) - 1 |-> Unwritten], 0,
                      circuit_header(c)),
               c, Nothing, 40)
<1>1. Nothing \in [LoopNames -> Nat] /\ \A loop \in LoopNames : Nothing[loop] <= Len(c[loop])
  BY PartsOfCircuit DEF Nothing
<1>2. PICK size \in Nat : size = size_bytes(c) /\ size >= 40
  <2>1. size_bytes(c) = 40 + HandledSize(c, Everything(c))
        /\ HandledSize(c, Everything(c)) \in Nat
    BY <1>1, HandledSizes
  <2> QED BY <2>1
<1>3. PICK at, len \in Nat : at = 0 /\ len = 40
  OBVIOUS
<1>4. PICK memory, bytes, after :
        /\ memory = [a \in 0 .. size - 1 |-> Unwritten] /\ bytes = circuit_header(c)
        /\ after = Stored(memory, at, bytes)
  OBVIOUS
<1>5. Shaped(bytes, len, 37 .. 37 + 4 - 1)
  BY <1>3, <1>4, HeaderBytes
<1>6. bytes \in Seq(0 .. BYTE) /\ Len(bytes) = len
  BY <1>5 DEF Shaped
<1>7. /\ DOMAIN memory = 0 .. size - 1 /\ DOMAIN memory \subseteq Nat
      /\ \A a \in 0 .. size - 1 : memory[a] = Unwritten
  BY <1>4
<1>8. /\ DOMAIN after = DOMAIN memory \cup at .. at + len - 1
      /\ BytesAt(after, at, bytes)
      /\ \A a \in DOMAIN memory : a \notin at .. at + len - 1 => after[a] = memory[a]
  <2>1. OnlyStores(memory, at, bytes, len, after)
    BY <1>4, <1>6, <1>7, StoredBytes, Zenon
  <2> QED BY <2>1 DEF OnlyStores
<1>9. DOMAIN after = 0 .. size - 1
  <2>1. at .. at + len - 1 \subseteq 0 .. size - 1
    BY <1>2, <1>3
  <2> QED BY <1>7, <1>8, <2>1
<1>10. ASSUME NEW a \in 40 .. size - 1
       PROVE  after[a] = Unwritten
  <2>1. a \in 0 .. size - 1 /\ a \notin at .. at + len - 1
    BY <1>3
  <2> QED BY <1>7, <1>8, <2>1
<1>11. Gaps(memory, at) = {}
  BY <1>3 DEF Gaps
<1>12. /\ IsFiniteSet(Gaps(after, at + len))
       /\ Cardinality(Gaps(after, at + len)) = Cardinality(Gaps(memory, at)) + 4
  <2>1. /\ at .. at + len - 1 \subseteq 0 .. size - 1
        /\ 0 .. at - 1 \subseteq 0 .. size - 1
    BY <1>2, <1>3
  <2>2. /\ at .. at + len - 1 \subseteq DOMAIN memory
        /\ 0 .. at - 1 \subseteq DOMAIN memory
        /\ \A a \in at .. at + len - 1 : memory[a] = Unwritten
    BY <1>7, <2>1
  <2>3. IsFiniteSet(Gaps(memory, at))
    BY <1>11, FS_EmptySet
  <2>4. PICK first, n \in Nat : first = 37 /\ n = 4 /\ first >= 1
    OBVIOUS
  <2>5. Shaped(bytes, len, first .. first + n - 1)
    BY <1>5, <2>4
  <2>6. /\ IsFiniteSet(Gaps(after, at + len))
        /\ Cardinality(Gaps(after, at + len)) = Cardinality(Gaps(memory, at)) + n
    <3>1. MoreGaps(memory, at, after, at + len, n)
      BY <1>4, <1>7, <2>2, <2>3, <2>4, <2>5, GapsOfStored, Zenon
    <3> QED BY <3>1 DEF MoreGaps
  <2> QED BY <2>4, <2>6
<1>13. IsFiniteSet(Gaps(after, 40)) /\ Cardinality(Gaps(after, 40)) = 4
  <2>1. at + len = 40 /\ Cardinality(Gaps(memory, at)) = 0
    BY <1>3, <1>11, FS_EmptySet
  <2> QED BY <1>12, <2>1
<1>14. GapCount(Nothing) = 4
  BY FourLoops DEF GapCount, Nothing
<1>15. \A loop \in LoopNames : 1 .. Nothing[loop] = {}
  BY DEF Nothing
<1>16. Holds(after, c, Nothing, 40)
  BY <1>2, <1>3, <1>4, <1>8, <1>9, <1>10, <1>13, <1>14, <1>15 DEF Holds
<1> QED BY <1>2, <1>3, <1>4, <1>16

\* The next part is written where ptr stands.
NextIsHeld(memory, c, done, loop, ptr, part) ==
  /\ ptr + PartSize(loop, part) = 40 + HandledSize(c, [done EXCEPT ![loop] = @ + 1])
  /\ Holds(Stored(memory, ptr, PartBytes(loop, part)), c,
           [done EXCEPT ![loop] = @ + 1], ptr + PartSize(loop, part))

LEMMA PartHolds ==
  ASSUME NEW c \in FCircuit, NEW done, InOrder(c, done), NEW loop \in LoopNames,
         NextIn(c, done, loop), NEW ptr, ptr = 40 + HandledSize(c, done),
         NEW memory, Holds(memory, c, done, ptr),
         NEW part, part = c[loop][done[loop] + 1]
  PROVE  NextIsHeld(memory, c, done, loop, ptr, part)
<1>1. /\ done \in [LoopNames -> Nat]
      /\ \A other \in LoopNames : done[other] <= Len(c[other])
  BY DEF InOrder
<1>2. PICK i \in Nat : i = done[loop] + 1
  BY <1>1
<1>3. PICK next : next = [done EXCEPT ![loop] = @ + 1]
  OBVIOUS
<1>4. /\ next \in [LoopNames -> Nat] /\ next[loop] = i /\ done[loop] = i - 1
      /\ \A other \in LoopNames : other # loop => next[other] = done[other]
  BY <1>1, <1>2, <1>3
<1>5. InOrder(c, next) /\ done = DoneBefore(c, loop, i)
  BY <1>2, <1>3, DoneIsDoneBefore
<1>6. \A other \in LoopNames : next[other] <= Len(c[other])
  BY <1>5 DEF InOrder
<1>7. part \in PartType(loop)
  <2>1. Len(c[loop]) \in Nat
    BY PartsOfCircuit
  <2>2. i <= Len(c[loop]) /\ i >= 1
    BY <1>1, <1>2, <1>4, <1>6
  <2>3. i \in 1 .. Len(c[loop])
    BY <2>1, <2>2
  <2> QED BY <1>2, <2>3, PartsOfCircuit
<1>8. PICK here \in Nat : here = ptr /\ here >= 40
  <2>1. HandledSize(c, done) \in Nat
    BY <1>1, HandledSizes
  <2> QED BY <2>1
<1>9. PICK len \in Nat : len = PartSize(loop, part)
  BY <1>7, <1>8, BytesOfPart
<1>10. PICK bytes, after : /\ bytes = PartBytes(loop, part)
                           /\ after = Stored(memory, here, bytes)
  OBVIOUS
<1>11. PICK first, holes \in Nat :
         /\ first >= 1 /\ holes = HoleCount(loop)
         /\ Shaped(bytes, len, first .. first + holes - 1)
  <2>1. Shaped(bytes, len, FirstHole(loop) .. FirstHole(loop) + HoleCount(loop) - 1)
    BY <1>7, <1>8, <1>9, <1>10, BytesOfPart
  <2>2. FirstHole(loop) \in Nat /\ FirstHole(loop) >= 1
    BY DEF FirstHole
  <2>3. HoleCount(loop) \in Nat
    BY FourLoops DEF HoleCount
  <2> QED BY <2>1, <2>2, <2>3
<1>12. bytes \in Seq(0 .. BYTE) /\ Len(bytes) = len
  BY <1>11 DEF Shaped
<1>13. HandledSize(c, next) = HandledSize(c, done) + len
  <2>1. done[loop] < Len(c[loop])
    BY DEF NextIn
  <2> QED BY <1>1, <1>3, <1>9, <2>1, HandledSizes
<1>14. PICK size \in Nat : size = size_bytes(c) /\ here + len <= size
  <2>1. PICK x, y, z : /\ x = HandledSize(c, done) /\ y = HandledSize(c, next)
                       /\ z = HandledSize(c, Everything(c))
    OBVIOUS
  <2>2. y \in Nat /\ y <= z /\ z \in Nat /\ size_bytes(c) = 40 + z
    BY <1>4, <1>6, <2>1, HandledSizes
  <2>3. y = x + len /\ here = 40 + x /\ x \in Nat
    BY <1>1, <1>8, <1>13, <2>1, HandledSizes
  <2>4. here + len <= 40 + z
    BY <2>2, <2>3
  <2> QED BY <2>2, <2>4
<1>15. /\ DOMAIN memory = 0 .. size - 1 /\ DOMAIN memory \subseteq Nat
       /\ \A a \in here .. size - 1 : memory[a] = Unwritten
       /\ IsFiniteSet(Gaps(memory, here))
       /\ Cardinality(Gaps(memory, here)) = GapCount(done)
  BY <1>8, <1>14 DEF Holds
<1>16. OnlyStores(memory, here, bytes, len, after)
  BY <1>10, <1>12, <1>15, StoredBytes, Zenon
<1>17. here .. here + len - 1 \subseteq 0 .. size - 1
       /\ here .. here + len - 1 \subseteq here .. size - 1
       /\ 0 .. here - 1 \subseteq 0 .. size - 1
  BY <1>14
<1>18. DOMAIN after = 0 .. size - 1
  BY <1>15, <1>16, <1>17 DEF OnlyStores
<1>19. ASSUME NEW at \in Nat, NEW old \in Seq(0 .. BYTE), at + Len(old) <= here,
              BytesAt(memory, at, old)
       PROVE  BytesAt(after, at, old)
  BY <1>10, <1>12, <1>15, <1>19, StoredBehind, Zenon
<1>20. BytesAt(after, 0, circuit_header(c))
  <2>1. circuit_header(c) \in Seq(0 .. BYTE) /\ Len(circuit_header(c)) = 40
    BY HeaderBytes DEF Shaped
  <2>2. BytesAt(memory, 0, circuit_header(c))
    BY DEF Holds
  <2>3. 0 \in Nat /\ 0 + Len(circuit_header(c)) <= here
    BY <1>8, <2>1
  <2> QED BY <1>19, <2>1, <2>2, <2>3
<1>21. ASSUME NEW other \in LoopNames, NEW k \in 1 .. next[other]
       PROVE  /\ Place(c, other, k) \in Nat
              /\ Place(c, other, k) + PartSize(other, c[other][k]) <= here + len
              /\ BytesAt(after, Place(c, other, k), PartBytes(other, c[other][k]))
  <2>1. CASE other = loop /\ k = i
    <3>1. Place(c, other, k) = here
      BY <1>5, <1>8, <2>1 DEF Place
    <3>2. c[other][k] = part
      BY <1>2, <2>1
    <3>3. BytesAt(after, here, bytes)
      BY <1>16 DEF OnlyStores
    <3> QED BY <1>9, <1>10, <2>1, <3>1, <3>2, <3>3
  <2>2. CASE ~(other = loop /\ k = i)
    <3>1. k \in 1 .. done[other]
      BY <1>1, <1>2, <1>4, <2>2
    <3>2. PICK place, old : place = Place(c, other, k) /\ old = PartBytes(other, c[other][k])
      OBVIOUS
    <3>3. /\ place \in Nat /\ place + PartSize(other, c[other][k]) <= here
          /\ BytesAt(memory, place, old)
      BY <1>8, <3>1, <3>2 DEF Holds
    <3>4. c[other][k] \in PartType(other)
      <4>1. k \in 1 .. Len(c[other])
        BY <1>4, <1>6, PartsOfCircuit
      <4> QED BY <4>1, PartsOfCircuit
    <3>5. PICK s \in Nat : s = PartSize(other, c[other][k])
      BY <3>3, <3>4, BytesOfPart
    <3>6. old \in Seq(0 .. BYTE) /\ Len(old) = s
      BY <3>2, <3>3, <3>4, <3>5, BytesOfPart DEF Shaped
    <3>7. place + Len(old) <= here
      BY <3>3, <3>5, <3>6
    <3>8. BytesAt(after, place, old)
      BY <1>19, <3>3, <3>6, <3>7
    <3>9. place + s <= here + len
      BY <3>3, <3>5
    <3> QED BY <3>2, <3>3, <3>5, <3>8, <3>9
  <2> QED BY <2>1, <2>2
<1>22. ASSUME NEW a \in here + len .. size - 1
       PROVE  after[a] = Unwritten
  <2>1. a \in 0 .. size - 1 /\ a \in here .. size - 1 /\ a \notin here .. here + len - 1
    OBVIOUS
  <2> QED BY <1>15, <1>16, <2>1 DEF OnlyStores
<1>23. MoreGaps(memory, here, after, here + len, holes)
  <2>1. /\ here .. here + len - 1 \subseteq DOMAIN memory
        /\ 0 .. here - 1 \subseteq DOMAIN memory
        /\ \A a \in here .. here + len - 1 : memory[a] = Unwritten
    BY <1>15, <1>17
  <2> QED BY <1>10, <1>11, <1>15, <2>1, GapsOfStored, Zenon
<1>24. GapCount(next) = GapCount(done) + HoleCount(loop)
  <2>1. PICK o, a \in Nat : o = done["operations"] /\ a = done["assertions"]
    BY <1>1, FourLoops
  <2>2. GapCount(done) = 4 + 2 * o + 4 * a
    BY <2>1 DEF GapCount
  <2>3. CASE loop = "operations"
    <3>1. GapCount(next) = 4 + 2 * (o + 1) + 4 * a /\ HoleCount(loop) = 2
      BY <1>2, <1>4, <2>1, <2>3, FourLoops DEF GapCount, HoleCount
    <3> QED BY <2>2, <3>1
  <2>4. CASE loop = "assertions"
    <3>1. GapCount(next) = 4 + 2 * o + 4 * (a + 1) /\ HoleCount(loop) = 4
      BY <1>2, <1>4, <2>1, <2>4, FourLoops DEF GapCount, HoleCount
    <3> QED BY <2>2, <3>1
  <2>5. CASE loop \in {"generators", "output_ops"}
    <3>1. GapCount(next) = 4 + 2 * o + 4 * a /\ HoleCount(loop) = 0
      BY <1>4, <2>1, <2>5, FourLoops DEF GapCount, HoleCount
    <3> QED BY <2>2, <3>1
  <2> QED BY <2>3, <2>4, <2>5, FourLoops
<1>25. IsFiniteSet(Gaps(after, here + len))
       /\ Cardinality(Gaps(after, here + len)) = GapCount(next)
  BY <1>11, <1>15, <1>23, <1>24 DEF MoreGaps
<1>26. Holds(after, c, next, here + len)
  BY <1>14, <1>18, <1>20, <1>21, <1>22, <1>25 DEF Holds
<1>27. here + len = 40 + HandledSize(c, next)
  <2>1. HandledSize(c, done) \in Nat
    BY <1>1, HandledSizes
  <2> QED BY <1>8, <1>13, <2>1
<1> QED BY <1>3, <1>8, <1>9, <1>10, <1>26, <1>27 DEF NextIsHeld

-----------------------------------------------------------------------------
(* The invariant                                                           *)

Calls == [what : {"write", "read"}, object : Objects, ptr : Nat,
          done : [LoopNames -> Nat], before : FCircuit]

SerializationTypeOK ==
  /\ circuits \in [Objects -> FCircuit]
  /\ saved \subseteq FCircuit
  /\ \A c, d \in saved : c = d
  /\ call = NoCall \/ call \in Calls

\* A call that has come as far as `done` in c stands behind those parts.
Behind(c, done, ptr) ==
  /\ InOrder(c, done)
  /\ ptr = 40 + HandledSize(c, done)

\* What read has made of an object: the counts and lengths of c, and its parts as
\* far as `done` tells.
ReadSoFar(now, c, done) ==
  /\ now.input_target_count = c.input_target_count
  /\ now.generator_target_count = c.generator_target_count
  /\ \A loop \in LoopNames :
       /\ Len(now[loop]) = Len(c[loop])
       /\ \A i \in 1 .. done[loop] : now[loop][i] = c[loop][i]

\* write does not change the circuit it writes, and its image so far is there.
WritingInv ==
  call.what = "write" =>
    /\ circuits[call.object] = call.before
    /\ Behind(call.before, call.done, call.ptr)
    /\ Holds(buffer, call.before, call.done, call.ptr)

\* But for a running write, the buffer holds the whole image of what was written.
SavedInv ==
  call.what # "write" =>
    \A c \in saved : Holds(buffer, c, Everything(c), size_bytes(c))

ReadingInv ==
  call.what = "read" =>
    /\ saved # {}
    /\ \A c \in saved :
         /\ Behind(c, call.done, call.ptr)
         /\ ReadSoFar(circuits[call.object], c, call.done)
         /\ circuits[call.object].vector_operation_count
              = call.before.vector_operation_count

SerializationInv ==
  /\ SerializationTypeOK
  /\ WritingInv
  /\ SavedInv
  /\ ReadingInv

\* A new circuit, and what resize adds to a vector, are of their types.
LEMMA NewParts ==
  /\ NewCircuit \in FCircuit
  /\ NewOperation \in FOperation /\ NewAssertion \in FCircuitAssertion
  /\ NewGenerator \in FGenerator /\ 0 \in Words(8)
<1>1. ASSUME NEW n \in Nat
      PROVE  0 \in Words(n)
  <2>1. PICK rest : rest = Rest(n, 0)
    OBVIOUS
  <2>2. rest[0] = 0 /\ \A k \in 1 .. n : rest[k] = rest[k - 1] \div BYTE
    <3>1. PICK v \in Nat : v = 0
      OBVIOUS
    <3>2. /\ Rest(n, v)[0] = v
          /\ \A k \in 1 .. n : Rest(n, v)[k] = Rest(n, v)[k - 1] \div BYTE
      BY RestOfNumber, Zenon
    <3> QED BY <2>1, <3>1, <3>2
  <2> DEFINE T == {k \in 0 .. n : rest[k] = 0}
  <2>3. 0 \div BYTE = 0
    BY ByteAssumption
  <2>4. 0 \in T /\ T \in SUBSET (0 .. n)
    BY <2>2
  <2>5. ASSUME NEW k \in 1 .. n, k - 1 \in T
        PROVE  k \in T
    BY <2>2, <2>3, <2>5
  <2> HIDE DEF T
  <2>6. n \in T
    <3>1. T = 0 .. n
      BY <2>4, <2>5, UpTo
    <3> QED BY <3>1
  <2> QED BY <2>1, <2>6 DEF T, Words
<1>2. /\ 0 \in Words(2) /\ 0 \in Words(4) /\ 0 \in Words(8)
  BY <1>1
<1>3. ASSUME NEW S
      PROVE  <<>> \in VectorOf(S)
  BY <1>2 DEF VectorOf
<1>4. /\ NewOperation \in FOperation /\ NewAssertion \in FCircuitAssertion
      /\ NewGenerator \in FGenerator
  BY <1>2, <1>3 DEF NewOperation, NewAssertion, NewGenerator, FOperation,
       FCircuitAssertion, FGenerator
<1>5. NewCircuit \in FCircuit
  BY <1>2, <1>3 DEF NewCircuit, FCircuit
<1> QED BY <1>2, <1>4, <1>5

LEMMA ResizedVector ==
  ASSUME NEW S, NEW s \in VectorOf(S), NEW count \in Words(4), NEW element \in S
  PROVE  /\ Resize(s, count, element) \in VectorOf(S)
         /\ Len(Resize(s, count, element)) = count
<1>1. count \in Nat
  BY DEF Words
<1>2. PICK m \in Nat : m = Len(s)
  BY VectorIsSeq
<1>3. ASSUME NEW i \in 1 .. count
      PROVE  (IF i <= m THEN s[i] ELSE element) \in S
  <2>1. s \in Seq(S)
    BY VectorIsSeq
  <2>2. CASE i <= m
    <3>1. i \in 1 .. Len(s)
      BY <1>2, <2>2
    <3> QED BY <2>1, <2>2, <3>1, ElementOfSeq
  <2> QED BY <2>2
<1>4. Resize(s, count, element) \in [1 .. count -> S]
  BY <1>2, <1>3 DEF Resize
<1>5. Resize(s, count, element) \in Seq(S) /\ Len(Resize(s, count, element)) = count
  BY <1>1, <1>4, SequenceOfLength
<1> QED BY <1>5 DEF VectorOf

LEMMA ReplacedElement ==
  ASSUME NEW S, NEW s \in VectorOf(S), NEW k \in 1 .. Len(s), NEW element \in S
  PROVE  /\ [s EXCEPT ![k] = element] \in VectorOf(S)
         /\ Len([s EXCEPT ![k] = element]) = Len(s)
         /\ [s EXCEPT ![k] = element][k] = element
         /\ \A i \in 1 .. Len(s) : i # k => [s EXCEPT ![k] = element][i] = s[i]
<1>1. s \in Seq(S) /\ Len(s) \in Words(4)
  BY VectorIsSeq
<1>2. PICK t : t = [s EXCEPT ![k] = element]
  OBVIOUS
<1>3. /\ t \in Seq(S) /\ Len(t) = Len(s)
      /\ \A i \in 1 .. Len(s) : t[i] = IF i = k THEN element ELSE s[i]
  BY <1>1, <1>2, ExceptSeq
<1> QED BY <1>1, <1>2, <1>3 DEF VectorOf

-----------------------------------------------------------------------------
(* The steps of a call                                                     *)

\* The order of the loops in a call is that of their positions.
LEMMA LoopInTurn ==
  ASSUME NEW c, NEW loop \in LoopNames, NEW what, In(what, loop),
         \A other \in LoopNames : Len(circuits[call.object][other]) = Len(c[other]),
         InOrder(c, call.done), c \in FCircuit
  PROVE  NextIn(c, call.done, loop)
<1>1. PICK done : done = call.done
  OBVIOUS
<1>2. \A other \in LoopNames : PartsLeft(other) <=> done[other] < Len(c[other])
  BY <1>1 DEF PartsLeft
<1>3. \A other \in LoopNames :
        done[other] \in Nat /\ Len(c[other]) \in Nat /\ done[other] <= Len(c[other])
  BY <1>1, PartsOfCircuit DEF InOrder
<1>4. \A other \in LoopNames : ~PartsLeft(other) => done[other] = Len(c[other])
  BY <1>2, <1>3
<1>5. ASSUME NEW other \in LoopNames, Position(other) < Position(loop)
      PROVE  ~PartsLeft(other)
  <2>1. \A one \in LoopNames :
          Position(one) \in DOMAIN Loops /\ Loops[Position(one)] = one
    BY FourLoops DEF Position
  <2> QED BY <1>5, <2>1 DEF In
<1> QED BY <1>1, <1>2, <1>4, <1>5 DEF NextIn, In

LEMMA AllInTurn ==
  ASSUME NEW c \in FCircuit, NEW what, Finished(what), InOrder(c, call.done),
         \A other \in LoopNames : Len(circuits[call.object][other]) = Len(c[other])
  PROVE  call.done = Everything(c)
<1>1. PICK done : done = call.done
  OBVIOUS
<1>2. done \in [LoopNames -> Nat]
      /\ \A loop \in LoopNames :
           done[loop] \in Nat /\ Len(c[loop]) \in Nat /\ done[loop] <= Len(c[loop])
  BY <1>1, PartsOfCircuit DEF InOrder
<1>3. ASSUME NEW loop \in LoopNames
      PROVE  done[loop] = Len(c[loop])
  <2>1. ~(done[loop] < Len(c[loop]))
    BY <1>1 DEF Finished, PartsLeft
  <2> QED BY <1>2, <2>1
<1> QED BY <1>1, <1>2, <1>3 DEF Everything

\* One turn of any loop of write, and one of any loop of read.
WriteTurn(loop) ==
  LET part == circuits[call.object][loop][call.done[loop] + 1] IN
  /\ In("write", loop)
  /\ buffer' = Stored(buffer, call.ptr, PartBytes(loop, part))
  /\ Advance(loop, PartSize(loop, part))
  /\ UNCHANGED <<circuits, saved>>

ReadTurn(loop) ==
  /\ In("read", loop)
  /\ circuits' = [circuits EXCEPT ![call.object][loop][call.done[loop] + 1]
                    = PartAt(loop, call.ptr)]
  /\ Advance(loop, PartSize(loop, PartAt(loop, call.ptr)))
  /\ UNCHANGED <<buffer, saved>>

LEMMA WriteTurns ==
  ASSUME write_operation \/ write_assertion \/ write_generator \/ write_output
  PROVE  \E loop \in LoopNames : WriteTurn(loop)
<1>1. CASE write_operation
  <2>1. WriteTurn("operations")
    BY <1>1 DEF write_operation, WritePart, WriteTurn, PartBytes, PartSize
  <2> QED BY <2>1, FourLoops
<1>2. CASE write_assertion
  <2>1. WriteTurn("assertions")
    BY <1>2 DEF write_assertion, WritePart, WriteTurn, PartBytes, PartSize
  <2> QED BY <2>1, FourLoops
<1>3. CASE write_generator
  <2>1. WriteTurn("generators")
    BY <1>3 DEF write_generator, WritePart, WriteTurn, PartBytes, PartSize
  <2> QED BY <2>1, FourLoops
<1>4. CASE write_output
  <2>1. WriteTurn("output_ops")
    BY <1>4 DEF write_output, WritePart, WriteTurn, PartBytes, PartSize
  <2> QED BY <2>1, FourLoops
<1> QED BY <1>1, <1>2, <1>3, <1>4

LEMMA ReadTurns ==
  ASSUME read_operation \/ read_assertion \/ read_generator \/ read_output
  PROVE  \E loop \in LoopNames : ReadTurn(loop)
<1>1. CASE read_operation
  <2>1. ReadTurn("operations")
    BY <1>1 DEF read_operation, ReadPart, ReadTurn, PartAt, PartSize
  <2> QED BY <2>1, FourLoops
<1>2. CASE read_assertion
  <2>1. ReadTurn("assertions")
    BY <1>2 DEF read_assertion, ReadPart, ReadTurn, PartAt, PartSize
  <2> QED BY <2>1, FourLoops
<1>3. CASE read_generator
  <2>1. ReadTurn("generators")
    BY <1>3 DEF read_generator, ReadPart, ReadTurn, PartAt, PartSize
  <2> QED BY <2>1, FourLoops
<1>4. CASE read_output
  <2>1. ReadTurn("output_ops")
    BY <1>4 DEF read_output, ReadPart, ReadTurn, PartAt, PartSize
  <2> QED BY <2>1, FourLoops
<1> QED BY <1>1, <1>2, <1>3, <1>4

LEMMA WriteTurnInv ==
  ASSUME SerializationInv, NEW loop \in LoopNames, WriteTurn(loop)
  PROVE  SerializationInv'
<1>1. call.what = "write" /\ call \in Calls
  BY DEF WriteTurn, In, SerializationInv, SerializationTypeOK, NoCall
<1>2. PICK c, done, ptr : c = call.before /\ done = call.done /\ ptr = call.ptr
  OBVIOUS
<1>3. /\ c \in FCircuit /\ circuits[call.object] = c /\ InOrder(c, done)
      /\ ptr = 40 + HandledSize(c, done) /\ Holds(buffer, c, done, ptr)
  BY <1>1, <1>2 DEF SerializationInv, WritingInv, Behind, Calls
<1>4. NextIn(c, done, loop)
  BY <1>2, <1>3, LoopInTurn DEF WriteTurn
<1>5. PICK part : part = c[loop][done[loop] + 1]
  OBVIOUS
<1>6. PICK next, size : /\ next = [done EXCEPT ![loop] = @ + 1]
                        /\ size = PartSize(loop, part)
  OBVIOUS
<1>7. /\ buffer' = Stored(buffer, ptr, PartBytes(loop, part))
      /\ call' = [call EXCEPT !.ptr = ptr + size, !.done = next]
      /\ circuits' = circuits /\ saved' = saved
  BY <1>1, <1>2, <1>3, <1>5, <1>6 DEF WriteTurn, Advance, Calls
<1>8. ptr + size = 40 + HandledSize(c, next) /\ Holds(buffer', c, next, ptr + size)
  <2>1. PICK memory : memory = buffer
    OBVIOUS
  <2>2. NextIsHeld(memory, c, done, loop, ptr, part)
    BY <1>3, <1>4, <1>5, <2>1, PartHolds, Zenon
  <2> QED BY <1>6, <1>7, <2>1, <2>2 DEF NextIsHeld
<1>9. InOrder(c, next)
  BY <1>3, <1>4, <1>6, DoneIsDoneBefore
<1>10. /\ call'.what = "write" /\ call'.object = call.object /\ call'.before = c
       /\ call'.done = next /\ call'.ptr = ptr + size
  BY <1>1, <1>2, <1>7 DEF Calls
<1>11. call' \in Calls
  <2>1. next \in [LoopNames -> Nat]
    BY <1>9 DEF InOrder
  <2>2. ptr + size \in Nat
    <3>1. \A other \in LoopNames : next[other] <= Len(c[other])
      BY <1>9 DEF InOrder
    <3>2. HandledSize(c, next) \in Nat
      BY <1>3, <2>1, <3>1, HandledSizes
    <3> QED BY <1>8, <3>2
  <2> QED BY <1>1, <1>7, <2>1, <2>2 DEF Calls
<1>12. SerializationTypeOK'
  BY <1>7, <1>11 DEF SerializationInv, SerializationTypeOK
<1>13. WritingInv'
  BY <1>3, <1>7, <1>8, <1>9, <1>10 DEF WritingInv, Behind
<1>14. SavedInv' /\ ReadingInv'
  BY <1>10 DEF SavedInv, ReadingInv
<1> QED BY <1>12, <1>13, <1>14 DEF SerializationInv

\* A circuit in which a part was replaced.
Replaced(now, loop, i, part, after) ==
  /\ after \in FCircuit
  /\ after.input_target_count = now.input_target_count
  /\ after.generator_target_count = now.generator_target_count
  /\ after.vector_operation_count = now.vector_operation_count
  /\ \A other \in LoopNames :
       /\ Len(after[other]) = Len(now[other])
       /\ \A k \in 1 .. Len(now[other]) :
            after[other][k] = IF other = loop /\ k = i THEN part ELSE now[other][k]

LEMMA PartReplaced ==
  ASSUME NEW now \in FCircuit, NEW loop \in LoopNames,
         NEW i \in 1 .. Len(now[loop]), NEW part \in PartType(loop)
  PROVE  Replaced(now, loop, i, part, [now EXCEPT ![loop][i] = part])
<1>1. PICK after, vector : /\ vector = [now[loop] EXCEPT ![i] = part]
                           /\ after = [now EXCEPT ![loop] = vector]
  OBVIOUS
<1>2. after = [now EXCEPT ![loop][i] = part]
  BY <1>1
<1>3. now[loop] \in VectorOf(PartType(loop))
  BY FourLoops DEF FCircuit, PartType
<1>4. /\ vector \in VectorOf(PartType(loop))
      /\ Len(vector) = Len(now[loop])
      /\ vector[i] = part
      /\ \A k \in 1 .. Len(now[loop]) : k # i => vector[k] = now[loop][k]
  BY <1>1, <1>3, ReplacedElement
<1>5. /\ DOMAIN now = {"input_target_count", "generator_target_count",
                       "vector_operation_count", "operations", "generators",
                       "assertions", "output_ops"}
      /\ \A f \in DOMAIN now : f # loop => after[f] = now[f]
      /\ after[loop] = vector
  <2>1. DOMAIN now = {"input_target_count", "generator_target_count",
                      "vector_operation_count", "operations", "generators",
                      "assertions", "output_ops"}
    BY DEF FCircuit
  <2>2. loop \in DOMAIN now
    BY <2>1, FourLoops
  <2> QED BY <1>1, <2>1, <2>2
<1>6. /\ after.input_target_count = now.input_target_count
      /\ after.generator_target_count = now.generator_target_count
      /\ after.vector_operation_count = now.vector_operation_count
  BY <1>5, FourLoops
<1>7. after \in FCircuit
  <2>1. CASE loop = "operations"
    <3>1. vector \in VectorOf(FOperation)
      BY <1>4, <2>1 DEF PartType
    <3>2. after = [now EXCEPT !.operations = vector]
      BY <1>1, <2>1
    <3> QED BY <3>1, <3>2 DEF FCircuit
  <2>2. CASE loop = "assertions"
    <3>1. vector \in VectorOf(FCircuitAssertion)
      BY <1>4, <2>2 DEF PartType
    <3>2. after = [now EXCEPT !.assertions = vector]
      BY <1>1, <2>2
    <3> QED BY <3>1, <3>2 DEF FCircuit
  <2>3. CASE loop = "generators"
    <3>1. vector \in VectorOf(FGenerator)
      BY <1>4, <2>3 DEF PartType
    <3>2. after = [now EXCEPT !.generators = vector]
      BY <1>1, <2>3
    <3> QED BY <3>1, <3>2 DEF FCircuit
  <2>4. CASE loop = "output_ops"
    <3>1. vector \in VectorOf(Words(8))
      BY <1>4, <2>4 DEF PartType
    <3>2. after = [now EXCEPT !.output_ops = vector]
      BY <1>1, <2>4
    <3> QED BY <3>1, <3>2 DEF FCircuit
  <2> QED BY <2>1, <2>2, <2>3, <2>4, FourLoops
<1>8. ASSUME NEW other \in LoopNames
      PROVE  /\ Len(after[other]) = Len(now[other])
             /\ \A k \in 1 .. Len(now[other]) :
                  after[other][k] = IF other = loop /\ k = i THEN part
                                    ELSE now[other][k]
  <2>1. CASE other = loop
    BY <1>4, <1>5, <2>1
  <2>2. CASE other # loop
    <3>1. other \in DOMAIN now
      BY <1>5, FourLoops
    <3>2. after[other] = now[other]
      BY <1>5, <2>2, <3>1
    <3> QED BY <2>2, <3>2
  <2> QED BY <2>1, <2>2
<1> QED BY <1>2, <1>6, <1>7, <1>8 DEF Replaced

LEMMA ReadTurnInv ==
  ASSUME SerializationInv, NEW loop \in LoopNames, ReadTurn(loop)
  PROVE  SerializationInv'
<1>1. call.what = "read" /\ call \in Calls
  BY DEF ReadTurn, In, SerializationInv, SerializationTypeOK, NoCall
<1>2. PICK done, ptr, o : done = call.done /\ ptr = call.ptr /\ o = call.object
  OBVIOUS
<1>3. PICK c \in saved : saved = {c} /\ c \in FCircuit
  BY <1>1 DEF SerializationInv, SerializationTypeOK, ReadingInv
<1>4. PICK now : now = circuits[o]
  OBVIOUS
<1>5. /\ o \in Objects /\ now \in FCircuit
      /\ InOrder(c, done) /\ ptr = 40 + HandledSize(c, done)
      /\ ReadSoFar(now, c, done)
      /\ now.vector_operation_count = call.before.vector_operation_count
      /\ Holds(buffer, c, Everything(c), size_bytes(c))
  BY <1>1, <1>2, <1>3, <1>4 DEF SerializationInv, SerializationTypeOK, ReadingInv,
       SavedInv, Behind, Calls
<1>6. \A other \in LoopNames : Len(now[other]) = Len(c[other])
  BY <1>5 DEF ReadSoFar
<1>7. NextIn(c, done, loop)
  BY <1>2, <1>3, <1>4, <1>5, <1>6, LoopInTurn DEF ReadTurn
<1>8. InOrder(c, [done EXCEPT ![loop] = @ + 1])
      /\ done = DoneBefore(c, loop, done[loop] + 1)
  BY <1>3, <1>5, <1>7, DoneIsDoneBefore
<1>9. PICK i, next : i = done[loop] + 1 /\ next = [done EXCEPT ![loop] = @ + 1]
  OBVIOUS
<1>10. /\ done \in [LoopNames -> Nat] /\ next \in [LoopNames -> Nat]
       /\ \A other \in LoopNames :
            /\ done[other] \in Nat /\ Len(c[other]) \in Nat
            /\ done[other] <= Len(c[other]) /\ next[other] <= Len(c[other])
  BY <1>3, <1>5, <1>8, <1>9, PartsOfCircuit DEF InOrder
<1>11. i \in 1 .. Len(c[loop])
  BY <1>7, <1>9, <1>10 DEF NextIn
<1>12. PICK part : part = c[loop][i] /\ part \in PartType(loop)
  BY <1>3, <1>11, PartsOfCircuit
<1>13. Place(c, loop, i) = ptr /\ ptr \in Nat
       /\ BytesAt(buffer, ptr, PartBytes(loop, part))
  <2>1. Place(c, loop, i) = ptr
    BY <1>5, <1>8, <1>9 DEF Place
  <2>2. i \in 1 .. Everything(c)[loop]
    BY <1>11 DEF Everything
  <2> QED BY <1>5, <1>12, <2>1, <2>2 DEF Holds
<1>14. PartAt(loop, ptr) = part
  BY <1>12, <1>13, BytesOfPart
<1>15. PICK size : size = PartSize(loop, part)
  OBVIOUS
<1>16. PICK after : after = [now EXCEPT ![loop][i] = part]
  OBVIOUS
<1>17. /\ circuits' = [circuits EXCEPT ![o] = after]
       /\ call' = [call EXCEPT !.ptr = ptr + size, !.done = next]
       /\ buffer' = buffer /\ saved' = saved
  BY <1>1, <1>2, <1>4, <1>9, <1>14, <1>15, <1>16 DEF ReadTurn, Advance, Calls
<1>18. Replaced(now, loop, i, part, after)
  <2>1. i \in 1 .. Len(now[loop])
    BY <1>6, <1>11
  <2> QED BY <1>5, <1>12, <1>16, <2>1, PartReplaced
<1>19. ptr + size = 40 + HandledSize(c, next) /\ ptr + size \in Nat
  <2>1. PICK x, y : x = HandledSize(c, done) /\ y = HandledSize(c, next)
    OBVIOUS
  <2>2. done[loop] < Len(c[loop])
    BY <1>7 DEF NextIn
  <2>3. y = x + size
    BY <1>3, <1>9, <1>10, <1>12, <1>15, <2>1, <2>2, HandledSizes
  <2>4. x \in Nat /\ y \in Nat
    BY <1>3, <1>10, <2>1, HandledSizes
  <2>5. size \in Nat
    BY <1>12, <1>13, <1>15, BytesOfPart
  <2> QED BY <1>5, <2>1, <2>3, <2>4, <2>5
<1>20. /\ call' \in Calls /\ call'.what = "read" /\ call'.object = o
       /\ call'.before = call.before /\ call'.done = next /\ call'.ptr = ptr + size
  BY <1>1, <1>2, <1>10, <1>17, <1>19 DEF Calls
<1>21. circuits'[o] = after /\ circuits' \in [Objects -> FCircuit]
  <2>1. circuits \in [Objects -> FCircuit] /\ after \in FCircuit
    BY <1>18 DEF SerializationInv, SerializationTypeOK, Replaced
  <2> QED BY <1>5, <1>17, <2>1
<1>22. SerializationTypeOK'
  BY <1>17, <1>20, <1>21 DEF SerializationInv, SerializationTypeOK
<1>23. ReadSoFar(after, c, next)
  <2>1. /\ after.input_target_count = c.input_target_count
        /\ after.generator_target_count = c.generator_target_count
    BY <1>5, <1>18 DEF ReadSoFar, Replaced
  <2>2. ASSUME NEW other \in LoopNames
        PROVE  Len(after[other]) = Len(c[other])
    BY <1>6, <1>18 DEF Replaced
  <2>3. ASSUME NEW other \in LoopNames, NEW k \in 1 .. next[other]
        PROVE  after[other][k] = c[other][k]
    <3>1. k \in 1 .. Len(now[other])
      BY <1>6, <1>10
    <3>2. after[other][k] = IF other = loop /\ k = i THEN part ELSE now[other][k]
      BY <1>18, <3>1 DEF Replaced
    <3>3. CASE other = loop /\ k = i
      BY <1>12, <3>2, <3>3
    <3>4. CASE ~(other = loop /\ k = i)
      <4>1. k \in 1 .. done[other]
        BY <1>9, <1>10, <3>4
      <4>2. now[other][k] = c[other][k]
        BY <1>5, <4>1 DEF ReadSoFar
      <4> QED BY <3>2, <3>4, <4>2
    <3> QED BY <3>3, <3>4
  <2> QED BY <2>1, <2>2, <2>3 DEF ReadSoFar
<1>24. after.vector_operation_count = call.before.vector_operation_count
  BY <1>5, <1>18 DEF Replaced
<1>25. ReadingInv'
  BY <1>3, <1>8, <1>9, <1>17, <1>19, <1>20, <1>21, <1>23, <1>24 DEF ReadingInv, Behind
<1>26. WritingInv'
  BY <1>20 DEF WritingInv
<1>27. SavedInv'
  BY <1>3, <1>5, <1>17 DEF SavedInv
<1> QED BY <1>22, <1>25, <1>26, <1>27 DEF SerializationInv

\* Nothing of a circuit is handled yet.
LEMMA NothingHandled ==
  ASSUME NEW c \in FCircuit
  PROVE  Behind(c, Nothing, 40) /\ Nothing \in [LoopNames -> Nat]
<1>1. /\ Nothing \in [LoopNames -> Nat]
      /\ \A loop \in LoopNames : Nothing[loop] = 0 /\ Nothing[loop] <= Len(c[loop])
  BY PartsOfCircuit DEF Nothing
<1>2. InOrder(c, Nothing)
  BY <1>1 DEF InOrder
<1>3. HandledSize(c, Nothing) = 0
  BY <1>1, HandledSizes
<1> QED BY <1>1, <1>2, <1>3 DEF Behind

LEMMA WriteBeginsInv ==
  ASSUME SerializationInv, NEW o \in Objects, write(o)
  PROVE  SerializationInv'
<1>1. PICK c : c = circuits[o]
  OBVIOUS
<1>2. c \in FCircuit
  BY <1>1 DEF SerializationInv, SerializationTypeOK
<1>3. /\ circuits' = circuits /\ saved' = saved
      /\ buffer' = Stored([a \in 0 .. size_bytes(c) - 1 |-> Unwritten], 0,
                          circuit_header(c))
      /\ call' = [what |-> "write", object |-> o, ptr |-> 40, done |-> Nothing,
                  before |-> c]
  BY <1>1 DEF write, Call, Nothing, sizeof_FCircuitSerializedHeader
<1>4. Behind(c, Nothing, 40) /\ Nothing \in [LoopNames -> Nat]
  BY <1>2, NothingHandled
<1>5. Holds(buffer', c, Nothing, 40)
  BY <1>2, <1>3, HeaderHolds
<1>6. SerializationTypeOK'
  <2>1. call' \in Calls
    BY <1>2, <1>3, <1>4 DEF Calls
  <2> QED BY <1>3, <2>1 DEF SerializationInv, SerializationTypeOK
<1>7. WritingInv'
  BY <1>1, <1>3, <1>4, <1>5 DEF WritingInv
<1>8. SavedInv' /\ ReadingInv'
  BY <1>3 DEF SavedInv, ReadingInv
<1> QED BY <1>6, <1>7, <1>8 DEF SerializationInv

LEMMA ReadBeginsInv ==
  ASSUME SerializationInv, NEW o \in Objects, read(o)
  PROVE  SerializationInv'
<1>1. PICK c \in saved : saved = {c} /\ c \in FCircuit
  BY DEF read, SerializationInv, SerializationTypeOK
<1>2. Holds(buffer, c, Everything(c), size_bytes(c))
  BY <1>1 DEF read, NoCall, SerializationInv, SavedInv
<1>3. BytesAt(buffer, 0, circuit_header(c))
  BY <1>2 DEF Holds
<1>4. /\ Load(8, 0) = c.input_target_count
      /\ Load(8, 8) = c.generator_target_count
      /\ Load(4, 16) = Len(c.operations)
      /\ Load(4, 24) = Len(c.assertions)
      /\ Load(4, 28) = Len(c.generators)
      /\ Load(4, 32) = Len(c.output_ops)
  BY <1>1, <1>3, HeaderBytes
<1>5. PICK now, after : now = circuits[o] /\ after = circuits'[o]
  OBVIOUS
<1>6. circuits \in [Objects -> FCircuit] /\ now \in FCircuit
  BY <1>5 DEF SerializationInv, SerializationTypeOK
<1>7. PICK operations, assertions, generators, output_ops :
        /\ operations = Resize(now.operations, Len(c.operations), NewOperation)
        /\ assertions = Resize(now.assertions, Len(c.assertions), NewAssertion)
        /\ generators = Resize(now.generators, Len(c.generators), NewGenerator)
        /\ output_ops = Resize(now.output_ops, Len(c.output_ops), 0)
  OBVIOUS
<1>8. /\ operations \in VectorOf(FOperation) /\ Len(operations) = Len(c.operations)
      /\ assertions \in VectorOf(FCircuitAssertion)
      /\ Len(assertions) = Len(c.assertions)
      /\ generators \in VectorOf(FGenerator) /\ Len(generators) = Len(c.generators)
      /\ output_ops \in VectorOf(Words(8)) /\ Len(output_ops) = Len(c.output_ops)
  <2>1. /\ c.operations \in VectorOf(FOperation) /\ now.operations \in VectorOf(FOperation)
        /\ c.assertions \in VectorOf(FCircuitAssertion)
        /\ now.assertions \in VectorOf(FCircuitAssertion)
        /\ c.generators \in VectorOf(FGenerator) /\ now.generators \in VectorOf(FGenerator)
        /\ c.output_ops \in VectorOf(Words(8)) /\ now.output_ops \in VectorOf(Words(8))
    BY <1>1, <1>6 DEF FCircuit
  <2>2. /\ Len(c.operations) \in Words(4) /\ Len(c.assertions) \in Words(4)
        /\ Len(c.generators) \in Words(4) /\ Len(c.output_ops) \in Words(4)
    BY <2>1, VectorIsSeq
  <2>3. operations \in VectorOf(FOperation) /\ Len(operations) = Len(c.operations)
    BY <1>7, <2>1, <2>2, NewParts, ResizedVector
  <2>4. assertions \in VectorOf(FCircuitAssertion) /\ Len(assertions) = Len(c.assertions)
    BY <1>7, <2>1, <2>2, NewParts, ResizedVector
  <2>5. generators \in VectorOf(FGenerator) /\ Len(generators) = Len(c.generators)
    BY <1>7, <2>1, <2>2, NewParts, ResizedVector
  <2>6. output_ops \in VectorOf(Words(8)) /\ Len(output_ops) = Len(c.output_ops)
    BY <1>7, <2>1, <2>2, NewParts, ResizedVector
  <2> QED BY <2>3, <2>4, <2>5, <2>6
<1>9. circuits' = [circuits EXCEPT
        ![o].input_target_count = c.input_target_count,
        ![o].generator_target_count = c.generator_target_count,
        ![o].operations = Resize(@, Len(c.operations), NewOperation),
        ![o].assertions = Resize(@, Len(c.assertions), NewAssertion),
        ![o].generators = Resize(@, Len(c.generators), NewGenerator),
        ![o].output_ops = Resize(@, Len(c.output_ops), 0)]
  BY <1>4 DEF read
<1>10. /\ circuits' = [circuits EXCEPT ![o] = after]
       /\ after = [input_target_count |-> c.input_target_count,
                   generator_target_count |-> c.generator_target_count,
                   vector_operation_count |-> now.vector_operation_count,
                   operations |-> operations, generators |-> generators,
                   assertions |-> assertions, output_ops |-> output_ops]
  BY <1>5, <1>6, <1>7, <1>9 DEF FCircuit
<1>11. /\ call' = [what |-> "read", object |-> o, ptr |-> 40, done |-> Nothing,
                   before |-> now]
       /\ buffer' = buffer /\ saved' = saved
  BY <1>5 DEF read, Call, Nothing, sizeof_FCircuitSerializedHeader
<1>12. Behind(c, Nothing, 40) /\ Nothing \in [LoopNames -> Nat]
  BY <1>1, NothingHandled
<1>13. SerializationTypeOK'
  <2>1. call' \in Calls
    BY <1>6, <1>11, <1>12 DEF Calls
  <2>2. after \in FCircuit
    <3>1. /\ c.input_target_count \in Words(8) /\ c.generator_target_count \in Words(8)
          /\ now.vector_operation_count \in Words(4)
      BY <1>1, <1>6 DEF FCircuit
    <3> QED BY <1>8, <1>10, <3>1 DEF FCircuit
  <2>3. circuits' \in [Objects -> FCircuit]
    BY <1>6, <1>10, <2>2
  <2> QED BY <1>11, <2>1, <2>3 DEF SerializationInv, SerializationTypeOK
<1>14. ReadSoFar(after, c, Nothing)
  <2>1. \A loop \in LoopNames : 1 .. Nothing[loop] = {}
    BY DEF Nothing
  <2>2. \A loop \in LoopNames : Len(after[loop]) = Len(c[loop])
    BY <1>8, <1>10, FourLoops
  <2>3. /\ after.input_target_count = c.input_target_count
        /\ after.generator_target_count = c.generator_target_count
    BY <1>10
  <2> QED BY <2>1, <2>2, <2>3 DEF ReadSoFar
<1>15. ReadingInv'
  <2>1. after.vector_operation_count = now.vector_operation_count
    BY <1>10
  <2> QED BY <1>1, <1>5, <1>11, <1>12, <1>14, <2>1 DEF ReadingInv
<1>16. SavedInv' /\ WritingInv'
  BY <1>1, <1>2, <1>11 DEF SavedInv, WritingInv
<1> QED BY <1>13, <1>15, <1>16 DEF SerializationInv

LEMMA WriteReturnsInv ==
  ASSUME SerializationInv, return_from_write
  PROVE  SerializationInv'
<1>1. call.what = "write" /\ call \in Calls
  BY DEF return_from_write, Finished, SerializationInv, SerializationTypeOK, NoCall
<1>2. PICK c : c = call.before
  OBVIOUS
<1>3. /\ c \in FCircuit /\ circuits[call.object] = c
      /\ InOrder(c, call.done) /\ call.ptr = 40 + HandledSize(c, call.done)
      /\ Holds(buffer, c, call.done, call.ptr)
  BY <1>1, <1>2 DEF SerializationInv, WritingInv, Behind, Calls
<1>4. call.done = Everything(c)
  BY <1>3, AllInTurn DEF return_from_write
<1>5. size_bytes(c) = 40 + HandledSize(c, Everything(c))
  BY <1>3, <1>4, HandledSizes DEF InOrder
<1>6. Holds(buffer, c, Everything(c), size_bytes(c))
  BY <1>3, <1>4, <1>5
<1>7. /\ circuits' = circuits /\ buffer' = buffer /\ saved' = {c}
      /\ call' = NoCall
  BY <1>3 DEF return_from_write
<1>8. SerializationTypeOK'
  BY <1>3, <1>7 DEF SerializationInv, SerializationTypeOK
<1>9. WritingInv' /\ ReadingInv' /\ SavedInv'
  BY <1>6, <1>7 DEF WritingInv, ReadingInv, SavedInv, NoCall
<1> QED BY <1>8, <1>9 DEF SerializationInv

LEMMA ReadReturnsInv ==
  ASSUME SerializationInv, return_from_read
  PROVE  SerializationInv'
<1>1. call.what = "read"
  BY DEF return_from_read, Finished
<1>2. /\ circuits' = circuits /\ buffer' = buffer /\ saved' = saved
      /\ call' = NoCall
  BY DEF return_from_read
<1>3. SerializationTypeOK'
  BY <1>2 DEF SerializationInv, SerializationTypeOK
<1>4. WritingInv' /\ ReadingInv' /\ SavedInv'
  BY <1>1, <1>2 DEF SerializationInv, WritingInv, ReadingInv, SavedInv, NoCall
<1> QED BY <1>3, <1>4 DEF SerializationInv

LEMMA ObtainInv ==
  ASSUME SerializationInv, NEW o \in Objects, obtain(o)
  PROVE  SerializationInv'
<1>1. call = NoCall /\ call' = call /\ buffer' = buffer /\ saved' = saved
  BY DEF obtain
<1>2. circuits' \in [Objects -> FCircuit]
  BY CircuitsAssumption DEF obtain, SerializationInv, SerializationTypeOK
<1>3. SerializationTypeOK'
  BY <1>1, <1>2 DEF SerializationInv, SerializationTypeOK
<1>4. WritingInv' /\ ReadingInv' /\ SavedInv'
  BY <1>1 DEF SerializationInv, WritingInv, ReadingInv, SavedInv, NoCall
<1> QED BY <1>3, <1>4 DEF SerializationInv

LEMMA SerializationStep ==
  ASSUME SerializationInv, [SerializationNext]_vars
  PROVE  SerializationInv'
<1>1. CASE \E o \in Objects : obtain(o)
  BY <1>1, ObtainInv
<1>2. CASE \E o \in Objects : write(o)
  BY <1>2, WriteBeginsInv
<1>3. CASE \E o \in Objects : read(o)
  BY <1>3, ReadBeginsInv
<1>4. CASE write_operation \/ write_assertion \/ write_generator \/ write_output
  BY <1>4, WriteTurns, WriteTurnInv
<1>5. CASE read_operation \/ read_assertion \/ read_generator \/ read_output
  BY <1>5, ReadTurns, ReadTurnInv
<1>6. CASE return_from_write
  BY <1>6, WriteReturnsInv
<1>7. CASE return_from_read
  BY <1>7, ReadReturnsInv
<1>8. CASE UNCHANGED vars
  <2>1. circuits' = circuits /\ buffer' = buffer /\ saved' = saved /\ call' = call
    BY <1>8 DEF vars
  <2> QED BY <2>1 DEF SerializationInv, SerializationTypeOK, WritingInv, SavedInv,
            ReadingInv
<1> QED BY <1>1, <1>2, <1>3, <1>4, <1>5, <1>6, <1>7, <1>8 DEF SerializationNext

LEMMA SerializationInvariant == SerializationSpec => []SerializationInv
<1>1. SerializationInit => SerializationInv
  <2> SUFFICES ASSUME SerializationInit
               PROVE  SerializationInv
    OBVIOUS
  <2>1. circuits \in [Objects -> FCircuit]
    BY NewParts DEF SerializationInit
  <2>2. saved = {} /\ call = NoCall
    BY DEF SerializationInit
  <2> QED BY <2>1, <2>2 DEF SerializationInv, SerializationTypeOK, WritingInv,
            SavedInv, ReadingInv, NoCall
<1>2. SerializationInv /\ [SerializationNext]_vars => SerializationInv'
  BY SerializationStep
<1> QED BY <1>1, <1>2, PTL DEF SerializationSpec

-----------------------------------------------------------------------------
(* What the invariant says of write and read                               *)

\* The circuit a call is about, and what the call has done with it.
LEMMA CallIsAboutImage ==
  ASSUME SerializationInv, call # NoCall
  PROVE  /\ call \in Calls /\ Image \in FCircuit
         /\ call.what = "write" => Image = call.before
         /\ call.what = "read" => Image \in saved
         /\ Behind(Image, call.done, call.ptr)
         /\ DOMAIN buffer = 0 .. size_bytes(Image) - 1
         /\ \A loop \in LoopNames :
              Len(circuits[call.object][loop]) = Len(Image[loop])
<1>1. call \in Calls /\ call.what \in {"write", "read"}
  BY DEF SerializationInv, SerializationTypeOK, Calls
<1>2. CASE call.what = "write"
  <2>1. Image = call.before
    BY <1>2 DEF Image
  <2>2. /\ circuits[call.object] = call.before
        /\ Behind(call.before, call.done, call.ptr)
        /\ DOMAIN buffer = 0 .. size_bytes(call.before) - 1
    BY <1>2 DEF SerializationInv, WritingInv, Holds
  <2>3. call.before \in FCircuit
    BY <1>1 DEF Calls
  <2> QED BY <1>1, <1>2, <2>1, <2>2, <2>3
<1>3. CASE call.what = "read"
  <2>1. PICK c \in saved : saved = {c} /\ c \in FCircuit
    BY <1>3 DEF SerializationInv, SerializationTypeOK, ReadingInv
  <2>2. Image = c
    BY <1>3, <2>1 DEF Image
  <2>3. Behind(c, call.done, call.ptr) /\ ReadSoFar(circuits[call.object], c, call.done)
    BY <1>3, <2>1 DEF SerializationInv, ReadingInv
  <2>4. DOMAIN buffer = 0 .. size_bytes(c) - 1
    BY <1>3, <2>1 DEF SerializationInv, SavedInv, Holds
  <2> QED BY <1>1, <1>3, <2>1, <2>2, <2>3, <2>4 DEF ReadSoFar
<1> QED BY <1>1, <1>2, <1>3

\* finalized.h:185-221: the cursors of write and read stand where the sizes of the
\* parts of the circuit in the image put them, whatever the circuits are, and at
\* the end of the buffer once every part is handled.
THEOREM CursorsNeverPart == SerializationSpec => []CursorsAgree
<1>1. SerializationInv => CursorsAgree
  <2>1. SUFFICES ASSUME SerializationInv, call # NoCall
                 PROVE  /\ call.ptr = sizeof_FCircuitSerializedHeader
                                        + HandledSize(Image, call.done)
                        /\ Finished(call.what) => call.ptr = Cardinality(DOMAIN buffer)
    BY DEF CursorsAgree
  <2>2. PICK c : c = Image
    OBVIOUS
  <2>3. /\ c \in FCircuit /\ InOrder(c, call.done)
        /\ call.ptr = 40 + HandledSize(c, call.done)
        /\ DOMAIN buffer = 0 .. size_bytes(c) - 1
        /\ \A loop \in LoopNames : Len(circuits[call.object][loop]) = Len(c[loop])
    BY <2>1, <2>2, CallIsAboutImage DEF Behind
  <2>4. ASSUME Finished(call.what)
        PROVE  call.ptr = Cardinality(DOMAIN buffer)
    <3>1. call.done = Everything(c)
      BY <2>3, <2>4, AllInTurn
    <3>2. size_bytes(c) = 40 + HandledSize(c, Everything(c))
          /\ HandledSize(c, Everything(c)) \in Nat
      BY <2>3, <3>1, HandledSizes DEF InOrder
    <3>3. PICK last \in Int : last = size_bytes(c) - 1 /\ last >= 0
      BY <3>2
    <3>4. Cardinality(0 .. last) = IF 0 > last THEN 0 ELSE last - 0 + 1
      BY FS_Interval
    <3>5. Cardinality(0 .. last) = last + 1
      BY <3>3, <3>4
    <3>6. last + 1 = 40 + HandledSize(c, Everything(c))
      BY <3>2, <3>3
    <3> QED BY <2>3, <3>1, <3>3, <3>5, <3>6
  <2> QED BY <2>2, <2>3, <2>4 DEF sizeof_FCircuitSerializedHeader
<1> QED BY <1>1, SerializationInvariant, PTL

\* finalized.h:160-173: what size_bytes says is what write fills, but for the
\* padding of the headers, and neither leaves the buffer.
THEOREM WriteFillsSizeBytes == SerializationSpec => []SizeIsExact
<1>1. SerializationInv => SizeIsExact
  <2>1. SUFFICES ASSUME SerializationInv, call # NoCall
                 PROVE  SizeIsExact
    <3>1. CASE call = NoCall
      BY <3>1 DEF SizeIsExact, NoCall
    <3> QED BY <3>1
  <2>2. PICK c : c = Image
    OBVIOUS
  <2>3. DOMAIN buffer = 0 .. size_bytes(c) - 1
    BY <2>1, <2>2, CallIsAboutImage
  <2>4. ASSUME call.what = "read"
        PROVE  Cardinality({a \in DOMAIN buffer : buffer[a] = Unwritten})
                 = 4 + 2 * Len(c.operations) + 4 * Len(c.assertions)
    <3>1. c \in saved
      BY <2>1, <2>2, <2>4, CallIsAboutImage
    <3>2. Cardinality(Gaps(buffer, size_bytes(c))) = GapCount(Everything(c))
      BY <2>1, <2>4, <3>1 DEF SerializationInv, SavedInv, Holds
    <3>3. {a \in DOMAIN buffer : buffer[a] = Unwritten} = Gaps(buffer, size_bytes(c))
      BY <2>3 DEF Gaps
    <3>4. GapCount(Everything(c)) = 4 + 2 * Len(c.operations) + 4 * Len(c.assertions)
      BY FourLoops DEF GapCount, Everything
    <3> QED BY <3>2, <3>3, <3>4
  <2> QED BY <2>2, <2>3, <2>4 DEF SizeIsExact
<1> QED BY <1>1, SerializationInvariant, PTL

\* What read has made of an object in the end.
LEMMA ReadIsWhole ==
  ASSUME NEW c \in FCircuit, NEW now \in FCircuit, ReadSoFar(now, c, Everything(c))
  PROVE  now = [c EXCEPT !.vector_operation_count = now.vector_operation_count]
<1>1. ASSUME NEW loop \in LoopNames
      PROVE  now[loop] = c[loop]
  <2>1. PICK s, t : s = now[loop] /\ t = c[loop]
    OBVIOUS
  <2>2. s \in Seq(PartType(loop)) /\ t \in Seq(PartType(loop)) /\ Len(s) = Len(t)
    BY <2>1, PartsOfCircuit DEF ReadSoFar
  <2>3. ASSUME NEW i \in 1 .. Len(t)
        PROVE  s[i] = t[i]
    <3>1. i \in 1 .. Everything(c)[loop]
      BY <2>1 DEF Everything
    <3> QED BY <2>1, <3>1 DEF ReadSoFar
  <2>4. s = t
    BY <2>2, <2>3, SeqEqual
  <2> QED BY <2>1, <2>4
<1>2. /\ now.operations = c.operations /\ now.assertions = c.assertions
      /\ now.generators = c.generators /\ now.output_ops = c.output_ops
  BY <1>1, FourLoops
<1>3. /\ now.input_target_count = c.input_target_count
      /\ now.generator_target_count = c.generator_target_count
  BY DEF ReadSoFar
<1> QED BY <1>2, <1>3 DEF FCircuit

\* finalized.h:174-223: write and read are a store of circuits.  Whatever an object
\* held, read makes it the circuit that was written but for its
\* vector_operation_count, and nothing else that either does is seen.
THEOREM ReadGivesBackTheCircuit == SerializationSpec => ImplementsStore
<1> DEFINE seen(circs, c) ==
      [o \in Objects |-> IF c.what = "read" /\ c.object = o THEN c.before ELSE circs[o]]
<1>1. SerializationInit => Store!StoreInit
  <2> SUFFICES ASSUME SerializationInit
               PROVE  Store!StoreInit
    OBVIOUS
  <2>1. call.what # "read"
    BY DEF SerializationInit, NoCall
  <2> QED BY <2>1 DEF SerializationInit, Store!StoreInit
<1>2. SerializationInv /\ [SerializationNext]_vars
        => [Store!StoreNext]_(Store!storeVars)
  <2> SUFFICES ASSUME SerializationInv, [SerializationNext]_vars
               PROVE  [Store!StoreNext]_(Store!storeVars)
    OBVIOUS
  <2>1. circuits \in [Objects -> FCircuit] /\ circuits' \in [Objects -> FCircuit]
    <3>1. SerializationInv'
      BY SerializationStep
    <3> QED BY <3>1 DEF SerializationInv, SerializationTypeOK
  <2>2. ASSUME seen(circuits', call') = seen(circuits, call), saved' = saved
        PROVE  [Store!StoreNext]_(Store!storeVars)
    BY <2>2 DEF Store!storeVars
  <2>3. CASE \E o \in Objects : obtain(o)
    <3>1. PICK o \in Objects : obtain(o)
      BY <2>3
    <3>2. PICK c \in Circuits : circuits' = [circuits EXCEPT ![o] = c]
      BY <3>1 DEF obtain
    <3>3. call.what # "read" /\ call' = call /\ saved' = saved
      BY <3>1 DEF obtain, NoCall
    <3>4. seen(circuits, call) = circuits /\ seen(circuits', call') = circuits'
      BY <2>1, <3>3
    <3>5. Store!Obtain(o)
      BY <3>2, <3>3, <3>4 DEF Store!Obtain
    <3> QED BY <3>5 DEF Store!StoreNext
  <2>4. CASE \E o \in Objects : write(o)
    <3>1. PICK o \in Objects : write(o)
      BY <2>4
    <3>2. /\ call.what # "read" /\ call'.what # "read"
          /\ circuits' = circuits /\ saved' = saved
      BY <3>1 DEF write, NoCall, Call
    <3> QED BY <2>2, <3>2
  <2>5. CASE \E o \in Objects : read(o)
    <3>1. PICK o \in Objects : read(o)
      BY <2>5
    <3>2. /\ call.what # "read" /\ saved' = saved
          /\ call'.what = "read" /\ call'.object = o /\ call'.before = circuits[o]
      BY <3>1 DEF read, NoCall, Call
    <3>3. \A p \in Objects \ {o} : circuits'[p] = circuits[p]
      BY <2>1, <3>1 DEF read
    <3> QED BY <2>2, <3>2, <3>3
  <2>6. CASE write_operation \/ write_assertion \/ write_generator \/ write_output
    <3>1. PICK loop \in LoopNames : WriteTurn(loop)
      BY <2>6, WriteTurns
    <3>2. call.what = "write" /\ call \in Calls
      BY <3>1 DEF WriteTurn, In, SerializationInv, SerializationTypeOK, NoCall
    <3>3. /\ call'.what = "write" /\ circuits' = circuits /\ saved' = saved
      BY <3>1, <3>2 DEF WriteTurn, Advance, Calls
    <3> QED BY <2>2, <3>2, <3>3
  <2>7. CASE read_operation \/ read_assertion \/ read_generator \/ read_output
    <3>1. PICK loop \in LoopNames : ReadTurn(loop)
      BY <2>7, ReadTurns
    <3>2. call.what = "read" /\ call \in Calls
      BY <3>1 DEF ReadTurn, In, SerializationInv, SerializationTypeOK, NoCall
    <3>3. /\ call'.what = "read" /\ call'.object = call.object
          /\ call'.before = call.before /\ saved' = saved
      BY <3>1, <3>2 DEF ReadTurn, Advance, Calls
    <3>4. \A p \in Objects \ {call.object} : circuits'[p] = circuits[p]
      BY <2>1, <3>1 DEF ReadTurn
    <3> QED BY <2>2, <3>2, <3>3, <3>4
  <2>8. CASE return_from_write
    <3>1. call.what = "write" /\ call \in Calls
      BY <2>8 DEF return_from_write, Finished, SerializationInv, SerializationTypeOK,
           NoCall
    <3>2. PICK o \in Objects : o = call.object
      BY <3>1 DEF Calls
    <3>3. saved' = {circuits[o]} /\ circuits' = circuits /\ call'.what # "read"
      BY <2>8, <3>2 DEF return_from_write, NoCall
    <3>4. seen(circuits, call) = circuits /\ seen(circuits', call') = circuits
      BY <2>1, <3>1, <3>3
    <3>5. Store!Write(o)
      BY <3>3, <3>4 DEF Store!Write
    <3> QED BY <3>5 DEF Store!StoreNext
  <2>9. CASE return_from_read
    <3>1. call.what = "read" /\ call \in Calls
      BY <2>9 DEF return_from_read, Finished, SerializationInv, SerializationTypeOK,
           NoCall
    <3>2. PICK o \in Objects : o = call.object
      BY <3>1 DEF Calls
    <3>3. PICK c \in saved : c \in FCircuit
      BY <3>1 DEF SerializationInv, SerializationTypeOK, ReadingInv
    <3>4. PICK now : now = circuits[o] /\ now \in FCircuit
      BY <2>1, <3>2
    <3>5. /\ InOrder(c, call.done) /\ ReadSoFar(now, c, call.done)
          /\ now.vector_operation_count = call.before.vector_operation_count
      BY <3>1, <3>2, <3>3, <3>4 DEF SerializationInv, ReadingInv, Behind
    <3>6. call.done = Everything(c)
      BY <2>9, <3>2, <3>3, <3>4, <3>5, AllInTurn DEF return_from_read, ReadSoFar
    <3>7. now = [c EXCEPT !.vector_operation_count = now.vector_operation_count]
      BY <3>3, <3>4, <3>5, <3>6, ReadIsWhole
    <3>8. saved' = saved /\ circuits' = circuits /\ call'.what # "read"
      BY <2>9 DEF return_from_read, NoCall
    <3>9. seen(circuits, call)[o] = call.before
      BY <3>1, <3>2
    <3>10. seen(circuits', call') = [seen(circuits, call) EXCEPT ![o] = now]
      BY <2>1, <3>1, <3>2, <3>4, <3>8
    <3>11. Store!Read(o)
      <4>1. seen(circuits, call)[o].vector_operation_count = now.vector_operation_count
        BY <3>5, <3>9
      <4>2. PICK objects, after : /\ objects = seen(circuits, call)
                                  /\ after = seen(circuits', call')
        OBVIOUS
      <4>3. now = [c EXCEPT !.vector_operation_count = objects[o].vector_operation_count]
        BY <3>7, <4>1, <4>2
      <4>4. after = [objects EXCEPT ![o] =
              [c EXCEPT !.vector_operation_count = objects[o].vector_operation_count]]
        BY <3>10, <4>2, <4>3
      <4> QED BY <3>3, <3>8, <4>2, <4>4 DEF Store!Read
    <3> QED BY <3>11 DEF Store!StoreNext
  <2>10. CASE UNCHANGED vars
    BY <2>2, <2>10 DEF vars
  <2> QED BY <2>3, <2>4, <2>5, <2>6, <2>7, <2>8, <2>9, <2>10 DEF SerializationNext
<1> QED
  BY <1>1, <1>2, SerializationInvariant, PTL
  DEF SerializationSpec, ImplementsStore, Store!StoreSpec

=============================================================================
