------------------------- MODULE SparseHashSetProofs -------------------------
(***************************************************************************)
(* The sets of sparsepp for every hash function, any keys and any number   *)
(* of calls that the largest table has room for.                           *)
(***************************************************************************)
EXTENDS SparseHashSet, FiniteSetTheorems, SequenceTheorems,
        WellFoundedInduction, TLAPS

-----------------------------------------------------------------------------
(* Numbers                                                                 *)

\* A set of naturals has a least element.
LEMMA LeastNumber ==
  ASSUME NEW T \in SUBSET Nat, T # {}
  PROVE  \E x \in T : \A y \in T : x <= y
<1> DEFINE R == OpToRel(<, Nat)
<1>1. IsWellFoundedOn(R, Nat)
  BY NatLessThanWellFounded
<1>2. \A x, y \in Nat : y < x => <<y, x>> \in R
  BY DEF OpToRel
<1> HIDE DEF R
<1>3. PICK x \in T : \A y \in T : ~ (<<y, x>> \in R)
  <2>1. \E x \in T : \A y \in T : ~ (<<y, x>> \in R)
    BY <1>1, WFMin
  <2> QED BY <2>1
<1>4. ASSUME NEW y \in T
      PROVE  x <= y
  <2>1. x \in Nat /\ y \in Nat
    OBVIOUS
  <2>2. ~(y < x)
    BY <1>2, <1>3, <2>1
  <2> QED BY <2>1, <2>2
<1> QED BY <1>4

\* What holds at 0 and at the next number holds up to n.
LEMMA UpTo ==
  ASSUME NEW n \in Nat, NEW T \in SUBSET (0 .. n), 0 \in T,
         \A k \in 1 .. n : k - 1 \in T => k \in T
  PROVE  T = 0 .. n
<1> DEFINE U == (0 .. n) \ T
<1>1. SUFFICES ASSUME U # {}
               PROVE  FALSE
  OBVIOUS
<1>2. PICK k \in U : \A y \in U : k <= y
  <2>1. U \in SUBSET Nat
    OBVIOUS
  <2> HIDE DEF U
  <2> QED BY <1>1, <2>1, LeastNumber
<1>3. k \in 1 .. n /\ k \notin T
  OBVIOUS
<1>4. k - 1 \in 0 .. n /\ ~(k <= k - 1)
  BY <1>3
<1>5. k - 1 \in T
  BY <1>2, <1>4
<1> QED BY <1>3, <1>5

\* A recursion over 0 .. n in a set has a solution.
Solves(f, n, e, F) == f[0] = e /\ \A k \in 1 .. n : f[k] = F[k][f[k - 1]]

LEMMA StepsExist ==
  ASSUME NEW n \in Nat, NEW V, NEW e \in V, NEW F \in [1 .. n -> [V -> V]]
  PROVE  \E f \in [0 .. n -> V] : Solves(f, n, e, F)
<1> DEFINE Steps(f, m) == \A k \in 0 .. m : f[k] = IF k = 0 THEN e ELSE F[k][f[k - 1]]
           T == {m \in 0 .. n : \E f \in [0 .. m -> V] : Steps(f, m)}
<1>1. 0 \in T
  <2> DEFINE f == [k \in 0 .. 0 |-> e]
  <2>1. f \in [0 .. 0 -> V] /\ Steps(f, 0)
    OBVIOUS
  <2>2. 0 \in 0 .. n
    OBVIOUS
  <2> HIDE DEF f
  <2> QED BY <2>1, <2>2
<1>2. ASSUME NEW m \in 1 .. n, m - 1 \in T
      PROVE  m \in T
  <2>1. PICK g \in [0 .. m - 1 -> V] : Steps(g, m - 1)
    BY <1>2
  <2> DEFINE f == [k \in 0 .. m |-> IF k = m THEN F[m][g[m - 1]] ELSE g[k]]
  <2>2. ASSUME NEW k \in 0 .. m
        PROVE  f[k] = IF k = 0 THEN e ELSE F[k][f[k - 1]]
    <3>1. CASE k = m
      BY <3>1
    <3>2. CASE k # m
      <4>1. k \in 0 .. m - 1 /\ f[k] = g[k]
        BY <3>2
      <4>2. g[k] = IF k = 0 THEN e ELSE F[k][g[k - 1]]
        BY <2>1, <4>1
      <4>3. k # 0 => f[k - 1] = g[k - 1]
        BY <4>1
      <4> QED BY <4>1, <4>2, <4>3
    <3> QED BY <3>1, <3>2
  <2>3. f \in [0 .. m -> V]
    <3>1. g[m - 1] \in V /\ F[m] \in [V -> V]
      OBVIOUS
    <3> QED BY <3>1
  <2>4. Steps(f, m)
    BY <2>2
  <2>5. m \in 0 .. n
    OBVIOUS
  <2> HIDE DEF f
  <2> QED BY <2>3, <2>4, <2>5
<1>3. T = 0 .. n
  <2>1. T \in SUBSET (0 .. n)
    OBVIOUS
  <2> HIDE DEF T
  <2> QED BY <1>1, <1>2, <2>1, UpTo
<1>4. PICK f \in [0 .. n -> V] : Steps(f, n)
  <2>1. n \in 0 .. n
    OBVIOUS
  <2>2. n \in T
    BY <1>3, <2>1
  <2> HIDE DEF Steps
  <2> QED BY <2>2
<1>5. f[0] = e /\ \A k \in 1 .. n : f[k] = F[k][f[k - 1]]
  BY <1>4
<1> QED BY <1>5 DEF Solves

-----------------------------------------------------------------------------
(* Sizes of groups                                                         *)

\* The quarters of the table of sizes, for each size of a group.
LEMMA Quarters ==
  LET start[i \in 0..3] == IF i = 0 THEN GROUP_SIZE \div 8
                           ELSE LET larger == start[i - 1]
                                IN  IF larger > 2 THEN larger \div 2 ELSE larger
  IN  \A i \in 0..3 :
        start[i] = IF GROUP_SIZE = 8 THEN 1
                   ELSE IF i = 0 THEN GROUP_SIZE \div 8
                   ELSE IF i = 1 /\ GROUP_SIZE = 64 THEN 4 ELSE 2
<1> DEFINE Step(f) == [i \in 0..3 |->
                         IF i = 0 THEN GROUP_SIZE \div 8
                         ELSE LET larger == f[i - 1]
                              IN  IF larger > 2 THEN larger \div 2 ELSE larger]
           start == CHOOSE f : f = Step(f)
           Q(i) == IF GROUP_SIZE = 8 THEN 1
                   ELSE IF i = 0 THEN GROUP_SIZE \div 8
                   ELSE IF i = 1 /\ GROUP_SIZE = 64 THEN 4 ELSE 2
           q == [i \in 0..3 |-> Q(i)]
<1>1. q = Step(q)
  <2>1. \A i \in 0..3 : i # 0 => q[i - 1] = Q(i - 1)
    OBVIOUS
  <2>2. \A i \in 0..3 : q[i] = IF i = 0 THEN GROUP_SIZE \div 8
                                ELSE IF q[i - 1] > 2 THEN q[i - 1] \div 2 ELSE q[i - 1]
    BY <2>1, GroupSizeAssumption
  <2> QED BY <2>2
<1>2. start = Step(start)
  <2> HIDE DEF q, Step
  <2> QED BY <1>1
<1>3. \A i \in 0..3 : start[i] = Step(start)[i]
  <2> HIDE DEF start, Step
  <2> QED BY <1>2
<1>4. \A i \in 0..3 : start[i] = IF i = 0 THEN GROUP_SIZE \div 8
                                 ELSE IF start[i - 1] > 2 THEN start[i - 1] \div 2
                                 ELSE start[i - 1]
  <2> HIDE DEF start
  <2> QED BY <1>3
<1>5. \A i \in 0..3 : start[i] = Q(i)
  <2> HIDE DEF start
  <2>1. start[0] = Q(0)
    BY <1>4, GroupSizeAssumption
  <2>2. start[1] = Q(1)
    BY <1>4, <2>1, GroupSizeAssumption
  <2>3. start[2] = Q(2)
    BY <1>4, <2>2, GroupSizeAssumption
  <2>4. start[3] = Q(3)
    BY <1>4, <2>3, GroupSizeAssumption
  <2> QED BY <2>1, <2>2, <2>3, <2>4
<1> QED BY <1>5

\* Slots for n + 1 items: what the table of sizes holds at n + 1.
QuarterAt(n) ==
  IF GROUP_SIZE = 8 THEN 1
  ELSE IF n < GROUP_SIZE \div 4 THEN GROUP_SIZE \div 8
  ELSE IF n < GROUP_SIZE \div 2 /\ GROUP_SIZE = 64 THEN 4 ELSE 2
Batch(n) == n - (n % QuarterAt(n)) + QuarterAt(n)

LEMMA BatchSteps ==
  /\ Batch(0) = GROUP_SIZE \div 8
  /\ \A n \in 1..(GROUP_SIZE - 1) :
       Batch(n) = Batch(n - 1) + (IF (n % (GROUP_SIZE \div 4)) % QuarterAt(n) = 0
                                  THEN QuarterAt(n) ELSE 0)
<1>1. CASE GROUP_SIZE = 8
  BY <1>1 DEF Batch, QuarterAt
<1>2. CASE GROUP_SIZE = 16
  BY <1>2 DEF Batch, QuarterAt
<1>3. CASE GROUP_SIZE = 32
  BY <1>3 DEF Batch, QuarterAt
<1>4. CASE GROUP_SIZE = 64
  BY <1>4 DEF Batch, QuarterAt
<1> QED BY <1>1, <1>2, <1>3, <1>4, GroupSizeAssumption

LEMMA BatchIsTable ==
  \A n \in 1..GROUP_SIZE : alloc_batch_size[n] = Batch(n - 1)
<1> DEFINE start == CHOOSE f : f = [i \in 0..3 |->
                      IF i = 0 THEN GROUP_SIZE \div 8
                      ELSE LET larger == f[i - 1]
                           IN  IF larger > 2 THEN larger \div 2 ELSE larger]
           quarter(n) == start[(n - 1) \div (GROUP_SIZE \div 4)]
           Step(f) == [n \in 1..GROUP_SIZE |->
                         IF n = 1 THEN start[0]
                         ELSE f[n - 1] + (IF ((n - 1) % (GROUP_SIZE \div 4)) % quarter(n) = 0
                                          THEN quarter(n) ELSE 0)]
           data == CHOOSE f : f = Step(f)
           batches == [n \in 1..GROUP_SIZE |-> Batch(n - 1)]
<1>1. alloc_batch_size = data
  BY DEF alloc_batch_size
<1>2. \A i \in 0..3 : start[i] = IF GROUP_SIZE = 8 THEN 1
                                 ELSE IF i = 0 THEN GROUP_SIZE \div 8
                                 ELSE IF i = 1 /\ GROUP_SIZE = 64 THEN 4 ELSE 2
  BY Quarters
<1> HIDE DEF start
<1>3. \A n \in 1..GROUP_SIZE : quarter(n) = QuarterAt(n - 1)
  <2> SUFFICES ASSUME NEW n \in 1..GROUP_SIZE
               PROVE  quarter(n) = QuarterAt(n - 1)
    OBVIOUS
  <2>1. CASE GROUP_SIZE = 8
    BY <1>2, <2>1 DEF QuarterAt
  <2>2. CASE GROUP_SIZE = 16
    BY <1>2, <2>2 DEF QuarterAt
  <2>3. CASE GROUP_SIZE = 32
    BY <1>2, <2>3 DEF QuarterAt
  <2>4. CASE GROUP_SIZE = 64
    BY <1>2, <2>4 DEF QuarterAt
  <2> QED BY <2>1, <2>2, <2>3, <2>4, GroupSizeAssumption
<1>4. start[0] = GROUP_SIZE \div 8
  BY <1>2, GroupSizeAssumption
<1> HIDE DEF quarter
<1>5. batches = Step(batches)
  <2>1. ASSUME NEW n \in 1..GROUP_SIZE
        PROVE  batches[n] = Step(batches)[n]
    <3>1. CASE n = 1
      BY <1>4, <3>1, BatchSteps
    <3>2. CASE n # 1
      <4>1. n - 1 \in 1..(GROUP_SIZE - 1) /\ n - 1 \in 1..GROUP_SIZE
        BY <3>2, GroupSizeAssumption
      <4>2. batches[n - 1] = Batch(n - 2)
        BY <4>1
      <4>3. Batch(n - 1) = Batch(n - 2) +
              (IF ((n - 1) % (GROUP_SIZE \div 4)) % quarter(n) = 0
               THEN quarter(n) ELSE 0)
        BY <1>3, <4>1, BatchSteps
      <4> QED BY <3>2, <4>2, <4>3
    <3> QED BY <3>1, <3>2
  <2> QED BY <2>1
<1>6. data = Step(data)
  <2> HIDE DEF batches, Step
  <2> QED BY <1>5
<1>7. \A n \in 1..GROUP_SIZE :
        data[n] = IF n = 1 THEN start[0]
                  ELSE data[n - 1] + (IF ((n - 1) % (GROUP_SIZE \div 4)) % quarter(n) = 0
                                      THEN quarter(n) ELSE 0)
  <2>1. \A n \in 1..GROUP_SIZE : data[n] = Step(data)[n]
    <3> HIDE DEF data, Step
    <3> QED BY <1>6
  <2> HIDE DEF data
  <2> QED BY <2>1
<1> HIDE DEF data
<1> DEFINE T == {n \in 0..(GROUP_SIZE - 1) : data[n + 1] = Batch(n)}
<1>8. GROUP_SIZE - 1 \in Nat
  BY GroupSizeAssumption
<1>9. 0 \in T
  <2>1. 1 \in 1..GROUP_SIZE /\ 0 \in 0..(GROUP_SIZE - 1)
    BY GroupSizeAssumption
  <2>2. data[1] = start[0]
    BY <1>7, <2>1
  <2>3. data[0 + 1] = Batch(0)
    BY <1>4, <2>2, BatchSteps
  <2> QED BY <2>1, <2>3
<1>10. ASSUME NEW n \in 1..(GROUP_SIZE - 1), n - 1 \in T
       PROVE  n \in T
  <2>1. n + 1 \in 1..GROUP_SIZE /\ n + 1 # 1 /\ n \in 0..(GROUP_SIZE - 1)
    BY GroupSizeAssumption
  <2>2. data[n] = Batch(n - 1)
    BY <1>10
  <2>3. n + 1 - 1 = n
    OBVIOUS
  <2>4. data[n + 1] = data[n] + (IF (n % (GROUP_SIZE \div 4)) % quarter(n + 1) = 0
                                 THEN quarter(n + 1) ELSE 0)
    BY <1>7, <2>1, <2>3
  <2>5. quarter(n + 1) = QuarterAt(n)
    BY <1>3, <2>1, <2>3
  <2>6. data[n + 1] = Batch(n)
    BY <2>2, <2>4, <2>5, BatchSteps
  <2> QED BY <2>1, <2>6
<1>11. T = 0..(GROUP_SIZE - 1)
  <2>1. T \in SUBSET (0..(GROUP_SIZE - 1))
    OBVIOUS
  <2> HIDE DEF T
  <2> QED BY <1>8, <1>9, <1>10, <2>1, UpTo
<1>12. \A n \in 1..GROUP_SIZE : n - 1 \in T
  BY <1>11, GroupSizeAssumption
<1> QED BY <1>1, <1>12

\* There is room for as many items, and the size changes when the array is
\* full and not before: what _set_aux takes for granted.
LEMMA SizingFits ==
  /\ \A n \in 0..GROUP_SIZE : sizing(n) \in Nat /\ n =< sizing(n)
  /\ sizing(0) = 0
  /\ \A n \in 0..(GROUP_SIZE - 1) : n # sizing(n) => sizing(n + 1) = sizing(n)
<1>1. \A n \in 1..GROUP_SIZE : sizing(n) = Batch(n - 1)
  BY BatchIsTable DEF sizing
<1>2. sizing(0) = 0
  BY DEF sizing
<1>3. \A n \in 0..(GROUP_SIZE - 1) : Batch(n) \in Nat /\ n < Batch(n)
  <2>1. CASE GROUP_SIZE = 8
    BY <2>1 DEF Batch, QuarterAt
  <2>2. CASE GROUP_SIZE = 16
    BY <2>2 DEF Batch, QuarterAt
  <2>3. CASE GROUP_SIZE = 32
    BY <2>3 DEF Batch, QuarterAt
  <2>4. CASE GROUP_SIZE = 64
    BY <2>4 DEF Batch, QuarterAt
  <2> QED BY <2>1, <2>2, <2>3, <2>4, GroupSizeAssumption
<1>4. \A n \in 1..(GROUP_SIZE - 1) : n # Batch(n - 1) => Batch(n) = Batch(n - 1)
  <2>1. CASE GROUP_SIZE = 8
    BY <2>1 DEF Batch, QuarterAt
  <2>2. CASE GROUP_SIZE = 16
    BY <2>2 DEF Batch, QuarterAt
  <2>3. CASE GROUP_SIZE = 32
    BY <2>3 DEF Batch, QuarterAt
  <2>4. CASE GROUP_SIZE = 64
    BY <2>4 DEF Batch, QuarterAt
  <2> QED BY <2>1, <2>2, <2>3, <2>4, GroupSizeAssumption
<1>5. ASSUME NEW n \in 0..GROUP_SIZE
      PROVE  sizing(n) \in Nat /\ n =< sizing(n)
  <2>1. CASE n = 0
    BY <1>2, <2>1
  <2>2. CASE n # 0
    <3>1. n \in 1..GROUP_SIZE /\ n - 1 \in 0..(GROUP_SIZE - 1)
      BY <2>2, GroupSizeAssumption
    <3>2. Batch(n - 1) \in Nat /\ n - 1 < Batch(n - 1)
      BY <1>3, <3>1
    <3> QED BY <1>1, <3>1, <3>2
  <2> QED BY <2>1, <2>2
<1>6. ASSUME NEW n \in 0..(GROUP_SIZE - 1), n # sizing(n)
      PROVE  sizing(n + 1) = sizing(n)
  <2>1. n # 0
    BY <1>2, <1>6
  <2>2. n \in 1..GROUP_SIZE /\ n \in 1..(GROUP_SIZE - 1) /\ n + 1 \in 1..GROUP_SIZE
    BY <2>1, GroupSizeAssumption
  <2>3. sizing(n) = Batch(n - 1) /\ sizing(n + 1) = Batch(n + 1 - 1)
    BY <1>1, <2>2
  <2>4. n + 1 - 1 = n
    OBVIOUS
  <2> QED BY <1>4, <1>6, <2>2, <2>3, <2>4
<1> QED BY <1>2, <1>5, <1>6

-----------------------------------------------------------------------------
(* Ranks                                                                   *)

LEMMA RankBounds ==
  ASSUME NEW bm \in SUBSET Nat, IsFiniteSet(bm), NEW p \in Nat
  PROVE  /\ pos_to_offset(bm, p) \in Nat
         /\ pos_to_offset(bm, p) =< Cardinality(bm)
         /\ Cardinality(bm) \in Nat
         /\ p \in bm => pos_to_offset(bm, p) < Cardinality(bm)
<1> DEFINE below == {i \in bm : i < p}
<1>1. pos_to_offset(bm, p) = Cardinality(below)
  BY DEF pos_to_offset
<1>2. below \in SUBSET bm /\ (p \in bm => below # bm)
  OBVIOUS
<1> HIDE DEF below
<1>3. IsFiniteSet(below) /\ Cardinality(below) =< Cardinality(bm)
      /\ (Cardinality(bm) = Cardinality(below) => bm = below)
  BY <1>2, FS_Subset
<1>4. Cardinality(below) \in Nat /\ Cardinality(bm) \in Nat
  BY <1>3, FS_CardinalityType
<1> QED BY <1>1, <1>2, <1>3, <1>4

\* A full bucket that is added below moves a bucket by one.
LEMMA RankAdd ==
  ASSUME NEW bm \in SUBSET Nat, IsFiniteSet(bm), NEW p \in Nat,
         NEW i \in Nat, i \notin bm
  PROVE  pos_to_offset(bm \cup {i}, p)
           = pos_to_offset(bm, p) + (IF i < p THEN 1 ELSE 0)
<1> DEFINE below == {j \in bm : j < p}
           after == {j \in bm \cup {i} : j < p}
<1>1. pos_to_offset(bm, p) = Cardinality(below)
      /\ pos_to_offset(bm \cup {i}, p) = Cardinality(after)
  BY DEF pos_to_offset
<1>2. below \in SUBSET bm /\ i \notin below
      /\ after = IF i < p THEN below \cup {i} ELSE below
  OBVIOUS
<1> HIDE DEF below, after
<1>3. IsFiniteSet(below)
  BY <1>2, FS_Subset
<1>4. Cardinality(below) \in Nat /\ Cardinality(below \cup {i}) = Cardinality(below) + 1
  BY <1>2, <1>3, FS_CardinalityType, FS_AddElement
<1> QED BY <1>1, <1>2, <1>4

LEMMA RankRemove ==
  ASSUME NEW bm \in SUBSET Nat, IsFiniteSet(bm), NEW p \in Nat, NEW i \in bm
  PROVE  pos_to_offset(bm, p)
           = pos_to_offset(bm \ {i}, p) + (IF i < p THEN 1 ELSE 0)
<1> DEFINE less == bm \ {i}
<1>1. less \in SUBSET Nat /\ i \in Nat /\ i \notin less /\ bm = less \cup {i}
  OBVIOUS
<1>2. IsFiniteSet(less)
  BY FS_RemoveElement
<1> HIDE DEF less
<1>3. pos_to_offset(less \cup {i}, p) = pos_to_offset(less, p) + (IF i < p THEN 1 ELSE 0)
  BY <1>1, <1>2, RankAdd
<1> QED BY <1>1, <1>3 DEF less

LEMMA RankGrows ==
  ASSUME NEW bm \in SUBSET Nat, IsFiniteSet(bm), NEW p \in Nat, NEW q \in Nat, p =< q
  PROVE  /\ pos_to_offset(bm, p) =< pos_to_offset(bm, q)
         /\ p \in bm /\ p < q => pos_to_offset(bm, p) < pos_to_offset(bm, q)
<1> DEFINE low == {j \in bm : j < p}
           high == {j \in bm : j < q}
<1>1. pos_to_offset(bm, p) = Cardinality(low) /\ pos_to_offset(bm, q) = Cardinality(high)
  BY DEF pos_to_offset
<1>2. low \in SUBSET high /\ high \in SUBSET bm
      /\ (p \in bm /\ p < q => low # high)
  <2>1. ASSUME NEW j \in bm, j < p
        PROVE  j < q
    <3>1. j \in Nat
      OBVIOUS
    <3> QED BY <2>1, <3>1
  <2>2. p \notin low
    OBVIOUS
  <2>3. p \in bm /\ p < q => p \in high
    OBVIOUS
  <2> QED BY <2>1, <2>2, <2>3
<1> HIDE DEF low, high
<1>3. IsFiniteSet(high)
  BY <1>2, FS_Subset
<1>4. Cardinality(low) =< Cardinality(high) /\ IsFiniteSet(low)
      /\ (Cardinality(high) = Cardinality(low) => high = low)
  BY <1>2, <1>3, FS_Subset
<1>5. Cardinality(low) \in Nat /\ Cardinality(high) \in Nat
  BY <1>3, <1>4, FS_CardinalityType
<1> QED BY <1>1, <1>2, <1>4, <1>5

LEMMA RankInjective ==
  ASSUME NEW bm \in SUBSET Nat, IsFiniteSet(bm), NEW p \in bm, NEW q \in bm,
         pos_to_offset(bm, p) = pos_to_offset(bm, q)
  PROVE  p = q
<1>1. p \in Nat /\ q \in Nat
  OBVIOUS
<1>2. pos_to_offset(bm, p) \in Nat
  BY <1>1, RankBounds
<1>3. CASE p < q
  BY <1>1, <1>2, <1>3, RankGrows
<1>4. CASE q < p
  BY <1>1, <1>2, <1>4, RankGrows
<1> QED BY <1>1, <1>3, <1>4

\* Every offset in the packed array is that of a full bucket.
LEMMA RankOnto ==
  ASSUME NEW bm \in SUBSET Nat, IsFiniteSet(bm),
         NEW k \in 0..(Cardinality(bm) - 1)
  PROVE  \E p \in bm : pos_to_offset(bm, p) = k
<1> DEFINE n == Cardinality(bm)
           f == [p \in bm |-> pos_to_offset(bm, p)]
<1>1. n \in Nat
  BY FS_CardinalityType
<1>2. f \in [bm -> 0..(n - 1)]
  <2>1. ASSUME NEW p \in bm
        PROVE  pos_to_offset(bm, p) \in 0..(n - 1)
    <3>1. p \in Nat
      OBVIOUS
    <3>2. pos_to_offset(bm, p) \in Nat /\ pos_to_offset(bm, p) < n
      BY <3>1, RankBounds
    <3> HIDE DEF n
    <3> QED BY <1>1, <3>2
  <2> QED BY <2>1
<1>3. \A p, q \in bm : f[p] = f[q] => p = q
  BY RankInjective
<1>4. IsFiniteSet(0..(n - 1)) /\ Cardinality(0..(n - 1)) = n
  <2> HIDE DEF n
  <2>1. 0 \in Int /\ n - 1 \in Int
    BY <1>1
  <2>2. IsFiniteSet(0..(n - 1)) /\ Cardinality(0..(n - 1)) = IF 0 > n - 1 THEN 0 ELSE n - 1 - 0 + 1
    BY <2>1, FS_Interval
  <2> QED BY <1>1, <2>2
<1> HIDE DEF f
<1>5. f \in Injection(bm, 0..(n - 1))
  BY <1>2, <1>3 DEF Injection, IsInjective
<1>6. f \in Surjection(bm, 0..(n - 1))
  BY <1>4, <1>5, FS_Injection
<1>7. \E p \in bm : f[p] = k
  BY <1>6 DEF Surjection
<1> QED BY <1>7 DEF f

\* The full buckets that are left when the n lowest are dropped.
Above(bm, n) == {i \in bm : n =< pos_to_offset(bm, i)}

LEMMA LowestAbove ==
  ASSUME NEW bm \in SUBSET Nat, IsFiniteSet(bm), NEW e \in bm
  PROVE  LET n == pos_to_offset(bm, e)
         IN  /\ e \in Above(bm, n)
             /\ (CHOOSE i \in Above(bm, n) : \A j \in Above(bm, n) : i =< j) = e
             /\ Above(bm, n + 1) = Above(bm, n) \ {e}
<1> DEFINE n == pos_to_offset(bm, e)
<1>1. e \in Nat /\ n \in Nat
  BY RankBounds
<1>2. \A j \in bm : j \in Nat /\ pos_to_offset(bm, j) \in Nat
  BY RankBounds
<1> HIDE DEF n
<1>3. e \in Above(bm, n)
  BY <1>1 DEF Above, n
<1>4. ASSUME NEW j \in Above(bm, n)
      PROVE  e =< j
  <2>1. j \in bm /\ j \in Nat /\ n =< pos_to_offset(bm, j)
    BY <1>2, <1>4 DEF Above
  <2>2. CASE j < e
    <3>1. pos_to_offset(bm, j) < n
      BY <1>1, <2>1, <2>2, RankGrows DEF n
    <3> QED BY <1>1, <1>2, <2>1, <3>1
  <2> QED BY <1>1, <2>1, <2>2
<1>5. \A i \in Above(bm, n) : (\A j \in Above(bm, n) : i =< j) => i = e
  <2> SUFFICES ASSUME NEW i \in Above(bm, n), \A j \in Above(bm, n) : i =< j
               PROVE  i = e
    OBVIOUS
  <2>1. i =< e /\ e =< i
    BY <1>3, <1>4
  <2>2. i \in Nat
    BY <1>2 DEF Above
  <2> QED BY <1>1, <2>1, <2>2
<1>6. (CHOOSE i \in Above(bm, n) : \A j \in Above(bm, n) : i =< j) = e
  BY <1>3, <1>4, <1>5
<1>7. Above(bm, n + 1) = Above(bm, n) \ {e}
  <2>1. ASSUME NEW j \in bm
        PROVE  n + 1 =< pos_to_offset(bm, j) <=> n =< pos_to_offset(bm, j) /\ j # e
    <3>1. pos_to_offset(bm, j) = n => j = e
      BY RankInjective DEF n
    <3>2. j = e => pos_to_offset(bm, j) = n
      BY DEF n
    <3>3. pos_to_offset(bm, j) \in Nat
      BY <1>2
    <3> QED BY <1>1, <3>1, <3>2, <3>3
  <2> QED BY <2>1 DEF Above
<1> QED BY <1>3, <1>6, <1>7 DEF n

\* offset_to_pos is the inverse of pos_to_offset.
LEMMA BucketOfOffset ==
  ASSUME NEW bm \in SUBSET Nat, IsFiniteSet(bm), NEW p \in bm
  PROVE  offset_to_pos(bm, pos_to_offset(bm, p)) = p
<1> DEFINE offset == pos_to_offset(bm, p)
           lowest(s) == CHOOSE i \in s : \A j \in s : i =< j
           Step(f) == [n \in 0..offset |->
                         IF n = 0 THEN bm
                         ELSE LET bits == f[n - 1]
                              IN  IF bits = {} THEN {} ELSE bits \ {lowest(bits)}]
           rest == CHOOSE f : f = Step(f)
           above == [n \in 0..offset |-> Above(bm, n)]
<1>1. p \in Nat /\ offset \in Nat /\ offset < Cardinality(bm) /\ Cardinality(bm) \in Nat
  BY RankBounds
<1>2. offset_to_pos(bm, offset) = IF rest[offset] = {} THEN GROUP_SIZE ELSE lowest(rest[offset])
  BY DEF offset_to_pos
<1> HIDE DEF offset
<1>3. ASSUME NEW n \in 1..offset
      PROVE  Above(bm, n) = IF Above(bm, n - 1) = {} THEN {}
                            ELSE Above(bm, n - 1) \ {lowest(Above(bm, n - 1))}
  <2>1. n - 1 \in 0..(Cardinality(bm) - 1) /\ n - 1 + 1 = n
    BY <1>1
  <2>2. PICK e \in bm : pos_to_offset(bm, e) = n - 1
    BY <2>1, RankOnto
  <2>3. /\ e \in Above(bm, n - 1)
        /\ lowest(Above(bm, n - 1)) = e
        /\ Above(bm, n) = Above(bm, n - 1) \ {e}
    BY <2>1, <2>2, LowestAbove
  <2> QED BY <2>3
<1>4. Above(bm, 0) = bm
  <2>1. ASSUME NEW j \in bm
        PROVE  0 =< pos_to_offset(bm, j)
    <3>1. j \in Nat
      OBVIOUS
    <3>2. pos_to_offset(bm, j) \in Nat
      BY <3>1, RankBounds
    <3> QED BY <3>2
  <2> QED BY <2>1 DEF Above
<1> HIDE DEF lowest
<1>5. above = Step(above)
  <2>1. ASSUME NEW n \in 0..offset
        PROVE  above[n] = Step(above)[n]
    <3>1. CASE n = 0
      BY <1>4, <3>1
    <3>2. CASE n # 0
      <4>1. n \in 1..offset /\ n - 1 \in 0..offset
        BY <1>1, <3>2
      <4> QED BY <1>3, <3>2, <4>1
    <3> QED BY <3>1, <3>2
  <2> QED BY <2>1
<1>6. rest = Step(rest)
  <2> HIDE DEF above, Step
  <2> QED BY <1>5
<1>7. \A n \in 0..offset : rest[n] = IF n = 0 THEN bm
                                    ELSE IF rest[n - 1] = {} THEN {}
                                    ELSE rest[n - 1] \ {lowest(rest[n - 1])}
  <2>1. \A n \in 0..offset : rest[n] = Step(rest)[n]
    <3> HIDE DEF rest, Step
    <3> QED BY <1>6
  <2> HIDE DEF rest
  <2> QED BY <2>1
<1> HIDE DEF rest
<1> DEFINE T == {n \in 0..offset : rest[n] = Above(bm, n)}
<1>8. 0 \in T
  <2>1. 0 \in 0..offset
    BY <1>1
  <2>2. rest[0] = Above(bm, 0)
    BY <1>4, <1>7, <2>1
  <2> QED BY <2>1, <2>2
<1>9. ASSUME NEW n \in 1..offset, n - 1 \in T
      PROVE  n \in T
  <2>1. n \in 0..offset /\ n # 0
    OBVIOUS
  <2>2. rest[n - 1] = Above(bm, n - 1)
    BY <1>9
  <2> QED BY <1>3, <1>7, <2>1, <2>2
<1>10. T = 0..offset
  <2>1. T \in SUBSET (0..offset)
    OBVIOUS
  <2> HIDE DEF T
  <2> QED BY <1>1, <1>8, <1>9, <2>1, UpTo
<1>11. rest[offset] = Above(bm, offset)
  <2>1. offset \in 0..offset
    BY <1>1
  <2> QED BY <1>10, <2>1
<1>12. p \in Above(bm, offset) /\ lowest(Above(bm, offset)) = p
  BY LowestAbove DEF lowest, offset
<1>13. offset_to_pos(bm, offset) = p
  BY <1>2, <1>11, <1>12
<1> QED BY <1>13 DEF offset

-----------------------------------------------------------------------------
(* Sequences                                                               *)

LEMMA InsertedAt ==
  ASSUME NEW V, NEW s \in Seq(V), NEW k \in 1..(Len(s) + 1), NEW e \in V
  PROVE  /\ InsertAt(s, k, e) \in Seq(V)
         /\ Len(InsertAt(s, k, e)) = Len(s) + 1
         /\ \A j \in 1..(Len(s) + 1) :
              InsertAt(s, k, e)[j] = IF j < k THEN s[j]
                                     ELSE IF j = k THEN e ELSE s[j - 1]
<1> DEFINE a == SubSeq(s, 1, k - 1)
           b == SubSeq(s, k, Len(s))
           ae == a \o <<e>>
<1>1. Len(s) \in Nat
  OBVIOUS
<1>2. a \in Seq(V) /\ Len(a) = k - 1 /\ \A j \in 1..(k - 1) : a[j] = s[j]
  BY <1>1
<1>3. b \in Seq(V) /\ Len(b) = Len(s) - k + 1
      /\ \A j \in 1..(Len(s) - k + 1) : b[j] = s[k + j - 1]
  BY <1>1
<1>4. <<e>> \in Seq(V) /\ Len(<<e>>) = 1 /\ <<e>>[1] = e
  OBVIOUS
<1>5. InsertAt(s, k, e) = ae \o b
  BY DEF InsertAt
<1> HIDE DEF a, b
<1>6. ae \in Seq(V) /\ Len(ae) = k /\ ae[k] = e /\ \A j \in 1..(k - 1) : ae[j] = s[j]
  <2>1. ae \in Seq(V) /\ Len(ae) = Len(a) + 1
        /\ \A j \in 1..(Len(a) + 1) : ae[j] = IF j <= Len(a) THEN a[j] ELSE <<e>>[j - Len(a)]
    BY <1>2, <1>4, ConcatProperties
  <2> HIDE DEF ae
  <2> QED BY <1>1, <1>2, <1>4, <2>1
<1> HIDE DEF ae
<1>7. ae \o b \in Seq(V) /\ Len(ae \o b) = Len(ae) + Len(b)
      /\ \A j \in 1..(Len(ae) + Len(b)) :
           (ae \o b)[j] = IF j <= Len(ae) THEN ae[j] ELSE b[j - Len(ae)]
  BY <1>3, <1>6, ConcatProperties
<1>8. Len(ae) + Len(b) = Len(s) + 1
  BY <1>1, <1>3, <1>6
<1>9. ASSUME NEW j \in 1..(Len(s) + 1)
      PROVE  (ae \o b)[j] = IF j < k THEN s[j] ELSE IF j = k THEN e ELSE s[j - 1]
  <2>1. CASE j =< k
    BY <1>1, <1>6, <1>7, <1>8, <2>1
  <2>2. CASE ~(j =< k)
    <3>1. j - k \in 1..(Len(s) - k + 1) /\ k + (j - k) - 1 = j - 1
      BY <1>1, <2>2
    <3>2. (ae \o b)[j] = b[j - k]
      BY <1>6, <1>7, <1>8, <2>2
    <3>3. b[j - k] = s[k + (j - k) - 1]
      BY <1>3, <3>1
    <3> QED BY <2>2, <3>1, <3>2, <3>3
  <2> QED BY <1>1, <2>1, <2>2
<1> QED BY <1>5, <1>7, <1>8, <1>9

LEMMA RemovedAt ==
  ASSUME NEW V, NEW s \in Seq(V), NEW k \in 1..Len(s)
  PROVE  /\ RemoveAt(s, k) \in Seq(V)
         /\ Len(RemoveAt(s, k)) = Len(s) - 1
         /\ \A j \in 1..(Len(s) - 1) :
              RemoveAt(s, k)[j] = IF j < k THEN s[j] ELSE s[j + 1]
<1> DEFINE a == SubSeq(s, 1, k - 1)
           b == SubSeq(s, k + 1, Len(s))
<1>1. Len(s) \in Nat
  OBVIOUS
<1>2. a \in Seq(V) /\ Len(a) = k - 1 /\ \A j \in 1..(k - 1) : a[j] = s[j]
  BY <1>1
<1>3. b \in Seq(V) /\ Len(b) = Len(s) - k
      /\ \A j \in 1..(Len(s) - k) : b[j] = s[k + j]
  BY <1>1
<1>5. RemoveAt(s, k) = a \o b
  BY DEF RemoveAt
<1> HIDE DEF a, b
<1>7. a \o b \in Seq(V) /\ Len(a \o b) = Len(a) + Len(b)
      /\ \A j \in 1..(Len(a) + Len(b)) :
           (a \o b)[j] = IF j <= Len(a) THEN a[j] ELSE b[j - Len(a)]
  BY <1>2, <1>3, ConcatProperties
<1>8. Len(a) + Len(b) = Len(s) - 1
  BY <1>1, <1>2, <1>3
<1>9. ASSUME NEW j \in 1..(Len(s) - 1)
      PROVE  (a \o b)[j] = IF j < k THEN s[j] ELSE s[j + 1]
  <2>1. CASE j < k
    BY <1>1, <1>2, <1>7, <1>8, <2>1
  <2>2. CASE ~(j < k)
    <3>1. j - (k - 1) \in 1..(Len(s) - k) /\ k + (j - (k - 1)) = j + 1
      BY <1>1, <2>2
    <3>2. (a \o b)[j] = b[j - (k - 1)]
      BY <1>1, <1>2, <1>7, <1>8, <2>2
    <3>3. b[j - (k - 1)] = s[k + (j - (k - 1))]
      BY <1>3, <3>1
    <3> QED BY <2>2, <3>1, <3>2, <3>3
  <2> QED BY <1>1, <2>1, <2>2
<1> QED BY <1>5, <1>7, <1>8, <1>9

-----------------------------------------------------------------------------
(* Groups                                                                  *)

\* What is in a group is a key, or what was allocated and is being read.
Value == Key \cup {Raw}
Buckets == 0..(GROUP_SIZE - 1)

GroupType ==
  [group : Seq(Value), bitmap : SUBSET Buckets, bm_erased : SUBSET Buckets,
   num_buckets : Nat, num_allocated : Nat, capacity : Nat]

\* GroupOK, of records of the fields' types.
Packed(g) ==
  /\ g \in GroupType
  /\ g.bitmap \cap g.bm_erased = {}
  /\ g.num_buckets = Cardinality(g.bitmap) /\ Len(g.group) = g.num_buckets
  /\ g.capacity = sizing(g.num_buckets) /\ g.num_allocated = g.capacity

\* The value in a full bucket.
ValueAt(g, i) == g.group[pos_to_offset(g.bitmap, i) + 1]

LEMMA BitmapFinite ==
  ASSUME NEW bm \in SUBSET Buckets
  PROVE  /\ bm \in SUBSET Nat /\ IsFiniteSet(bm)
         /\ Cardinality(bm) \in 0..GROUP_SIZE
         /\ \A i \in Buckets : i \notin bm => Cardinality(bm) < GROUP_SIZE
<1>1. GROUP_SIZE \in Nat /\ 0 \in Int /\ GROUP_SIZE - 1 \in Int
  BY GroupSizeAssumption
<1>2. IsFiniteSet(Buckets) /\ Cardinality(Buckets) = GROUP_SIZE
  <2>1. IsFiniteSet(0..(GROUP_SIZE - 1))
        /\ Cardinality(0..(GROUP_SIZE - 1))
             = IF 0 > GROUP_SIZE - 1 THEN 0 ELSE GROUP_SIZE - 1 - 0 + 1
    BY <1>1, FS_Interval
  <2> QED BY <1>1, <2>1 DEF Buckets
<1>3. IsFiniteSet(bm) /\ Cardinality(bm) =< GROUP_SIZE
      /\ (GROUP_SIZE = Cardinality(bm) => Buckets = bm)
  BY <1>2, FS_Subset
<1>4. Cardinality(bm) \in Nat
  BY <1>3, FS_CardinalityType
<1>5. bm \in SUBSET Nat
  BY DEF Buckets
<1> QED BY <1>1, <1>3, <1>4, <1>5

LEMMA PackedIsOK ==
  ASSUME NEW g, Packed(g)
  PROVE  GroupOK(g)
<1>1. g.bitmap \in SUBSET Buckets /\ g.bm_erased \in SUBSET Buckets
  BY DEF Packed, GroupType
<1>2. g.bitmap \in SUBSET Nat /\ IsFiniteSet(g.bitmap)
      /\ Cardinality(g.bitmap) \in 0..GROUP_SIZE
  BY <1>1, BitmapFinite
<1>3. \A i \in g.bitmap : offset_to_pos(g.bitmap, pos_to_offset(g.bitmap, i)) = i
  BY <1>2, BucketOfOffset
<1>4. g.num_buckets = Cardinality(g.bitmap) /\ g.num_buckets =< sizing(g.num_buckets)
  BY <1>2, SizingFits DEF Packed
<1> QED BY <1>1, <1>3, <1>4 DEF Packed, GroupOK, Buckets

LEMMA NewGroupPacked ==
  Packed(NewGroup) /\ NewGroup.bitmap = {} /\ NewGroup.bm_erased = {}
<1>1. NewGroup \in GroupType
  BY DEF NewGroup, GroupType
<1>2. Cardinality({}) = 0 /\ sizing(0) = 0
  BY FS_EmptySet, SizingFits
<1> QED BY <1>1, <1>2 DEF Packed, NewGroup

\* An empty group without erased buckets is a new one.
LEMMA EmptyIsNew ==
  ASSUME NEW g, Packed(g), g.bitmap = {}, g.bm_erased = {}
  PROVE  g = NewGroup
<1>1. g.num_buckets = 0 /\ Len(g.group) = 0 /\ g.capacity = 0 /\ g.num_allocated = 0
  BY FS_EmptySet, SizingFits DEF Packed
<1>2. g.group = <<>>
  BY <1>1 DEF Packed, GroupType
<1>3. g = [group |-> g.group, bitmap |-> g.bitmap, bm_erased |-> g.bm_erased,
           num_buckets |-> g.num_buckets, num_allocated |-> g.num_allocated,
           capacity |-> g.capacity]
  BY DEF Packed, GroupType
<1> QED BY <1>1, <1>2, <1>3 DEF NewGroup

\* What an insertion makes of a group, and an erasure.
Filled(g, i, val, h) ==
  /\ Packed(h)
  /\ h.bitmap = g.bitmap \cup {i} /\ h.bm_erased = g.bm_erased \ {i}
  /\ ValueAt(h, i) = val
  /\ \A j \in g.bitmap \ {i} : ValueAt(h, j) = ValueAt(g, j)

Emptied(g, i, h) ==
  /\ Packed(h)
  /\ h.bitmap = g.bitmap \ {i} /\ h.bm_erased = g.bm_erased \cup {i}
  /\ \A j \in h.bitmap : ValueAt(h, j) = ValueAt(g, j)

LEMMA PackedFacts ==
  ASSUME NEW g, Packed(g)
  PROVE  /\ g.bitmap \in SUBSET Buckets /\ g.bitmap \in SUBSET Nat
         /\ g.bm_erased \in SUBSET Buckets
         /\ IsFiniteSet(g.bitmap)
         /\ g.group \in Seq(Value)
         /\ g.num_buckets \in 0..GROUP_SIZE
         /\ Len(g.group) = g.num_buckets
         /\ g.num_buckets = Cardinality(g.bitmap)
         /\ \A i \in Nat : pos_to_offset(g.bitmap, i) \in 0..g.num_buckets
         /\ \A i \in g.bitmap : pos_to_offset(g.bitmap, i) \in 0..(g.num_buckets - 1)
<1>1. g.bitmap \in SUBSET Buckets /\ g.bm_erased \in SUBSET Buckets
      /\ g.group \in Seq(Value)
  BY DEF Packed, GroupType
<1>2. g.bitmap \in SUBSET Nat /\ IsFiniteSet(g.bitmap)
      /\ Cardinality(g.bitmap) \in 0..GROUP_SIZE
  BY <1>1, BitmapFinite
<1>3. ASSUME NEW i \in Nat
      PROVE  pos_to_offset(g.bitmap, i) \in 0..Cardinality(g.bitmap)
             /\ (i \in g.bitmap => pos_to_offset(g.bitmap, i) \in 0..(Cardinality(g.bitmap) - 1))
  <2>1. /\ pos_to_offset(g.bitmap, i) \in Nat
        /\ pos_to_offset(g.bitmap, i) =< Cardinality(g.bitmap)
        /\ i \in g.bitmap => pos_to_offset(g.bitmap, i) < Cardinality(g.bitmap)
    BY <1>2, RankBounds
  <2> QED BY <1>2, <2>1
<1> QED BY <1>1, <1>2, <1>3 DEF Packed

\* set and set_aux: the values behind the new one are moved up by one.
LEMMA SetPacks ==
  ASSUME NEW g, Packed(g), NEW i \in Buckets, NEW val \in Value
  PROVE  Filled(g, i, val, set_in_group(g, i, val))
<1> DEFINE offset == pos_to_offset(g.bitmap, i)
           clean == [g EXCEPT !.bm_erased = @ \ {i}]
           n == g.num_buckets
<1>1. /\ g.bitmap \in SUBSET Buckets /\ g.bitmap \in SUBSET Nat
      /\ g.bm_erased \in SUBSET Buckets
      /\ IsFiniteSet(g.bitmap) /\ g.group \in Seq(Value)
      /\ n \in 0..GROUP_SIZE /\ Len(g.group) = n
      /\ n = Cardinality(g.bitmap)
  BY PackedFacts
<1>2. i \in Nat /\ offset \in 0..n /\ (i \in g.bitmap => offset \in 0..(n - 1))
  BY PackedFacts DEF Buckets
<1>3. g = [group |-> g.group, bitmap |-> g.bitmap, bm_erased |-> g.bm_erased,
           num_buckets |-> n, num_allocated |-> g.num_allocated,
           capacity |-> g.capacity]
      /\ g.capacity = sizing(n) /\ g.num_allocated = sizing(n) /\ sizing(n) \in Nat
      /\ g.bitmap \cap g.bm_erased = {}
  BY DEF Packed, GroupType
<1>4. clean = [group |-> g.group, bitmap |-> g.bitmap, bm_erased |-> g.bm_erased \ {i},
               num_buckets |-> n, num_allocated |-> sizing(n), capacity |-> sizing(n)]
  BY <1>3
<1>5. CASE i \in g.bitmap
  <2> DEFINE seq == [g.group EXCEPT ![offset + 1] = val]
             h == [group |-> seq, bitmap |-> g.bitmap, bm_erased |-> g.bm_erased \ {i},
                   num_buckets |-> n, num_allocated |-> sizing(n), capacity |-> sizing(n)]
  <2>1. set_in_group(g, i, val) = h
    <3>1. set_in_group(g, i, val) = [clean EXCEPT !.group[offset + 1] = val]
      BY <1>5 DEF set_in_group
    <3>2. clean.group = g.group
      BY <1>4
    <3> HIDE DEF offset, clean
    <3>3. [clean EXCEPT !.group[offset + 1] = val] = [clean EXCEPT !.group = seq]
      BY <3>2
    <3> HIDE DEF seq
    <3>4. [clean EXCEPT !.group = seq] = h
      BY <1>4
    <3> QED BY <3>1, <3>3, <3>4
  <2>2. offset + 1 \in 1..Len(g.group)
    BY <1>1, <1>2, <1>5
  <2> HIDE DEF offset
  <2>3. seq \in Seq(Value) /\ Len(seq) = n
        /\ \A j \in 1..n : seq[j] = IF j = offset + 1 THEN val ELSE g.group[j]
    BY <1>1, <2>2, ExceptSeq
  <2> HIDE DEF seq
  <2>4. Packed(h)
    BY <1>1, <1>3, <2>3 DEF Packed, GroupType
  <2>5. ValueAt(h, i) = val
    BY <1>1, <2>2, <2>3 DEF ValueAt, offset
  <2>6. ASSUME NEW j \in g.bitmap \ {i}
        PROVE  ValueAt(h, j) = ValueAt(g, j)
    <3> DEFINE k == pos_to_offset(g.bitmap, j)
    <3>1. k \in 0..(n - 1)
      BY PackedFacts
    <3>2. k # offset
      BY <1>1, <1>5, RankInjective DEF offset
    <3>3. ValueAt(h, j) = seq[k + 1] /\ ValueAt(g, j) = g.group[k + 1]
      BY DEF ValueAt
    <3> HIDE DEF k, h
    <3>4. k + 1 \in 1..n /\ k + 1 # offset + 1
      BY <1>1, <1>2, <3>1, <3>2, <2>2
    <3> QED BY <2>3, <3>3, <3>4
  <2>7. h.bitmap = g.bitmap \cup {i} /\ h.bm_erased = g.bm_erased \ {i}
    BY <1>5
  <2> HIDE DEF h
  <2> QED BY <2>1, <2>4, <2>5, <2>6, <2>7 DEF Filled
<1>6. CASE i \notin g.bitmap
  <2> DEFINE seq == InsertAt(g.group, offset + 1, val)
             bits == g.bitmap \cup {i}
             h == [group |-> seq, bitmap |-> bits, bm_erased |-> g.bm_erased \ {i},
                   num_buckets |-> n + 1, num_allocated |-> sizing(n + 1),
                   capacity |-> sizing(n + 1)]
  <2>1. n \in 0..(GROUP_SIZE - 1)
    <3>1. n < GROUP_SIZE /\ GROUP_SIZE \in Nat
      BY <1>1, <1>6, BitmapFinite, GroupSizeAssumption
    <3> QED BY <1>1, <3>1
  <2>2. sizing(n + 1) \in Nat /\ (n # sizing(n) => sizing(n + 1) = sizing(n))
    <3>1. n + 1 \in 0..GROUP_SIZE
      BY <2>1, GroupSizeAssumption
    <3> QED BY <2>1, <3>1, SizingFits
  <2>3. set_in_group(g, i, val) = h
    <3> DEFINE room == IF n = sizing(n) THEN reallocate(clean, sizing(n + 1)) ELSE clean
    <3>1. clean.num_buckets = n
      BY <1>4
    <3>2. set_in_group(g, i, val)
            = [[room EXCEPT !.group = InsertAt(@, offset + 1, val)]
                 EXCEPT !.num_buckets = @ + 1, !.bitmap = @ \cup {i}]
      BY <1>6, <3>1 DEF set_in_group, set_aux
    <3>3. room = [group |-> g.group, bitmap |-> g.bitmap, bm_erased |-> g.bm_erased \ {i},
                  num_buckets |-> n, num_allocated |-> sizing(n + 1),
                  capacity |-> sizing(n + 1)]
      <4>1. CASE n = sizing(n)
        <5>1. room = reallocate(clean, sizing(n + 1))
          BY <4>1
        <5> HIDE DEF room, clean
        <5> QED BY <1>4, <5>1 DEF reallocate
      <4>2. CASE n # sizing(n)
        BY <1>4, <2>2, <4>2
      <4> QED BY <4>1, <4>2
    <3> HIDE DEF room, offset
    <3> QED BY <3>2, <3>3
  <2>4. offset + 1 \in 1..(Len(g.group) + 1)
    BY <1>1, <1>2
  <2> HIDE DEF offset
  <2>5. seq \in Seq(Value) /\ Len(seq) = n + 1
        /\ \A j \in 1..(n + 1) : seq[j] = IF j < offset + 1 THEN g.group[j]
                                          ELSE IF j = offset + 1 THEN val
                                          ELSE g.group[j - 1]
    <3> DEFINE gg == g.group
               k == offset + 1
    <3>1. gg \in Seq(Value) /\ Len(gg) = n /\ k \in 1..(Len(gg) + 1) /\ val \in Value
      BY <1>1, <2>4
    <3>2. seq = InsertAt(gg, k, val)
      OBVIOUS
    <3> HIDE DEF gg, k, seq
    <3>3. /\ seq \in Seq(Value) /\ Len(seq) = Len(gg) + 1
          /\ \A j \in 1..(Len(gg) + 1) :
               seq[j] = IF j < k THEN gg[j] ELSE IF j = k THEN val ELSE gg[j - 1]
      BY <3>1, <3>2, InsertedAt
    <3>4. /\ seq \in Seq(Value) /\ Len(seq) = n + 1
          /\ \A j \in 1..(n + 1) :
               seq[j] = IF j < k THEN gg[j] ELSE IF j = k THEN val ELSE gg[j - 1]
      BY <3>1, <3>3
    <3> QED BY <3>4 DEF gg, k
  <2> HIDE DEF seq
  <2>6. bits \in SUBSET Buckets /\ Cardinality(bits) = n + 1
    BY <1>1, <1>6, FS_AddElement
  <2>7. Packed(h)
    BY <1>1, <1>3, <2>1, <2>2, <2>5, <2>6 DEF Packed, GroupType
  <2>8. ValueAt(h, i) = val
    <3>1. pos_to_offset(bits, i) = offset
      BY <1>1, <1>2, <1>6, RankAdd DEF offset
    <3>2. ValueAt(h, i) = seq[offset + 1]
      BY <3>1 DEF ValueAt
    <3> QED BY <1>1, <2>4, <2>5, <3>2
  <2>9. ASSUME NEW j \in g.bitmap \ {i}
        PROVE  ValueAt(h, j) = ValueAt(g, j)
    <3> DEFINE k == pos_to_offset(g.bitmap, j)
    <3>1. k \in 0..(n - 1) /\ j \in Nat /\ j # i
      BY <1>1, PackedFacts
    <3>2. pos_to_offset(bits, j) = k + (IF i < j THEN 1 ELSE 0)
      BY <1>1, <1>2, <1>6, <3>1, RankAdd
    <3>3. IF i < j THEN offset =< k ELSE k < offset
      <4>1. CASE i < j
        BY <1>1, <1>2, <3>1, <4>1, RankGrows DEF offset
      <4>2. CASE j < i
        BY <1>1, <1>2, <3>1, <4>2, RankGrows DEF offset
      <4> QED BY <1>2, <3>1, <4>1, <4>2
    <3>4. ValueAt(h, j) = seq[pos_to_offset(bits, j) + 1] /\ ValueAt(g, j) = g.group[k + 1]
      BY DEF ValueAt
    <3> HIDE DEF k, h, bits
    <3>5. CASE i < j
      <4>1. k + 2 \in 1..(n + 1) /\ ~(k + 2 < offset + 1) /\ k + 2 # offset + 1
            /\ (k + 2) - 1 = k + 1 /\ pos_to_offset(bits, j) + 1 = k + 2
        BY <1>1, <1>2, <2>4, <3>1, <3>2, <3>3, <3>5
      <4>2. \A m \in 1..(n + 1) : ~(m < offset + 1) /\ m # offset + 1
                                    => seq[m] = g.group[m - 1]
        BY <2>5
      <4>3. seq[k + 2] = g.group[(k + 2) - 1]
        BY <4>1, <4>2, Zenon
      <4> QED BY <3>4, <4>1, <4>3
    <3>6. CASE ~(i < j)
      <4>1. k + 1 \in 1..(n + 1) /\ k + 1 < offset + 1
            /\ pos_to_offset(bits, j) + 1 = k + 1
        BY <1>1, <1>2, <2>4, <3>1, <3>2, <3>3, <3>6
      <4> QED BY <2>5, <3>4, <4>1
    <3> QED BY <3>5, <3>6
  <2>10. h.bitmap = g.bitmap \cup {i} /\ h.bm_erased = g.bm_erased \ {i}
    OBVIOUS
  <2> HIDE DEF h
  <2> QED BY <2>3, <2>7, <2>8, <2>9, <2>10 DEF Filled
<1> QED BY <1>5, <1>6

\* The values behind an erased one are moved down by one.
LEMMA ErasePacks ==
  ASSUME NEW g, Packed(g), NEW i \in g.bitmap
  PROVE  Emptied(g, i, erase_pos(g, i, pos_to_offset(g.bitmap, i)))
<1> DEFINE offset == pos_to_offset(g.bitmap, i)
           n == g.num_buckets
           bits == g.bitmap \ {i}
           marks == g.bm_erased \cup {i}
<1>1. /\ g.bitmap \in SUBSET Buckets /\ g.bitmap \in SUBSET Nat
      /\ g.bm_erased \in SUBSET Buckets
      /\ IsFiniteSet(g.bitmap) /\ g.group \in Seq(Value)
      /\ n \in 0..GROUP_SIZE /\ Len(g.group) = n
      /\ n = Cardinality(g.bitmap)
  BY PackedFacts
<1>2. i \in Nat /\ i \in Buckets /\ offset \in 0..(n - 1)
  BY <1>1, PackedFacts
<1>3. g = [group |-> g.group, bitmap |-> g.bitmap, bm_erased |-> g.bm_erased,
           num_buckets |-> n, num_allocated |-> g.num_allocated,
           capacity |-> g.capacity]
      /\ g.capacity = sizing(n) /\ g.num_allocated = sizing(n)
      /\ g.bitmap \cap g.bm_erased = {}
  BY DEF Packed, GroupType
<1>4. GROUP_SIZE \in Nat /\ n \in Nat /\ n >= 1 /\ n =< GROUP_SIZE
  BY <1>1, <1>2, GroupSizeAssumption
<1>5. bits \in SUBSET Buckets /\ marks \in SUBSET Buckets /\ bits \cap marks = {}
      /\ Cardinality(bits) = n - 1 /\ IsFiniteSet(bits)
  <2>1. Cardinality(bits) = Cardinality(g.bitmap) - 1 /\ IsFiniteSet(bits)
    BY <1>1, FS_RemoveElement
  <2> QED BY <1>1, <1>2, <1>3, <2>1
<1>6. CASE n =< 1
  <2> DEFINE h == [NewGroup EXCEPT !.bm_erased = marks]
  <2>1. erase_pos(g, i, offset) = h
    BY <1>6 DEF erase_pos, clear_group, NewGroup
  <2>2. n = 1
    BY <1>4, <1>6
  <2>3. bits = {}
    BY <1>5, <2>2, FS_EmptySet
  <2>4. Packed(NewGroup) /\ NewGroup.bitmap = {}
    BY NewGroupPacked
  <2>5. h \in GroupType /\ h.bitmap = {} /\ h.bm_erased = marks
        /\ h.num_buckets = NewGroup.num_buckets /\ h.group = NewGroup.group
        /\ h.capacity = NewGroup.capacity /\ h.num_allocated = NewGroup.num_allocated
    <3> HIDE DEF marks
    <3> QED BY <1>5, <2>4 DEF Packed, GroupType, NewGroup
  <2> HIDE DEF h
  <2>6. Packed(h)
    BY <2>4, <2>5 DEF Packed
  <2> QED BY <2>1, <2>3, <2>5, <2>6 DEF Emptied
<1>7. CASE n > 1
  <2> DEFINE seq == RemoveAt(g.group, offset + 1)
             h == [group |-> seq, bitmap |-> bits, bm_erased |-> marks,
                   num_buckets |-> n - 1, num_allocated |-> sizing(n - 1),
                   capacity |-> sizing(n - 1)]
  <2>1. erase_pos(g, i, offset) = h
    <3> DEFINE fewer == group_erase(g, offset)
    <3>1. ~(n =< 1)
      BY <1>4, <1>7
    <3>2. erase_pos(g, i, offset)
            = [[fewer EXCEPT !.num_buckets = @ - 1, !.bitmap = @ \ {i}]
                 EXCEPT !.bm_erased = @ \cup {i}]
      BY <3>1 DEF erase_pos
    <3>3. fewer = [group |-> seq, bitmap |-> g.bitmap, bm_erased |-> g.bm_erased,
                   num_buckets |-> n, num_allocated |-> sizing(n - 1),
                   capacity |-> sizing(n - 1)]
      <4> DEFINE small == [g EXCEPT !.group = RemoveAt(@, offset + 1)]
      <4>1. small = [group |-> seq, bitmap |-> g.bitmap, bm_erased |-> g.bm_erased,
                     num_buckets |-> n, num_allocated |-> sizing(n),
                     capacity |-> sizing(n)]
        <5> HIDE DEF offset
        <5> QED BY <1>3
      <4>2. fewer = IF sizing(n - 1) # sizing(n) THEN reallocate(small, sizing(n - 1)) ELSE small
        BY DEF group_erase
      <4> HIDE DEF small, fewer, seq
      <4>3. CASE sizing(n - 1) # sizing(n)
        BY <4>1, <4>2, <4>3 DEF reallocate
      <4>4. CASE sizing(n - 1) = sizing(n)
        BY <4>1, <4>2, <4>4
      <4> QED BY <4>3, <4>4
    <3> HIDE DEF fewer, seq
    <3> QED BY <3>2, <3>3
  <2>2. offset + 1 \in 1..Len(g.group)
    BY <1>1, <1>2
  <2> HIDE DEF offset
  <2>3. seq \in Seq(Value) /\ Len(seq) = n - 1
        /\ \A j \in 1..(n - 1) : seq[j] = IF j < offset + 1 THEN g.group[j] ELSE g.group[j + 1]
    BY <1>1, <2>2, RemovedAt
  <2> HIDE DEF seq
  <2>4. Packed(h)
    <3>1. n - 1 \in 0..GROUP_SIZE
      BY <1>4, <1>7
    <3>2. sizing(n - 1) \in Nat
      BY <3>1, SizingFits
    <3> HIDE DEF bits, marks
    <3> QED BY <1>4, <1>5, <2>3, <3>2 DEF Packed, GroupType
  <2>5. ASSUME NEW j \in bits
        PROVE  ValueAt(h, j) = ValueAt(g, j)
    <3> DEFINE k == pos_to_offset(g.bitmap, j)
               m == pos_to_offset(bits, j)
    <3>1. k \in 0..(n - 1) /\ j \in Nat /\ j # i /\ j \in g.bitmap
      BY <1>1, PackedFacts
    <3>2. k = m + (IF i < j THEN 1 ELSE 0)
      BY <1>1, <3>1, RankRemove
    <3>3. m \in Nat
      <4>1. bits \in SUBSET Nat
        BY <1>1
      <4> HIDE DEF bits
      <4> QED BY <1>5, <3>1, <4>1, RankBounds
    <3>4. IF i < j THEN offset < k ELSE k < offset
      <4>1. CASE i < j
        BY <1>1, <1>2, <3>1, <4>1, RankGrows DEF offset
      <4>2. CASE j < i
        BY <1>1, <1>2, <3>1, <4>2, RankGrows DEF offset
      <4> QED BY <1>2, <3>1, <4>1, <4>2
    <3>5. ValueAt(h, j) = seq[m + 1] /\ ValueAt(g, j) = g.group[k + 1]
      BY DEF ValueAt
    <3> HIDE DEF k, m, h, bits
    <3>6. CASE i < j
      <4>1. m + 1 \in 1..(n - 1) /\ ~(m + 1 < offset + 1) /\ m + 1 + 1 = k + 1
        BY <1>1, <1>2, <2>2, <3>1, <3>2, <3>3, <3>4, <3>6
      <4>2. \A l \in 1..(n - 1) : ~(l < offset + 1) => seq[l] = g.group[l + 1]
        BY <2>3
      <4>3. seq[m + 1] = g.group[m + 1 + 1]
        BY <4>1, <4>2, Zenon
      <4> QED BY <3>5, <4>1, <4>3
    <3>7. CASE ~(i < j)
      <4>1. m + 1 \in 1..(n - 1) /\ m + 1 < offset + 1 /\ m + 1 = k + 1
        BY <1>1, <1>2, <2>2, <3>1, <3>2, <3>3, <3>4, <3>7
      <4>2. \A l \in 1..(n - 1) : l < offset + 1 => seq[l] = g.group[l]
        BY <2>3
      <4>3. seq[m + 1] = g.group[m + 1]
        BY <4>1, <4>2, Zenon
      <4> QED BY <3>5, <4>1, <4>3
    <3> QED BY <3>6, <3>7
  <2>6. h.bitmap = g.bitmap \ {i} /\ h.bm_erased = g.bm_erased \cup {i}
    OBVIOUS
  <2> HIDE DEF h
  <2> QED BY <2>1, <2>4, <2>5, <2>6 DEF Emptied, offset
<1> QED BY <1>4, <1>6, <1>7

\* A group whose bitmap was read, before its values are.
LEMMA ReadPacks ==
  ASSUME NEW bits \in SUBSET Buckets
  PROVE  LET g == read_group_metadata(bits, Raw)
         IN  Packed(g) /\ g.bitmap = bits /\ g.bm_erased = {}
<1> DEFINE n == Cardinality(bits)
           g == read_group_metadata(bits, Raw)
           sized == [NewGroup EXCEPT !.bitmap = bits, !.num_buckets = n]
<1>1. n \in 0..GROUP_SIZE
  BY BitmapFinite
<1>2. sizing(n) \in Nat /\ n \in Nat
  BY <1>1, SizingFits
<1>3. /\ NewGroup \in GroupType /\ NewGroup.group = <<>> /\ NewGroup.bm_erased = {}
      /\ NewGroup.capacity = 0 /\ NewGroup.num_allocated = 0
  BY NewGroupPacked DEF Packed, NewGroup
<1> HIDE DEF n
<1>4. /\ sized \in GroupType /\ sized.bitmap = bits /\ sized.num_buckets = n
      /\ sized.group = <<>> /\ sized.bm_erased = {}
      /\ sized.capacity = 0 /\ sized.num_allocated = 0
  BY <1>2, <1>3 DEF GroupType
<1>5. g = IF n = 0 THEN sized ELSE [allocate_group(sized, n) EXCEPT !.group = [m \in 1..n |-> Raw]]
  BY DEF read_group_metadata, n
<1> HIDE DEF sized, g
<1>6. CASE n = 0
  <2>1. sizing(0) = 0 /\ Len(<<>>) = 0
    BY SizingFits
  <2>2. Packed(g)
    BY <1>4, <1>5, <1>6, <2>1 DEF Packed, n
  <2> QED BY <1>4, <1>5, <1>6, <2>2 DEF g
<1>7. CASE n # 0
  <2> DEFINE seq == [m \in 1..n |-> Raw]
             alloc == allocate_group(sized, n)
  <2>1. g = [alloc EXCEPT !.group = seq]
    BY <1>5, <1>7
  <2>2. seq \in Seq(Value) /\ Len(seq) = n
    <3>1. \A m \in 1..n : Raw \in Value
      BY DEF Value
    <3> QED BY <1>2, <3>1
  <2> HIDE DEF seq
  <2>3. /\ alloc \in GroupType /\ alloc.bitmap = bits /\ alloc.num_buckets = n
        /\ alloc.bm_erased = {}
        /\ alloc.capacity = sizing(n) /\ alloc.num_allocated = sizing(n)
    BY <1>2, <1>4 DEF GroupType, allocate_group
  <2> HIDE DEF alloc
  <2>4. /\ g \in GroupType /\ g.bitmap = bits /\ g.num_buckets = n /\ g.bm_erased = {}
        /\ g.capacity = sizing(n) /\ g.num_allocated = sizing(n) /\ g.group = seq
    BY <2>1, <2>2, <2>3 DEF GroupType
  <2>5. g.num_buckets = Cardinality(g.bitmap)
    BY <2>4 DEF n
  <2>6. Packed(g)
    BY <2>2, <2>4, <2>5 DEF Packed
  <2> QED BY <2>4, <2>6 DEF g
<1> QED BY <1>6, <1>7

-----------------------------------------------------------------------------
(* Tables                                                                  *)

TableType == [groups : Seq(GroupType), table_size : Nat, num_buckets : Nat]

\* The full buckets of a table.
Full(t) == {b \in Probes(t) : test(t, b)}

\* A table of packed groups, none of which goes beyond the last bucket.
Shaped(t) ==
  /\ t \in TableType
  /\ Len(t.groups) = num_groups(t.table_size)
  /\ \A r \in 1..Len(t.groups) :
       /\ Packed(t.groups[r])
       /\ \A i \in t.groups[r].bitmap \cup t.groups[r].bm_erased :
            (r - 1) * GROUP_SIZE + i < t.table_size
  /\ t.num_buckets = Cardinality(Full(t))

\* A bucket is in the group and at the position the division gives.
LEMMA Coordinates ==
  ASSUME NEW b \in Nat
  PROVE  /\ group_num(b) \in Nat /\ pos_in_group(b) \in Buckets
         /\ b = group_num(b) * GROUP_SIZE + pos_in_group(b)
<1>1. GROUP_SIZE \in {8, 16, 32, 64}
  BY GroupSizeAssumption
<1>2. CASE GROUP_SIZE = 8
  BY <1>2 DEF group_num, pos_in_group, Buckets
<1>3. CASE GROUP_SIZE = 16
  BY <1>3 DEF group_num, pos_in_group, Buckets
<1>4. CASE GROUP_SIZE = 32
  BY <1>4 DEF group_num, pos_in_group, Buckets
<1>5. CASE GROUP_SIZE = 64
  BY <1>5 DEF group_num, pos_in_group, Buckets
<1> QED BY <1>1, <1>2, <1>3, <1>4, <1>5

LEMMA CoordinatesBack ==
  ASSUME NEW r \in Nat, NEW i \in Buckets
  PROVE  /\ r * GROUP_SIZE + i \in Nat
         /\ group_num(r * GROUP_SIZE + i) = r
         /\ pos_in_group(r * GROUP_SIZE + i) = i
<1>1. GROUP_SIZE \in {8, 16, 32, 64}
  BY GroupSizeAssumption
<1>2. CASE GROUP_SIZE = 8
  BY <1>2 DEF group_num, pos_in_group, Buckets
<1>3. CASE GROUP_SIZE = 16
  BY <1>3 DEF group_num, pos_in_group, Buckets
<1>4. CASE GROUP_SIZE = 32
  BY <1>4 DEF group_num, pos_in_group, Buckets
<1>5. CASE GROUP_SIZE = 64
  BY <1>5 DEF group_num, pos_in_group, Buckets
<1> QED BY <1>1, <1>2, <1>3, <1>4, <1>5

LEMMA GroupsReach ==
  ASSUME NEW sz \in Nat
  PROVE  /\ num_groups(sz) \in Nat
         /\ \A b \in 0..(sz - 1) : group_num(b) + 1 \in 1..num_groups(sz)
<1>1. GROUP_SIZE \in {8, 16, 32, 64}
  BY GroupSizeAssumption
<1>2. CASE GROUP_SIZE = 8
  BY <1>2 DEF group_num, num_groups
<1>3. CASE GROUP_SIZE = 16
  BY <1>3 DEF group_num, num_groups
<1>4. CASE GROUP_SIZE = 32
  BY <1>4 DEF group_num, num_groups
<1>5. CASE GROUP_SIZE = 64
  BY <1>5 DEF group_num, num_groups
<1> QED BY <1>1, <1>2, <1>3, <1>4, <1>5

\* What holds of the bucket b of a table, in terms of its group.
LEMMA BucketFacts ==
  ASSUME NEW t, Shaped(t), NEW b \in Probes(t)
  PROVE  /\ t.table_size \in Nat /\ b \in Nat
         /\ group_num(b) + 1 \in 1..Len(t.groups)
         /\ pos_in_group(b) \in Buckets
         /\ Packed(which_group(t, b))
         /\ which_group(t, b) = t.groups[group_num(b) + 1]
         /\ b \in Full(t) <=> pos_in_group(b) \in which_group(t, b).bitmap
         /\ b \in Marks(t) <=> pos_in_group(b) \in which_group(t, b).bm_erased
         /\ unsafe_get(t, b) = ValueAt(which_group(t, b), pos_in_group(b))
<1>1. t.table_size \in Nat /\ b \in 0..(t.table_size - 1) /\ b \in Nat
  BY DEF Shaped, TableType, Probes
<1>2. group_num(b) + 1 \in 1..Len(t.groups) /\ pos_in_group(b) \in Buckets
  BY <1>1, GroupsReach, Coordinates DEF Shaped
<1>3. Packed(which_group(t, b))
  BY <1>2 DEF Shaped, which_group
<1>4. b \in Full(t) <=> pos_in_group(b) \in which_group(t, b).bitmap
  BY DEF Full, test
<1>5. b \in Marks(t) <=> pos_in_group(b) \in which_group(t, b).bm_erased
  BY <1>3 DEF Marks, test, test_strict, Packed
<1>6. unsafe_get(t, b) = ValueAt(which_group(t, b), pos_in_group(b))
  BY DEF unsafe_get, ValueAt
<1> QED BY <1>1, <1>2, <1>3, <1>4, <1>5, <1>6 DEF which_group

\* A full or erased bucket of a group is one of the table.
LEMMA BucketOfGroup ==
  ASSUME NEW t, Shaped(t), NEW r \in 1..Len(t.groups),
         NEW i \in t.groups[r].bitmap \cup t.groups[r].bm_erased
  PROVE  LET b == (r - 1) * GROUP_SIZE + i
         IN  /\ b \in Probes(t) /\ group_num(b) + 1 = r /\ pos_in_group(b) = i
             /\ which_group(t, b) = t.groups[r]
<1> DEFINE b == (r - 1) * GROUP_SIZE + i
<1>1. i \in Buckets /\ r - 1 \in Nat
  <2>1. Packed(t.groups[r])
    BY DEF Shaped
  <2>2. t.groups[r].bitmap \subseteq Buckets /\ t.groups[r].bm_erased \subseteq Buckets
    BY <2>1, PackedFacts
  <2>3. r - 1 \in Nat
    OBVIOUS
  <2> QED BY <2>2, <2>3
<1>2. b \in Nat /\ group_num(b) = r - 1 /\ pos_in_group(b) = i
  BY <1>1, CoordinatesBack
<1>3. b < t.table_size /\ t.table_size \in Nat
  BY DEF Shaped, TableType
<1> HIDE DEF b
<1>4. b \in Probes(t) /\ group_num(b) + 1 = r
  BY <1>2, <1>3 DEF Probes
<1> QED BY <1>2, <1>4 DEF b, which_group

LEMMA FullFinite ==
  ASSUME NEW t, Shaped(t)
  PROVE  /\ IsFiniteSet(Full(t)) /\ IsFiniteSet(Marks(t))
         /\ Cardinality(Full(t)) \in Nat /\ Cardinality(Marks(t)) \in Nat
         /\ IsFiniteSet(Probes(t)) /\ Cardinality(Probes(t)) = t.table_size
         /\ Full(t) \subseteq Probes(t) /\ Marks(t) \subseteq Probes(t)
         /\ Full(t) \cap Marks(t) = {}
         /\ Free(t) = Probes(t) \ (Full(t) \cup Marks(t))
<1>1. t.table_size \in Nat
  BY DEF Shaped, TableType
<1>2. IsFiniteSet(Probes(t)) /\ Cardinality(Probes(t)) = t.table_size
  <2> DEFINE m == t.table_size
             k == m - 1
  <2>1. m \in Nat /\ k \in Int /\ k = m - 1 /\ 0 \in Int /\ Probes(t) = 0..k
    BY <1>1 DEF Probes
  <2> HIDE DEF m, k
  <2>2. IsFiniteSet(0..k) /\ Cardinality(0..k) = IF 0 > k THEN 0 ELSE k - 0 + 1
    BY <2>1, FS_Interval
  <2>3. Cardinality(0..k) = m
    BY <2>1, <2>2
  <2> QED BY <2>1, <2>2, <2>3 DEF m
<1>3. Full(t) \subseteq Probes(t) /\ Marks(t) \subseteq Probes(t) /\ Full(t) \cap Marks(t) = {}
  BY DEF Full, Marks
<1>4. IsFiniteSet(Full(t)) /\ IsFiniteSet(Marks(t))
  BY <1>2, <1>3, FS_Subset
<1>5. Cardinality(Full(t)) \in Nat /\ Cardinality(Marks(t)) \in Nat
  BY <1>4, FS_CardinalityType
<1>6. Free(t) = Probes(t) \ (Full(t) \cup Marks(t))
  BY DEF Free, Full, Marks, test, test_strict
<1> QED BY <1>2, <1>3, <1>4, <1>5, <1>6

\* What putting a value in a bucket makes of a table, and taking one out.
Put(t, i, val, u) ==
  /\ Shaped(u) /\ u.table_size = t.table_size
  /\ Full(u) = Full(t) \cup {i} /\ Marks(u) = Marks(t) \ {i}
  /\ unsafe_get(u, i) = val
  /\ \A b \in Full(t) \ {i} : unsafe_get(u, b) = unsafe_get(t, b)

Took(t, i, u) ==
  /\ Shaped(u) /\ u.table_size = t.table_size
  /\ Full(u) = Full(t) \ {i} /\ Marks(u) = Marks(t) \cup {i}
  /\ \A b \in Full(u) : unsafe_get(u, b) = unsafe_get(t, b)

\* The table with one group replaced by another.
WithGroup(t, i, h, n) ==
  [groups |-> [t.groups EXCEPT ![group_num(i) + 1] = h],
   table_size |-> t.table_size, num_buckets |-> n]

\* The group h differs from the one of bucket i in that bucket only.
DiffersAt(g, p, h) ==
  /\ Packed(h)
  /\ h.bitmap \ {p} = g.bitmap \ {p} /\ h.bm_erased \ {p} = g.bm_erased \ {p}
  /\ \A j \in h.bitmap \ {p} : ValueAt(h, j) = ValueAt(g, j)

LEMMA GroupReplaced ==
  ASSUME NEW t, Shaped(t), NEW i \in Probes(t), NEW h, NEW n \in Nat,
         DiffersAt(which_group(t, i), pos_in_group(i), h),
         n = Cardinality(Full(WithGroup(t, i, h, n)))
  PROVE  LET u == WithGroup(t, i, h, n)
         IN  /\ Shaped(u) /\ Probes(u) = Probes(t)
             /\ Full(u) \ {i} = Full(t) \ {i} /\ Marks(u) \ {i} = Marks(t) \ {i}
             /\ i \in Full(u) <=> pos_in_group(i) \in h.bitmap
             /\ i \in Marks(u) <=> pos_in_group(i) \in h.bm_erased
             /\ unsafe_get(u, i) = ValueAt(h, pos_in_group(i))
             /\ \A b \in Full(u) \ {i} : unsafe_get(u, b) = unsafe_get(t, b)
<1> DEFINE u == WithGroup(t, i, h, n)
           r == group_num(i) + 1
           p == pos_in_group(i)
           g == which_group(t, i)
<1>1. /\ t.table_size \in Nat /\ i \in Nat /\ r \in 1..Len(t.groups) /\ p \in Buckets
      /\ g = t.groups[r] /\ Packed(g) /\ group_num(i) \in Nat
  BY BucketFacts, Coordinates
<1>2. Packed(h) /\ h \in GroupType
  BY DEF DiffersAt, Packed
<1>3. t.groups \in Seq(GroupType) /\ Len(t.groups) = num_groups(t.table_size)
  BY DEF Shaped, TableType
<1>4. /\ u.groups \in Seq(GroupType) /\ Len(u.groups) = Len(t.groups)
      /\ u.table_size = t.table_size /\ u.num_buckets = n /\ u \in TableType
      /\ \A s \in 1..Len(t.groups) : u.groups[s] = IF s = r THEN h ELSE t.groups[s]
  <2>1. /\ u.groups = [t.groups EXCEPT ![r] = h] /\ u.table_size = t.table_size
        /\ u.num_buckets = n
        /\ u = [groups |-> u.groups, table_size |-> t.table_size, num_buckets |-> n]
    BY DEF WithGroup
  <2> HIDE DEF u, r
  <2>2. /\ u.groups \in Seq(GroupType) /\ Len(u.groups) = Len(t.groups)
        /\ \A s \in 1..Len(t.groups) : u.groups[s] = IF s = r THEN h ELSE t.groups[s]
    BY <1>1, <1>2, <1>3, <2>1, ExceptSeq
  <2> QED BY <1>1, <2>1, <2>2 DEF TableType
<1>5. Probes(u) = Probes(t)
  BY <1>4 DEF Probes
<1> HIDE DEF u
<1>6. \A b \in Probes(t) : b # i /\ group_num(b) + 1 = r => pos_in_group(b) # p
  <2> TAKE b \in Probes(t)
  <2>1. b \in Nat
    BY BucketFacts
  <2>2. group_num(b) \in Nat /\ b = group_num(b) * GROUP_SIZE + pos_in_group(b)
        /\ i = group_num(i) * GROUP_SIZE + p
    BY <1>1, <2>1, Coordinates
  <2> QED BY <1>1, <2>2
<1>7. \A s \in 1..Len(u.groups) :
        /\ Packed(u.groups[s])
        /\ \A j \in u.groups[s].bitmap \cup u.groups[s].bm_erased :
             (s - 1) * GROUP_SIZE + j < u.table_size
  <2> TAKE s \in 1..Len(u.groups)
  <2>1. s \in 1..Len(t.groups) /\ u.table_size = t.table_size
    BY <1>4
  <2>2. CASE s = r
    <3>1. u.groups[s] = h
      BY <1>4, <2>1, <2>2
    <3>2. ASSUME NEW j \in h.bitmap \cup h.bm_erased
          PROVE  (r - 1) * GROUP_SIZE + j < t.table_size
      <4>1. CASE j = p
        <5>1. (r - 1) * GROUP_SIZE + j = i
          BY <1>1, <4>1, Coordinates
        <5> QED BY <1>1, <5>1 DEF Probes
      <4>2. CASE j # p
        <5>1. j \in g.bitmap \cup g.bm_erased
          BY <4>2 DEF DiffersAt
        <5> QED BY <1>1, <5>1 DEF Shaped
      <4> QED BY <4>1, <4>2
    <3> QED BY <1>2, <2>1, <2>2, <3>1, <3>2
  <2>3. CASE s # r
    <3>1. u.groups[s] = t.groups[s]
      BY <1>4, <2>1, <2>3
    <3> QED BY <2>1, <3>1 DEF Shaped
  <2> QED BY <2>2, <2>3
<1>8. Shaped(u)
  BY <1>3, <1>4, <1>7 DEF Shaped, u
<1>9. ASSUME NEW b \in Probes(t), b # i
      PROVE  /\ b \in Full(u) <=> b \in Full(t)
             /\ b \in Marks(u) <=> b \in Marks(t)
             /\ b \in Full(u) => unsafe_get(u, b) = unsafe_get(t, b)
  <2> DEFINE q == pos_in_group(b)
  <2>1. /\ b \in Full(u) <=> q \in which_group(u, b).bitmap
        /\ b \in Marks(u) <=> q \in which_group(u, b).bm_erased
        /\ unsafe_get(u, b) = ValueAt(which_group(u, b), q)
        /\ which_group(u, b) = u.groups[group_num(b) + 1]
    BY <1>5, <1>8, BucketFacts
  <2>2. /\ b \in Full(t) <=> q \in which_group(t, b).bitmap
        /\ b \in Marks(t) <=> q \in which_group(t, b).bm_erased
        /\ unsafe_get(t, b) = ValueAt(which_group(t, b), q)
        /\ which_group(t, b) = t.groups[group_num(b) + 1]
        /\ group_num(b) + 1 \in 1..Len(t.groups)
    BY BucketFacts
  <2>3. CASE group_num(b) + 1 = r
    <3>1. q # p
      BY <1>6, <1>9, <2>3
    <3>2. which_group(u, b) = h /\ which_group(t, b) = g
      BY <1>1, <1>4, <2>1, <2>2, <2>3
    <3>3. (q \in h.bitmap <=> q \in g.bitmap) /\ (q \in h.bm_erased <=> q \in g.bm_erased)
          /\ (q \in h.bitmap => ValueAt(h, q) = ValueAt(g, q))
      BY <3>1 DEF DiffersAt
    <3> QED BY <2>1, <2>2, <3>2, <3>3
  <2>4. CASE group_num(b) + 1 # r
    <3>1. which_group(u, b) = which_group(t, b)
      BY <1>4, <2>1, <2>2, <2>4
    <3> QED BY <2>1, <2>2, <3>1
  <2> QED BY <2>3, <2>4
<1>10. /\ i \in Full(u) <=> p \in h.bitmap
       /\ i \in Marks(u) <=> p \in h.bm_erased
       /\ unsafe_get(u, i) = ValueAt(h, p)
  <2>1. which_group(u, i) = h
    BY <1>1, <1>4 DEF which_group
  <2> QED BY <1>5, <1>8, <2>1, BucketFacts
<1>11. Full(u) \subseteq Probes(t) /\ Marks(u) \subseteq Probes(t)
       /\ Full(t) \subseteq Probes(t) /\ Marks(t) \subseteq Probes(t)
  BY <1>5, <1>8, FullFinite
<1> HIDE DEF r, p, g
<1>12. Full(u) \ {i} = Full(t) \ {i} /\ Marks(u) \ {i} = Marks(t) \ {i}
  BY <1>9, <1>11
<1>13. \A b \in Full(u) \ {i} : unsafe_get(u, b) = unsafe_get(t, b)
  BY <1>9, <1>11
<1> QED BY <1>5, <1>8, <1>10, <1>12, <1>13 DEF u, p

\* set and move are insertions, erase_bucket and erase_at removals.
LEMMA SetPuts ==
  ASSUME NEW t, Shaped(t), NEW i \in Probes(t), NEW val \in Value
  PROVE  /\ Put(t, i, val, set(t, i, val))
         /\ i \notin Full(t) => move(t, i, val) = set(t, i, val)
<1> DEFINE p == pos_in_group(i)
           r == group_num(i) + 1
           g == which_group(t, i)
           h == set_in_group(g, p, val)
           n == t.num_buckets + h.num_buckets - g.num_buckets
           u == WithGroup(t, i, h, n)
<1>1. /\ t.table_size \in Nat /\ r \in 1..Len(t.groups) /\ p \in Buckets
      /\ g = t.groups[r] /\ Packed(g)
      /\ i \in Full(t) <=> p \in g.bitmap
      /\ i \in Marks(t) <=> p \in g.bm_erased
  BY BucketFacts
<1>2. t = [groups |-> t.groups, table_size |-> t.table_size, num_buckets |-> t.num_buckets]
      /\ t.num_buckets \in Nat /\ t.num_buckets = Cardinality(Full(t))
      /\ t.groups \in Seq(GroupType)
  BY DEF Shaped, TableType
<1>3. set(t, i, val) = u
  <2> DEFINE gained == h.num_buckets - g.num_buckets
  <2>1. set(t, i, val) = [t EXCEPT !.groups[r] = h, !.num_buckets = @ + gained]
    BY <1>1 DEF set
  <2>2. n = t.num_buckets + gained
    OBVIOUS
  <2> HIDE DEF r, g, h, n, gained
  <2> QED BY <1>2, <2>1, <2>2 DEF WithGroup, r
<1>4. Filled(g, p, val, h)
  BY <1>1, SetPacks
<1> HIDE DEF h
<1>5. DiffersAt(g, p, h)
  BY <1>4 DEF Filled, DiffersAt
<1>6. g.num_buckets = Cardinality(g.bitmap) /\ h.num_buckets = Cardinality(h.bitmap)
      /\ h.bitmap = g.bitmap \cup {p} /\ IsFiniteSet(g.bitmap)
      /\ g.num_buckets \in Nat
  <2>1. IsFiniteSet(g.bitmap)
    BY <1>1, PackedFacts
  <2> HIDE DEF g, p
  <2> QED BY <1>1, <1>4, <2>1 DEF Filled, Packed, GroupType
<1>7. h.num_buckets = IF p \in g.bitmap THEN g.num_buckets ELSE g.num_buckets + 1
  BY <1>6, FS_AddElement
<1>8. n = IF i \in Full(t) THEN t.num_buckets ELSE t.num_buckets + 1
  <2> HIDE DEF g, p
  <2> QED BY <1>1, <1>2, <1>6, <1>7
<1> HIDE DEF n
<1>9. n \in Nat
  BY <1>2, <1>8
<1>10. Full(u) = Full(t) \cup {i}
  <2>1. ASSUME NEW b
        PROVE  b \in Full(u) <=> b \in Full(t) \cup {i}
    <3> DEFINE q == pos_in_group(b)
    <3>1. /\ u.table_size = t.table_size
          /\ u.groups = [t.groups EXCEPT ![r] = h]
      BY DEF WithGroup
    <3>2. Probes(u) = Probes(t)
      BY <3>1 DEF Probes
    <3>3. CASE b \notin Probes(t)
      BY <3>2, <3>3 DEF Full
    <3>4. CASE b \in Probes(t) /\ group_num(b) + 1 # r
      <4>1. which_group(u, b) = which_group(t, b) /\ b # i
        <5>1. group_num(b) + 1 \in 1..Len(t.groups)
          BY <3>4, BucketFacts
        <5> HIDE DEF u
        <5> QED BY <1>2, <3>1, <3>4, <5>1 DEF which_group
      <4> QED BY <3>2, <3>4, <4>1 DEF Full, test
    <3>5. CASE b \in Probes(t) /\ group_num(b) + 1 = r
      <4>1. which_group(u, b) = h /\ which_group(t, b) = g
        BY <1>1, <1>2, <3>1, <3>5 DEF which_group
      <4>2. q = p <=> b = i
        <5>1. b \in Nat /\ i \in Nat
          BY <3>5, BucketFacts
        <5>2. group_num(b) \in Nat /\ b = group_num(b) * GROUP_SIZE + q
          BY <5>1, Coordinates
        <5>3. group_num(i) \in Nat /\ i = group_num(i) * GROUP_SIZE + p
          BY <5>1, Coordinates
        <5>4. group_num(b) = group_num(i)
          BY <3>5, <5>2, <5>3
        <5> QED BY <5>2, <5>3, <5>4
      <4> HIDE DEF u, g, h
      <4> QED BY <1>6, <3>2, <3>5, <4>1, <4>2 DEF Full, test
    <3> QED BY <3>3, <3>4, <3>5
  <2> QED BY <2>1
<1>11. n = Cardinality(Full(u))
  <2>1. IsFiniteSet(Full(t))
    BY FullFinite
  <2> HIDE DEF u
  <2> QED BY <1>2, <1>8, <1>10, <2>1, FS_AddElement
<1>12. /\ Shaped(u) /\ Probes(u) = Probes(t)
       /\ Marks(u) \ {i} = Marks(t) \ {i}
       /\ i \in Marks(u) <=> p \in h.bm_erased
       /\ unsafe_get(u, i) = ValueAt(h, p)
       /\ \A b \in Full(u) \ {i} : unsafe_get(u, b) = unsafe_get(t, b)
  BY <1>5, <1>9, <1>11, GroupReplaced
<1>13. u.table_size = t.table_size
  BY DEF WithGroup
<1>14. p \notin h.bm_erased /\ ValueAt(h, p) = val
  BY <1>4 DEF Filled
<1>15. Put(t, i, val, u)
  <2> HIDE DEF u, p
  <2> QED BY <1>10, <1>12, <1>13, <1>14 DEF Put
<1>16. ASSUME i \notin Full(t)
       PROVE  move(t, i, val) = u
  <2>1. n = t.num_buckets + 1
    BY <1>8, <1>16
  <2>2. move(t, i, val) = [t EXCEPT !.groups[r] = h, !.num_buckets = @ + 1]
    BY <1>1, <1>2 DEF move, h
  <2> HIDE DEF r, g
  <2> QED BY <1>2, <2>1, <2>2 DEF WithGroup, r
<1> QED BY <1>3, <1>15, <1>16

LEMMA EraseTakes ==
  ASSUME NEW t, Shaped(t), NEW i \in Full(t)
  PROVE  Took(t, i, erase_bucket(t, i))
<1> DEFINE p == pos_in_group(i)
           r == group_num(i) + 1
           g == which_group(t, i)
           h == erase_in_group(g, p)
           n == t.num_buckets - 1
           u == WithGroup(t, i, h, n)
<1>0. i \in Probes(t)
  BY DEF Full
<1>1. /\ t.table_size \in Nat /\ r \in 1..Len(t.groups) /\ p \in Buckets
      /\ g = t.groups[r] /\ Packed(g)
      /\ i \in Full(t) <=> p \in g.bitmap
      /\ i \in Marks(t) <=> p \in g.bm_erased
  BY <1>0, BucketFacts
<1>2. t = [groups |-> t.groups, table_size |-> t.table_size, num_buckets |-> t.num_buckets]
      /\ t.num_buckets \in Nat /\ t.num_buckets = Cardinality(Full(t))
      /\ t.groups \in Seq(GroupType)
  BY DEF Shaped, TableType
<1>3. erase_bucket(t, i) = u
  <2>1. erase_bucket(t, i) = [t EXCEPT !.groups[r] = h, !.num_buckets = @ - 1]
    BY <1>1, <1>2 DEF erase_bucket
  <2> HIDE DEF r, g, h
  <2> QED BY <1>2, <2>1 DEF WithGroup, r
<1>4. Emptied(g, p, h)
  BY <1>1, ErasePacks DEF erase_in_group
<1> HIDE DEF h
<1>5. DiffersAt(g, p, h)
  BY <1>4 DEF Emptied, DiffersAt
<1>10. Full(u) = Full(t) \ {i}
  <2>1. ASSUME NEW b
        PROVE  b \in Full(u) <=> b \in Full(t) \ {i}
    <3> DEFINE q == pos_in_group(b)
    <3>1. /\ u.table_size = t.table_size
          /\ u.groups = [t.groups EXCEPT ![r] = h]
      BY DEF WithGroup
    <3>2. Probes(u) = Probes(t)
      BY <3>1 DEF Probes
    <3>3. CASE b \notin Probes(t)
      BY <3>2, <3>3 DEF Full
    <3>4. CASE b \in Probes(t) /\ group_num(b) + 1 # r
      <4>1. which_group(u, b) = which_group(t, b) /\ b # i
        <5>1. group_num(b) + 1 \in 1..Len(t.groups)
          BY <3>4, BucketFacts
        <5> HIDE DEF u
        <5> QED BY <1>2, <3>1, <3>4, <5>1 DEF which_group
      <4> QED BY <3>2, <3>4, <4>1 DEF Full, test
    <3>5. CASE b \in Probes(t) /\ group_num(b) + 1 = r
      <4>1. which_group(u, b) = h /\ which_group(t, b) = g
        BY <1>1, <1>2, <3>1, <3>5 DEF which_group
      <4>2. q = p <=> b = i
        <5>1. b \in Nat /\ i \in Nat
          BY <1>0, <3>5, BucketFacts
        <5>2. group_num(b) \in Nat /\ b = group_num(b) * GROUP_SIZE + q
          BY <5>1, Coordinates
        <5>3. group_num(i) \in Nat /\ i = group_num(i) * GROUP_SIZE + p
          BY <5>1, Coordinates
        <5>4. group_num(b) = group_num(i)
          BY <3>5, <5>2, <5>3
        <5> QED BY <5>2, <5>3, <5>4
      <4>3. h.bitmap = g.bitmap \ {p}
        BY <1>4 DEF Emptied
      <4> HIDE DEF u, g, h
      <4> QED BY <3>2, <3>5, <4>1, <4>2, <4>3 DEF Full, test
    <3> QED BY <3>3, <3>4, <3>5
  <2> QED BY <2>1
<1>11. n = Cardinality(Full(u)) /\ n \in Nat
  <2>1. IsFiniteSet(Full(t))
    BY FullFinite
  <2> HIDE DEF u
  <2>2. Cardinality(Full(u)) = n /\ IsFiniteSet(Full(u))
    BY <1>2, <1>10, <2>1, FS_RemoveElement
  <2> QED BY <2>2, FS_CardinalityType
<1>12. /\ Shaped(u) /\ Probes(u) = Probes(t)
       /\ Marks(u) \ {i} = Marks(t) \ {i}
       /\ i \in Marks(u) <=> p \in h.bm_erased
       /\ \A b \in Full(u) \ {i} : unsafe_get(u, b) = unsafe_get(t, b)
  <2> HIDE DEF n
  <2> QED BY <1>0, <1>5, <1>11, GroupReplaced
<1>13. u.table_size = t.table_size
  BY DEF WithGroup
<1>14. p \in h.bm_erased
  BY <1>4 DEF Emptied
<1> HIDE DEF u, p
<1>15. Marks(u) = Marks(t) \cup {i}
  BY <1>12, <1>14
<1>16. Took(t, i, u)
  BY <1>10, <1>12, <1>13, <1>15 DEF Took
<1> QED BY <1>3, <1>16

LEMMA NewTableEmpty ==
  ASSUME NEW sz \in Nat
  PROVE  /\ Shaped(NewTable(sz)) /\ Full(NewTable(sz)) = {} /\ Marks(NewTable(sz)) = {}
         /\ NewTable(sz).table_size = sz
         /\ \A less \in Nat : resize_table(NewTable(less), sz) = NewTable(sz)
<1> DEFINE t == NewTable(sz)
<1>1. num_groups(sz) \in Nat
  BY GroupsReach
<1>2. /\ t.table_size = sz /\ t.num_buckets = 0
      /\ t.groups = [r \in 1..num_groups(sz) |-> NewGroup]
      /\ t = [groups |-> t.groups, table_size |-> sz, num_buckets |-> 0]
  BY DEF NewTable
<1>3. NewGroup \in GroupType /\ Packed(NewGroup) /\ NewGroup.bitmap = {} /\ NewGroup.bm_erased = {}
  BY NewGroupPacked DEF Packed
<1>4. t.groups \in Seq(GroupType) /\ Len(t.groups) = num_groups(sz)
  BY <1>1, <1>2, <1>3
<1>5. t \in TableType
  <2> DEFINE gs == t.groups
  <2>1. t = [groups |-> gs, table_size |-> sz, num_buckets |-> 0] /\ gs \in Seq(GroupType)
    BY <1>2, <1>4
  <2> HIDE DEF t, gs
  <2> QED BY <2>1 DEF TableType
<1> HIDE DEF t
<1>6. Full(t) = {} /\ Marks(t) = {}
  <2>1. \A b \in Probes(t) : which_group(t, b) = NewGroup
    <3> TAKE b \in Probes(t)
    <3>1. group_num(b) + 1 \in 1..num_groups(sz)
      BY <1>2, GroupsReach DEF Probes
    <3> QED BY <1>2, <3>1 DEF which_group
  <2> QED BY <1>3, <2>1 DEF Full, Marks, test, test_strict
<1>7. Shaped(t)
  BY <1>2, <1>3, <1>4, <1>5, <1>6, FS_EmptySet DEF Shaped
<1>8. ASSUME NEW less \in Nat
      PROVE  resize_table(NewTable(less), sz) = t
  <2> DEFINE o == NewTable(less)
             gs == [r \in 1..num_groups(sz) |-> IF r \in DOMAIN o.groups THEN o.groups[r] ELSE NewGroup]
  <2>1. o = [groups |-> [r \in 1..num_groups(less) |-> NewGroup], table_size |-> less, num_buckets |-> 0]
    BY DEF NewTable
  <2>2. gs = [r \in 1..num_groups(sz) |-> NewGroup]
    BY <2>1
  <2>3. resize_table(o, sz) = [groups |-> gs, table_size |-> sz, num_buckets |-> 0]
    <3>1. resize_table(o, sz) = [o EXCEPT !.table_size = sz, !.groups = gs]
      BY DEF resize_table
    <3> DEFINE og == [r \in 1..num_groups(less) |-> NewGroup]
    <3>2. o = [groups |-> og, table_size |-> less, num_buckets |-> 0]
      BY <2>1
    <3> HIDE DEF gs, o, og
    <3> QED BY <3>1, <3>2
  <2> QED BY <1>2, <2>2, <2>3
<1> QED BY <1>2, <1>6, <1>7, <1>8 DEF t

\* A table with neither values nor marks is a new one.
LEMMA CleanIsNew ==
  ASSUME NEW t, Shaped(t), Full(t) = {}, Marks(t) = {}
  PROVE  t = NewTable(t.table_size)
<1>1. t = [groups |-> t.groups, table_size |-> t.table_size, num_buckets |-> t.num_buckets]
      /\ t.num_buckets = Cardinality(Full(t)) /\ t.groups \in Seq(GroupType)
      /\ Len(t.groups) = num_groups(t.table_size)
  BY DEF Shaped, TableType
<1>2. t.num_buckets = 0
  BY <1>1, FS_EmptySet
<1>3. ASSUME NEW r \in 1..Len(t.groups)
      PROVE  t.groups[r] = NewGroup
  <2>1. Packed(t.groups[r])
    BY DEF Shaped
  <2>2. ASSUME NEW i \in t.groups[r].bitmap \cup t.groups[r].bm_erased
        PROVE  FALSE
    <3> DEFINE b == (r - 1) * GROUP_SIZE + i
    <3>1. b \in Probes(t) /\ which_group(t, b) = t.groups[r] /\ pos_in_group(b) = i
      BY BucketOfGroup
    <3> HIDE DEF b
    <3>2. b \in Full(t) \/ b \in Marks(t)
      BY <3>1, BucketFacts
    <3> QED BY <3>2
  <2>3. t.groups[r].bitmap = {} /\ t.groups[r].bm_erased = {}
    BY <2>2
  <2> QED BY <2>1, <2>3, EmptyIsNew
<1>4. t.groups = [r \in 1..num_groups(t.table_size) |-> NewGroup]
  BY <1>1, <1>3
<1> QED BY <1>1, <1>2, <1>4 DEF NewTable

-----------------------------------------------------------------------------
(* Walks                                                                   *)

\* What a sequence of sequences is when it is flattened, where off[r] is the
\* number of elements of the first r.
IsFlat(R, S, seqs, off, flat) ==
  /\ flat \in Seq(S) /\ Len(flat) = off[R]
  /\ \A r \in 1..R : \A c \in 1..Len(seqs[r]) :
       /\ off[r - 1] + c \in 1..off[R]
       /\ flat[off[r - 1] + c] = seqs[r][c]

LEMMA Flatten ==
  ASSUME NEW R \in Nat, NEW S, NEW seqs \in [1..R -> Seq(S)], NEW off \in [0..R -> Nat],
         off[0] = 0, \A r \in 1..R : off[r] = off[r - 1] + Len(seqs[r])
  PROVE  IsFlat(R, S, seqs, off, FlattenSeq(seqs))
<1> DEFINE flat == FlattenSeq(seqs)
<1>1. seqs \in Seq(Seq(S)) /\ Len(seqs) = R /\ \A r \in 1..R : seqs[r] \in Seq(S)
  OBVIOUS
<1>2. CASE R = 0
  <2>1. seqs = <<>> /\ flat = seqs
    BY <1>1, <1>2 DEF FlattenSeq
  <2> HIDE DEF flat
  <2>2. off[R] = 0 /\ flat \in Seq(S) /\ Len(flat) = 0
    BY <1>2, <2>1
  <2> QED BY <1>2, <2>2 DEF flat, IsFlat
<1>3. CASE R # 0
  <2> DEFINE Step(f) == [i \in 1..R |-> IF i = 1 THEN seqs[i] ELSE f[i - 1] \o seqs[i]]
             flatten == CHOOSE f : f = Step(f)
             G == [i \in 1..(R - 1) |-> [s \in Seq(S) |-> s \o seqs[i + 1]]]
  <2>1. flat = flatten[R]
    <3>1. Len(seqs) # 0
      BY <1>1, <1>3
    <3> QED BY <1>1, <3>1 DEF FlattenSeq
  <2>2. \E f : f = Step(f)
    <3>1. G \in [1..(R - 1) -> [Seq(S) -> Seq(S)]]
      <4>1. \A i \in 1..(R - 1) : seqs[i + 1] \in Seq(S)
        BY <1>1
      <4>2. ASSUME NEW i \in 1..(R - 1), NEW s \in Seq(S)
            PROVE  s \o seqs[i + 1] \in Seq(S)
        BY <4>1
      <4> QED BY <4>2
    <3>2. R - 1 \in Nat /\ seqs[1] \in Seq(S)
      BY <1>1, <1>3
    <3>3. PICK f \in [0..(R - 1) -> Seq(S)] :
            f[0] = seqs[1] /\ \A k \in 1..(R - 1) : f[k] = G[k][f[k - 1]]
      <4> DEFINE top == R - 1
                 first == seqs[1]
                 V == Seq(S)
      <4>1. top \in Nat /\ first \in V /\ G \in [1..top -> [V -> V]]
        BY <3>1, <3>2
      <4> HIDE DEF G, top, first, V
      <4>2. \E f \in [0..top -> V] : Solves(f, top, first, G)
        BY <4>1, StepsExist
      <4> QED BY <4>2 DEF top, first, V, Solves
    <3> DEFINE g == [i \in 1..R |-> f[i - 1]]
    <3>4. ASSUME NEW i \in 1..R
          PROVE  g[i] = IF i = 1 THEN seqs[i] ELSE g[i - 1] \o seqs[i]
      <4>1. CASE i = 1
        BY <3>3, <4>1
      <4>2. CASE i # 1
        <5>1. i - 1 \in 1..(R - 1) /\ i - 1 \in 1..R /\ (i - 1) + 1 = i /\ (i - 1) - 1 \in 0..(R - 1)
          BY <4>2
        <5>2. f[i - 1] = G[i - 1][f[(i - 1) - 1]]
          BY <3>3, <5>1
        <5>3. f[(i - 1) - 1] \in Seq(S)
          BY <5>1
        <5>4. G[i - 1][f[(i - 1) - 1]] = f[(i - 1) - 1] \o seqs[(i - 1) + 1]
          BY <5>1, <5>3
        <5> QED BY <4>2, <5>1, <5>2, <5>4
      <4> QED BY <4>1, <4>2
    <3>5. g = Step(g)
      BY <3>4
    <3> HIDE DEF g, Step
    <3> QED BY <3>5
  <2>3. flatten = Step(flatten)
    <3> HIDE DEF Step
    <3> QED BY <2>2
  <2>4. \A i \in 1..R : flatten[i] = IF i = 1 THEN seqs[i] ELSE flatten[i - 1] \o seqs[i]
    <3>1. \A i \in 1..R : flatten[i] = Step(flatten)[i]
      <4> HIDE DEF flatten, Step
      <4> QED BY <2>3
    <3> HIDE DEF flatten
    <3> QED BY <3>1
  <2> HIDE DEF flatten
  <2> DEFINE Good(i) == /\ flatten[i] \in Seq(S) /\ Len(flatten[i]) = off[i]
                        /\ \A r \in 1..i : \A c \in 1..Len(seqs[r]) :
                             off[r - 1] + c \in 1..off[i] /\ flatten[i][off[r - 1] + c] = seqs[r][c]
             T == {i \in 0..(R - 1) : Good(i + 1)}
  <2>5. Good(1)
    <3>1. 1 \in 1..R /\ seqs[1] \in Seq(S) /\ flatten[1] = seqs[1]
      BY <1>1, <1>3, <2>4
    <3>2. off[1] = Len(seqs[1])
      <4>1. off[1] = off[1 - 1] + Len(seqs[1])
        BY <3>1
      <4> QED BY <3>1, <4>1
    <3>3. ASSUME NEW r \in 1..1, NEW c \in 1..Len(seqs[r])
          PROVE  off[r - 1] + c \in 1..off[1] /\ flatten[1][off[r - 1] + c] = seqs[r][c]
      <4>1. r = 1 /\ off[r - 1] = 0 /\ off[r - 1] + c = c
        BY <3>1
      <4> QED BY <3>1, <3>2, <4>1
    <3> QED BY <3>1, <3>2, <3>3
  <2>6. ASSUME NEW i \in 2..R, Good(i - 1)
        PROVE  Good(i)
    <3>1. /\ i \in 1..R /\ i # 1 /\ i - 1 \in 1..R /\ i - 1 \in 0..R /\ i \in 0..R
          /\ seqs[i] \in Seq(S) /\ flatten[i - 1] \in Seq(S)
          /\ off[i - 1] \in Nat /\ Len(seqs[i]) \in Nat /\ Len(flatten[i - 1]) = off[i - 1]
          /\ flatten[i] = flatten[i - 1] \o seqs[i]
          /\ off[i] = off[i - 1] + Len(seqs[i])
      <4>1. i \in 1..R /\ i # 1 /\ i - 1 \in 1..R /\ i - 1 \in 0..R /\ i \in 0..R
        OBVIOUS
      <4>2. seqs[i] \in Seq(S) /\ off[i - 1] \in Nat /\ Len(seqs[i]) \in Nat
        BY <1>1, <4>1
      <4>3. flatten[i] = flatten[i - 1] \o seqs[i] /\ off[i] = off[i - 1] + Len(seqs[i])
        BY <2>4, <4>1
      <4>4. flatten[i - 1] \in Seq(S) /\ Len(flatten[i - 1]) = off[i - 1]
        BY <2>6
      <4> QED BY <4>1, <4>2, <4>3, <4>4
    <3>2. /\ flatten[i] \in Seq(S) /\ Len(flatten[i]) = off[i]
          /\ \A m \in 1..off[i] : flatten[i][m] = IF m =< off[i - 1] THEN flatten[i - 1][m]
                                                 ELSE seqs[i][m - off[i - 1]]
      <4> DEFINE s == flatten[i - 1]
                 e == seqs[i]
      <4>1. s \in Seq(S) /\ e \in Seq(S) /\ Len(s) = off[i - 1] /\ Len(e) \in Nat /\ Len(s) \in Nat
            /\ flatten[i] = s \o e /\ off[i] = Len(s) + Len(e)
        BY <3>1
      <4> HIDE DEF s, e
      <4>2. s \o e \in Seq(S) /\ Len(s \o e) = Len(s) + Len(e)
            /\ \A m \in 1..(Len(s) + Len(e)) : (s \o e)[m] = IF m =< Len(s) THEN s[m]
                                                         ELSE e[m - Len(s)]
        BY <4>1, ConcatProperties
      <4> QED BY <4>1, <4>2 DEF s, e
    <3>3. ASSUME NEW r \in 1..i, NEW c \in 1..Len(seqs[r])
          PROVE  off[r - 1] + c \in 1..off[i] /\ flatten[i][off[r - 1] + c] = seqs[r][c]
      <4>1. CASE r = i
        <5>1. off[i - 1] + c \in 1..off[i] /\ ~(off[i - 1] + c =< off[i - 1])
              /\ (off[i - 1] + c) - off[i - 1] = c
          <6> DEFINE x == off[i - 1]
                     y == Len(seqs[i])
          <6>1. c \in 1..y /\ x \in Nat /\ y \in Nat /\ off[i] = x + y
            BY <3>1, <4>1
          <6> HIDE DEF x, y
          <6>2. x + c \in 1..(x + y) /\ ~(x + c =< x) /\ (x + c) - x = c
            BY <6>1
          <6> QED BY <6>1, <6>2 DEF x
        <5>2. flatten[i][off[i - 1] + c] = seqs[i][(off[i - 1] + c) - off[i - 1]]
          BY <3>2, <5>1
        <5> QED BY <4>1, <5>1, <5>2
      <4>2. CASE r # i
        <5>1. r \in 1..(i - 1)
          BY <4>2
        <5>2. off[r - 1] + c \in 1..off[i - 1] /\ flatten[i - 1][off[r - 1] + c] = seqs[r][c]
          BY <2>6, <5>1
        <5>3. off[r - 1] + c \in 1..off[i] /\ off[r - 1] + c =< off[i - 1]
          <6> DEFINE m == off[r - 1] + c
          <6>1. m \in 1..off[i - 1]
            BY <5>2
          <6> HIDE DEF m
          <6>2. m \in 1..off[i] /\ m =< off[i - 1]
            BY <3>1, <6>1
          <6> QED BY <6>2 DEF m
        <5> QED BY <3>2, <5>2, <5>3
      <4> QED BY <4>1, <4>2
    <3> QED BY <3>2, <3>3
  <2> HIDE DEF Good
  <2>7. T = 0..(R - 1)
    <3>1. R - 1 \in Nat /\ T \in SUBSET (0..(R - 1)) /\ 0 \in T
      BY <1>3, <2>5
    <3>2. ASSUME NEW k \in 1..(R - 1), k - 1 \in T
          PROVE  k \in T
      <4>1. k + 1 \in 2..R /\ (k + 1) - 1 = (k - 1) + 1
        OBVIOUS
      <4>2. Good((k - 1) + 1)
        BY <3>2
      <4> QED BY <2>6, <4>1, <4>2
    <3> HIDE DEF T
    <3> QED BY <3>1, <3>2, UpTo
  <2>8. Good(R)
    <3>1. R - 1 \in 0..(R - 1) /\ (R - 1) + 1 = R
      BY <1>3
    <3> QED BY <2>7, <3>1
  <2> QED BY <2>1, <2>8 DEF Good, IsFlat
<1> QED BY <1>2, <1>3

\* The full buckets before the group after the first r, the number of them.
Before(t, r) == pos_to_offset(Full(t), r * GROUP_SIZE)

LEMMA GroupBase ==
  ASSUME NEW r \in Nat
  PROVE  /\ r * GROUP_SIZE \in Nat /\ (r + 1) * GROUP_SIZE = r * GROUP_SIZE + GROUP_SIZE
         /\ 0 * GROUP_SIZE = 0 /\ GROUP_SIZE \in Nat
         /\ \A b \in Nat : b < r * GROUP_SIZE <=> group_num(b) < r
<1>1. GROUP_SIZE \in {8, 16, 32, 64}
  BY GroupSizeAssumption
<1>2. CASE GROUP_SIZE = 8
  BY <1>2 DEF group_num
<1>3. CASE GROUP_SIZE = 16
  BY <1>3 DEF group_num
<1>4. CASE GROUP_SIZE = 32
  BY <1>4 DEF group_num
<1>5. CASE GROUP_SIZE = 64
  BY <1>5 DEF group_num
<1> QED BY <1>1, <1>2, <1>3, <1>4, <1>5

\* A bucket comes after those of the groups before and those before it in
\* its own group.
LEMMA RankInGroup ==
  ASSUME NEW t, Shaped(t), NEW r \in 1..Len(t.groups), NEW i \in 0..GROUP_SIZE
  PROVE  pos_to_offset(Full(t), (r - 1) * GROUP_SIZE + i)
           = Before(t, r - 1) + pos_to_offset(t.groups[r].bitmap, i)
<1> DEFINE base == (r - 1) * GROUP_SIZE
           bm == t.groups[r].bitmap
           A == {b \in Full(t) : b < base}
           B == {j \in bm : j < i}
           C == {b \in Full(t) : b < base + i}
           D == {b \in C : base =< b}
           f == [j \in B |-> base + j]
<1>1. /\ pos_to_offset(Full(t), base + i) = Cardinality(C)
      /\ Before(t, r - 1) = Cardinality(A) /\ pos_to_offset(bm, i) = Cardinality(B)
  BY DEF pos_to_offset, Before
<1>2. base \in Nat /\ i \in Nat /\ r - 1 \in Nat /\ r \in Nat /\ GROUP_SIZE \in Nat
      /\ r * GROUP_SIZE = base + GROUP_SIZE
  <2>1. r - 1 \in Nat /\ (r - 1) + 1 = r /\ i \in Nat /\ r \in Nat
    BY GroupBase
  <2>2. base \in Nat /\ ((r - 1) + 1) * GROUP_SIZE = base + GROUP_SIZE /\ GROUP_SIZE \in Nat
    BY <2>1, GroupBase, Zenon
  <2>3. r * GROUP_SIZE = base + GROUP_SIZE
    BY <2>1, <2>2, Zenon
  <2> QED BY <2>1, <2>2, <2>3
<1> HIDE DEF base
<1>3. Packed(t.groups[r])
  BY DEF Shaped
<1>4. bm \in SUBSET Buckets /\ bm \in SUBSET Nat /\ IsFiniteSet(bm)
  BY <1>3, PackedFacts
<1>5. Full(t) \in SUBSET Nat /\ IsFiniteSet(Full(t))
  <2>1. \A b \in Probes(t) : b \in Nat
    BY BucketFacts
  <2> QED BY <2>1, FullFinite
<1>6. IsFiniteSet(A) /\ IsFiniteSet(B) /\ IsFiniteSet(C) /\ IsFiniteSet(D)
  <2>1. A \in SUBSET Full(t) /\ B \in SUBSET bm /\ C \in SUBSET Full(t) /\ D \in SUBSET Full(t)
    OBVIOUS
  <2> HIDE DEF A, B, C, D, bm
  <2> QED BY <1>4, <1>5, <2>1, FS_Subset
<1>7. A \cup D = C /\ A \cap D = {}
  <2>1. ASSUME NEW b \in Full(t), b < base
        PROVE  b < base + i /\ ~(base =< b)
    <3>1. b \in Nat
      BY <1>5
    <3> QED BY <1>2, <2>1, <3>1
  <2>2. ASSUME NEW b \in Full(t), ~(b < base)
        PROVE  base =< b
    <3>1. b \in Nat
      BY <1>5
    <3> QED BY <1>2, <2>2, <3>1
  <2> QED BY <2>1, <2>2
<1>8. ASSUME NEW j \in bm
      PROVE  base + j \in Full(t)
  <2>1. base + j \in Probes(t) /\ pos_in_group(base + j) = j
        /\ which_group(t, base + j) = t.groups[r]
    BY BucketOfGroup DEF base
  <2> QED BY <2>1, BucketFacts
<1>9. ASSUME NEW b \in D
      PROVE  \E j \in B : b = base + j
  <2>1. b \in Full(t) /\ b \in Nat /\ b < base + i /\ base =< b /\ b \in Probes(t)
    BY <1>5 DEF Full
  <2>2. group_num(b) = r - 1
    <3>1. b < r * GROUP_SIZE
      BY <1>2, <2>1
    <3>2. ~(b < base)
      BY <1>2, <2>1
    <3>3. group_num(b) < r /\ ~(group_num(b) < r - 1) /\ group_num(b) \in Nat
      BY <1>2, <2>1, <3>1, <3>2, GroupBase, Coordinates DEF base
    <3> QED BY <1>2, <3>3
  <2>3. b = base + pos_in_group(b) /\ pos_in_group(b) \in Buckets
    BY <2>1, <2>2, Coordinates DEF base
  <2>4. pos_in_group(b) \in bm
    <3>1. which_group(t, b) = t.groups[r]
      BY <1>2, <2>2 DEF which_group
    <3> QED BY <2>1, <3>1, BucketFacts
  <2>5. pos_in_group(b) < i
    BY <1>2, <1>4, <2>1, <2>3, <2>4
  <2> QED BY <2>3, <2>4, <2>5
<1>10. Cardinality(D) = Cardinality(B)
  <2>1. f \in [B -> D]
    <3>1. ASSUME NEW j \in B
          PROVE  base + j \in D
      <4>1. j \in bm /\ j \in Nat /\ j < i
        BY <1>4
      <4>2. base + j \in Full(t) /\ base + j < base + i /\ base =< base + j
        BY <1>2, <1>8, <4>1
      <4> QED BY <4>2
    <3> QED BY <3>1
  <2>2. \A j, k \in B : f[j] = f[k] => j = k
    BY <1>2, <1>4
  <2>3. \A b \in D : \E j \in B : f[j] = b
    BY <1>9
  <2> HIDE DEF f, B, D
  <2>4. f \in Bijection(B, D)
    BY <2>1, <2>2, <2>3 DEF Bijection, Injection, Surjection, IsInjective
  <2> QED BY <1>6, <2>4, FS_Bijection DEF ExistsBijection
<1>11. Cardinality(C) = Cardinality(A) + Cardinality(D)
  <2> HIDE DEF A, C, D
  <2>1. Cardinality(A \cup D) = Cardinality(A) + Cardinality(D) - Cardinality(A \cap D)
    BY <1>6, FS_Union
  <2>2. Cardinality(A) \in Nat /\ Cardinality(D) \in Nat /\ Cardinality({}) = 0
    BY <1>6, FS_CardinalityType, FS_EmptySet
  <2>3. Cardinality(A \cup D) = Cardinality(C) /\ Cardinality(A \cap D) = 0
    BY <1>7, <2>2, Zenon
  <2> QED BY <2>1, <2>2, <2>3
<1> HIDE DEF A, B, C, D
<1> QED BY <1>1, <1>10, <1>11 DEF base

\* The counts of the groups add up to that of the table.
LEMMA BeforeFacts ==
  ASSUME NEW t, Shaped(t)
  PROVE  /\ Len(t.groups) \in Nat
         /\ \A r \in 0..Len(t.groups) : Before(t, r) \in Nat
         /\ Before(t, 0) = 0 /\ Before(t, Len(t.groups)) = t.num_buckets
         /\ \A r \in 1..Len(t.groups) :
              Before(t, r) = Before(t, r - 1) + t.groups[r].num_buckets
<1> DEFINE R == Len(t.groups)
<1>1. R \in Nat /\ t.num_buckets = Cardinality(Full(t)) /\ t.table_size \in Nat
      /\ R = num_groups(t.table_size)
  BY DEF Shaped, TableType
<1>2. Full(t) \in SUBSET Nat /\ IsFiniteSet(Full(t))
  <2>1. \A b \in Probes(t) : b \in Nat
    BY BucketFacts
  <2> QED BY <2>1, FullFinite
<1>3. \A r \in Nat : Before(t, r) \in Nat
  <2> TAKE r \in Nat
  <2>1. r * GROUP_SIZE \in Nat
    BY GroupBase
  <2> QED BY <1>2, <2>1, RankBounds DEF Before
<1>4. Before(t, 0) = 0
  <2>1. 0 * GROUP_SIZE = 0
    BY GroupBase
  <2>2. {b \in Full(t) : b < 0} = {}
    <3>1. \A b \in Full(t) : ~(b < 0)
      BY <1>2
    <3> QED BY <3>1
  <2> QED BY <2>1, <2>2, FS_EmptySet DEF Before, pos_to_offset
<1>5. Before(t, R) = t.num_buckets
  <2>1. ASSUME NEW b \in Full(t)
        PROVE  b < R * GROUP_SIZE
    <3>1. b \in Probes(t) /\ b \in Nat
      BY <1>2 DEF Full
    <3>2. group_num(b) + 1 \in 1..R /\ group_num(b) \in Nat
      BY <3>1, BucketFacts, Coordinates
    <3>3. group_num(b) < R
      BY <1>1, <3>2
    <3> QED BY <1>1, <3>1, <3>3, GroupBase
  <2>2. {b \in Full(t) : b < R * GROUP_SIZE} = Full(t)
    BY <2>1
  <2> QED BY <1>1, <2>2 DEF Before, pos_to_offset
<1>6. ASSUME NEW r \in 1..R
      PROVE  Before(t, r) = Before(t, r - 1) + t.groups[r].num_buckets
  <2> DEFINE bm == t.groups[r].bitmap
  <2>1. r - 1 \in Nat /\ (r - 1) + 1 = r
    OBVIOUS
  <2>2. (r - 1) * GROUP_SIZE + GROUP_SIZE = r * GROUP_SIZE /\ GROUP_SIZE \in 0..GROUP_SIZE
    <3>1. ((r - 1) + 1) * GROUP_SIZE = (r - 1) * GROUP_SIZE + GROUP_SIZE /\ GROUP_SIZE \in Nat
      BY <2>1, GroupBase, Zenon
    <3>2. (r - 1) * GROUP_SIZE + GROUP_SIZE = r * GROUP_SIZE
      BY <2>1, <3>1, Zenon
    <3> QED BY <3>1, <3>2
  <2>3. Packed(t.groups[r])
    BY DEF Shaped
  <2>4. bm \in SUBSET Buckets /\ t.groups[r].num_buckets = Cardinality(bm)
    BY <2>3, PackedFacts
  <2>5. {i \in bm : i < GROUP_SIZE} = bm
    <3>1. \A i \in Buckets : i < GROUP_SIZE
      BY GroupBase DEF Buckets
    <3> QED BY <2>4, <3>1
  <2>6. pos_to_offset(bm, GROUP_SIZE) = t.groups[r].num_buckets
    BY <2>4, <2>5 DEF pos_to_offset
  <2>7. pos_to_offset(Full(t), (r - 1) * GROUP_SIZE + GROUP_SIZE)
           = Before(t, r - 1) + pos_to_offset(bm, GROUP_SIZE)
    BY <2>2, RankInGroup
  <2> QED BY <2>2, <2>6, <2>7 DEF Before
<1> QED BY <1>1, <1>3, <1>4, <1>5, <1>6

Iterators == [row : Nat, col : Nat]

\* The walk and the rehash go through the groups in their order.
LEMMA WalkAt ==
  ASSUME NEW t, Shaped(t)
  PROVE  /\ Walk(t) \in Seq(Iterators) /\ Len(Walk(t)) = t.num_buckets
         /\ destructive_elements(t) \in Seq(Value)
         /\ Len(destructive_elements(t)) = t.num_buckets
         /\ \A r \in 1..Len(t.groups) : \A c \in 1..t.groups[r].num_buckets :
              /\ Before(t, r - 1) + c \in 1..t.num_buckets
              /\ Walk(t)[Before(t, r - 1) + c] = [row |-> r, col |-> c - 1]
              /\ destructive_elements(t)[Before(t, r - 1) + c] = t.groups[r].group[c]
<1> DEFINE R == Len(t.groups)
           off == [r \in 0..R |-> Before(t, r)]
           its == [r \in DOMAIN t.groups |->
                     [c \in 1..t.groups[r].num_buckets |-> [row |-> r, col |-> c - 1]]]
           vals == [r \in DOMAIN t.groups |-> t.groups[r].group]
<1>1. /\ R \in Nat /\ DOMAIN t.groups = 1..R
      /\ \A r \in 0..R : Before(t, r) \in Nat
      /\ Before(t, 0) = 0 /\ Before(t, R) = t.num_buckets
      /\ \A r \in 1..R : Before(t, r) = Before(t, r - 1) + t.groups[r].num_buckets
  BY BeforeFacts DEF Shaped, TableType
<1>2. ASSUME NEW r \in 1..R
      PROVE  /\ t.groups[r].num_buckets \in Nat /\ t.groups[r].group \in Seq(Value)
             /\ Len(t.groups[r].group) = t.groups[r].num_buckets
  <2>1. Packed(t.groups[r])
    BY DEF Shaped
  <2> QED BY <2>1 DEF Packed, GroupType
<1>3. off \in [0..R -> Nat] /\ off[0] = 0 /\ off[R] = t.num_buckets
      /\ \A r \in 1..R : off[r] = Before(t, r) /\ off[r - 1] = Before(t, r - 1)
  BY <1>1
<1>4. /\ its \in [1..R -> Seq(Iterators)]
      /\ \A r \in 1..R : /\ Len(its[r]) = t.groups[r].num_buckets
                         /\ \A c \in 1..t.groups[r].num_buckets :
                              its[r][c] = [row |-> r, col |-> c - 1]
  <2>1. ASSUME NEW r \in 1..R
        PROVE  /\ its[r] \in Seq(Iterators) /\ Len(its[r]) = t.groups[r].num_buckets
               /\ \A c \in 1..t.groups[r].num_buckets : its[r][c] = [row |-> r, col |-> c - 1]
    <3> DEFINE n == t.groups[r].num_buckets
               row == [c \in 1..n |-> [row |-> r, col |-> c - 1]]
    <3>1. its[r] = row
      BY <1>1
    <3>2. n \in Nat
      BY <1>2
    <3>3. \A c \in 1..n : [row |-> r, col |-> c - 1] \in Iterators
      BY <3>2 DEF Iterators
    <3> HIDE DEF n, its
    <3>4. row \in Seq(Iterators) /\ Len(row) = n
      BY <3>2, <3>3
    <3> QED BY <3>1, <3>2, <3>4 DEF n
  <2>2. DOMAIN its = 1..R
    BY <1>1
  <2>3. its = [r \in 1..R |-> its[r]]
    BY <1>1
  <2> HIDE DEF its
  <2> QED BY <2>1, <2>3
<1>5. vals \in [1..R -> Seq(Value)] /\ \A r \in 1..R : vals[r] = t.groups[r].group
  BY <1>1, <1>2
<1>6. \A r \in 1..R : off[r] = off[r - 1] + Len(its[r]) /\ off[r] = off[r - 1] + Len(vals[r])
  <2> TAKE r \in 1..R
  <2>1. Len(its[r]) = t.groups[r].num_buckets /\ Len(vals[r]) = t.groups[r].num_buckets
    BY <1>2, <1>4, <1>5
  <2> HIDE DEF off, its, vals
  <2> QED BY <1>1, <1>3, <2>1
<1>7. Walk(t) = FlattenSeq(its) /\ destructive_elements(t) = FlattenSeq(vals)
  BY DEF Walk, destructive_elements
<1> HIDE DEF off, its, vals
<1>8. /\ FlattenSeq(its) \in Seq(Iterators) /\ Len(FlattenSeq(its)) = off[R]
      /\ \A r \in 1..R : \A c \in 1..Len(its[r]) :
           off[r - 1] + c \in 1..off[R] /\ FlattenSeq(its)[off[r - 1] + c] = its[r][c]
  <2>1. \A r \in 1..R : off[r] = off[r - 1] + Len(its[r])
    BY <1>6
  <2> HIDE DEF R
  <2>2. IsFlat(R, Iterators, its, off, FlattenSeq(its))
    BY <1>1, <1>3, <1>4, <2>1, Flatten
  <2> QED BY <2>2 DEF IsFlat
<1>9. /\ FlattenSeq(vals) \in Seq(Value) /\ Len(FlattenSeq(vals)) = off[R]
      /\ \A r \in 1..R : \A c \in 1..Len(vals[r]) :
           off[r - 1] + c \in 1..off[R] /\ FlattenSeq(vals)[off[r - 1] + c] = vals[r][c]
  <2>1. \A r \in 1..R : off[r] = off[r - 1] + Len(vals[r])
    BY <1>6
  <2> HIDE DEF R
  <2>2. IsFlat(R, Value, vals, off, FlattenSeq(vals))
    BY <1>1, <1>3, <1>5, <2>1, Flatten
  <2> QED BY <2>2 DEF IsFlat
<1>10. ASSUME NEW r \in 1..R, NEW c \in 1..t.groups[r].num_buckets
       PROVE  /\ Before(t, r - 1) + c \in 1..t.num_buckets
              /\ Walk(t)[Before(t, r - 1) + c] = [row |-> r, col |-> c - 1]
              /\ destructive_elements(t)[Before(t, r - 1) + c] = t.groups[r].group[c]
  <2>1. c \in 1..Len(its[r]) /\ c \in 1..Len(vals[r])
    BY <1>2, <1>4, <1>5
  <2>2. off[r - 1] = Before(t, r - 1) /\ its[r][c] = [row |-> r, col |-> c - 1]
        /\ vals[r][c] = t.groups[r].group[c]
    BY <1>3, <1>4, <1>5
  <2> QED BY <1>3, <1>7, <1>8, <1>9, <2>1, <2>2
<1> QED BY <1>3, <1>7, <1>8, <1>9, <1>10

\* The bucket of the n-th step has n - 1 full buckets before it.
Rank(t, b) == pos_to_offset(Full(t), b)

LEMMA FullNaturals ==
  ASSUME NEW t, Shaped(t)
  PROVE  Full(t) \in SUBSET Nat /\ IsFiniteSet(Full(t)) /\ t.num_buckets = Cardinality(Full(t))
         /\ t.num_buckets \in Nat
<1>1. \A b \in Probes(t) : b \in Nat
  BY BucketFacts
<1>2. t.num_buckets = Cardinality(Full(t)) /\ t.num_buckets \in Nat
  BY DEF Shaped, TableType
<1> QED BY <1>1, <1>2, FullFinite

LEMMA WalkBuckets ==
  ASSUME NEW t, Shaped(t), NEW b \in Full(t)
  PROVE  LET n == Rank(t, b) + 1
             r == group_num(b) + 1
             c == pos_to_offset(which_group(t, b).bitmap, pos_in_group(b)) + 1
         IN  /\ n \in 1..t.num_buckets
             /\ r \in 1..Len(t.groups) /\ c \in 1..t.groups[r].num_buckets
             /\ n = Before(t, r - 1) + c
             /\ get_iter(t, b) = [row |-> r, col |-> c - 1]
             /\ Walk(t)[n] = get_iter(t, b)
             /\ get_pos(t, get_iter(t, b)) = b
             /\ deref(t, get_iter(t, b)) = unsafe_get(t, b)
             /\ destructive_elements(t)[n] = unsafe_get(t, b)
<1> DEFINE r == group_num(b) + 1
           p == pos_in_group(b)
           g == which_group(t, b)
           k == pos_to_offset(g.bitmap, p)
           c == k + 1
           n == Rank(t, b) + 1
<1>1. /\ b \in Probes(t) /\ b \in Nat /\ r \in 1..Len(t.groups) /\ p \in Buckets
      /\ Packed(g) /\ g = t.groups[r] /\ p \in g.bitmap
      /\ unsafe_get(t, b) = ValueAt(g, p)
  <2>1. b \in Probes(t)
    BY DEF Full
  <2> QED BY <2>1, BucketFacts
<1>2. k \in 0..(g.num_buckets - 1) /\ g.num_buckets \in 0..GROUP_SIZE
      /\ g.bitmap \in SUBSET Nat /\ IsFiniteSet(g.bitmap)
  BY <1>1, PackedFacts
<1>3. c \in 1..t.groups[r].num_buckets /\ c - 1 = k
  <2> HIDE DEF k
  <2> QED BY <1>1, <1>2
<1>4. b = (r - 1) * GROUP_SIZE + p /\ r - 1 = group_num(b) /\ group_num(b) \in Nat
  <2>1. group_num(b) \in Nat /\ b = group_num(b) * GROUP_SIZE + p
    BY <1>1, Coordinates
  <2>2. r - 1 = group_num(b)
    BY <2>1
  <2> QED BY <2>1, <2>2
<1>5. Rank(t, b) = Before(t, r - 1) + k
  <2>1. p \in 0..GROUP_SIZE
    BY <1>1, GroupBase DEF Buckets
  <2>2. pos_to_offset(Full(t), (r - 1) * GROUP_SIZE + p)
          = Before(t, r - 1) + pos_to_offset(t.groups[r].bitmap, p)
    BY <1>1, <2>1, RankInGroup
  <2> QED BY <1>1, <1>4, <2>2 DEF Rank
<1>6. r - 1 \in 0..Len(t.groups) /\ Before(t, r - 1) \in Nat
  BY <1>1, <1>4, BeforeFacts
<1>7. n = Before(t, r - 1) + c
  <2> HIDE DEF k, r
  <2> QED BY <1>2, <1>5, <1>6
<1>8. /\ n \in 1..t.num_buckets
      /\ Walk(t)[n] = [row |-> r, col |-> c - 1]
      /\ destructive_elements(t)[n] = t.groups[r].group[c]
  <2> HIDE DEF n, c, r
  <2> QED BY <1>1, <1>3, <1>7, WalkAt
<1>9. get_iter(t, b) = [row |-> r, col |-> c - 1]
  BY <1>3 DEF get_iter
<1>10. get_pos(t, get_iter(t, b)) = b
  <2>1. offset_to_pos(g.bitmap, k) = p
    BY <1>1, <1>2, BucketOfOffset
  <2>2. get_pos(t, get_iter(t, b)) = (r - 1) * GROUP_SIZE + offset_to_pos(t.groups[r].bitmap, c - 1)
    BY <1>9 DEF get_pos
  <2> QED BY <1>1, <1>3, <1>4, <2>1, <2>2
<1>11. t.groups[r].group[c] = unsafe_get(t, b) /\ deref(t, get_iter(t, b)) = unsafe_get(t, b)
  <2>1. unsafe_get(t, b) = t.groups[r].group[c]
    BY <1>1 DEF ValueAt
  <2>2. deref(t, get_iter(t, b)) = t.groups[r].group[(c - 1) + 1]
    BY <1>9 DEF deref
  <2>3. (c - 1) + 1 = c
    BY <1>3
  <2> QED BY <2>1, <2>2, <2>3
<1> QED BY <1>1, <1>3, <1>7, <1>8, <1>9, <1>10, <1>11

LEMMA WalkOnto ==
  ASSUME NEW t, Shaped(t), NEW n \in 1..t.num_buckets
  PROVE  \E b \in Full(t) : Rank(t, b) + 1 = n
<1>1. n - 1 \in 0..(Cardinality(Full(t)) - 1)
  BY FullNaturals
<1>2. PICK b \in Full(t) : pos_to_offset(Full(t), b) = n - 1
  BY <1>1, FullNaturals, RankOnto
<1> QED BY <1>2 DEF Rank

\* A loop meets the value of every full bucket, and a rehash the same ones.
LEMMA ElementsAre ==
  ASSUME NEW t, Shaped(t)
  PROVE  /\ Elements(t) = destructive_elements(t)
         /\ Elements(t) \in Seq(Value) /\ Len(Elements(t)) = t.num_buckets
         /\ \A b \in Full(t) : /\ Rank(t, b) + 1 \in 1..t.num_buckets
                               /\ Elements(t)[Rank(t, b) + 1] = unsafe_get(t, b)
         /\ \A n \in 1..t.num_buckets : \E b \in Full(t) :
              Rank(t, b) + 1 = n /\ Elements(t)[n] = unsafe_get(t, b)
<1>1. Walk(t) \in Seq(Iterators) /\ Len(Walk(t)) = t.num_buckets
      /\ destructive_elements(t) \in Seq(Value)
      /\ Len(destructive_elements(t)) = t.num_buckets /\ t.num_buckets \in Nat
  BY WalkAt, FullNaturals
<1>2. Elements(t) = [n \in 1..t.num_buckets |-> deref(t, Walk(t)[n])]
  BY <1>1 DEF Elements
<1>3. ASSUME NEW b \in Full(t)
      PROVE  /\ Rank(t, b) + 1 \in 1..t.num_buckets
             /\ Elements(t)[Rank(t, b) + 1] = unsafe_get(t, b)
             /\ destructive_elements(t)[Rank(t, b) + 1] = unsafe_get(t, b)
  <2>1. Rank(t, b) + 1 \in 1..t.num_buckets
        /\ deref(t, Walk(t)[Rank(t, b) + 1]) = unsafe_get(t, b)
        /\ destructive_elements(t)[Rank(t, b) + 1] = unsafe_get(t, b)
    BY WalkBuckets
  <2> QED BY <1>2, <2>1
<1>4. ASSUME NEW n \in 1..t.num_buckets
      PROVE  \E b \in Full(t) : /\ Rank(t, b) + 1 = n
                                /\ Elements(t)[n] = unsafe_get(t, b)
                                /\ destructive_elements(t)[n] = unsafe_get(t, b)
  <2>1. PICK b \in Full(t) : Rank(t, b) + 1 = n
    BY WalkOnto
  <2> QED BY <1>3, <2>1
<1>5. \A n \in 1..t.num_buckets : Elements(t)[n] = destructive_elements(t)[n]
  BY <1>4
<1>6. Elements(t) = destructive_elements(t)
  <2> DEFINE e == Elements(t)
             d == destructive_elements(t)
             N == t.num_buckets
  <2>1. d \in Seq(Value) /\ Len(d) = N
    BY <1>1
  <2>2. e = [n \in 1..N |-> e[n]] /\ \A n \in 1..N : e[n] = d[n]
    BY <1>2, <1>5
  <2> HIDE DEF e, d, N
  <2>3. d = [n \in 1..N |-> d[n]]
    BY <2>1
  <2> QED BY <2>2, <2>3 DEF e, d
<1> QED BY <1>1, <1>3, <1>4, <1>6

LEMMA EraseAtBucket ==
  ASSUME NEW t, Shaped(t), NEW b \in Full(t)
  PROVE  erase_at(t, get_iter(t, b)).table = erase_bucket(t, b)
<1> DEFINE r == group_num(b) + 1
           p == pos_in_group(b)
           g == which_group(t, b)
           k == pos_to_offset(g.bitmap, p)
<1>1. b \in Probes(t)
  BY DEF Full
<1>2. Packed(g) /\ g = t.groups[r] /\ p \in g.bitmap
  BY <1>1, BucketFacts
<1>3. g.bitmap \in SUBSET Nat /\ IsFiniteSet(g.bitmap)
  BY <1>2, PackedFacts
<1>4. offset_to_pos(g.bitmap, k) = p
  BY <1>2, <1>3, BucketOfOffset
<1>5. erase_ne(g, k) = erase_in_group(g, p)
  BY <1>2, <1>4 DEF erase_ne, erase_in_group
<1>6. erase_at(t, get_iter(t, b)).table
        = [t EXCEPT !.groups[r] = erase_ne(@, k), !.num_buckets = @ - 1]
  BY DEF erase_at, get_iter
<1>7. erase_bucket(t, b) = [t EXCEPT !.groups[r] = erase_in_group(@, p), !.num_buckets = @ - 1]
  BY DEF erase_bucket
<1>8. t = [groups |-> t.groups, table_size |-> t.table_size, num_buckets |-> t.num_buckets]
      /\ t.groups \in Seq(GroupType)
  BY DEF Shaped, TableType
<1> DEFINE h == erase_in_group(g, p)
<1>9. erase_ne(t.groups[r], k) = h /\ erase_in_group(t.groups[r], p) = h
  BY <1>2, <1>5
<1> HIDE DEF h, r, p, k
<1> QED BY <1>6, <1>7, <1>8, <1>9

\* Empty groups do not count.
LEMMA EmptyBetween ==
  ASSUME NEW t, Shaped(t), NEW r \in 0..Len(t.groups), NEW s \in r..Len(t.groups),
         \A q \in (r + 1)..s : t.groups[q].num_buckets = 0
  PROVE  Before(t, s) = Before(t, r)
<1> DEFINE T == {k \in 0..(s - r) : Before(t, r + k) = Before(t, r)}
<1>1. r \in Nat /\ s \in Nat /\ s - r \in Nat /\ Len(t.groups) \in Nat
  BY BeforeFacts
<1>2. 0 \in T
  BY <1>1
<1>3. ASSUME NEW k \in 1..(s - r), k - 1 \in T
      PROVE  k \in T
  <2>1. r + k \in (r + 1)..s /\ r + k \in 1..Len(t.groups) /\ (r + k) - 1 = r + (k - 1)
    BY <1>1
  <2>2. Before(t, r + k) = Before(t, (r + k) - 1) + t.groups[r + k].num_buckets
    BY <2>1, BeforeFacts
  <2>3. t.groups[r + k].num_buckets = 0
    BY <2>1
  <2>4. Before(t, (r + k) - 1) = Before(t, r) /\ Before(t, r) \in Nat
    BY <1>3, <2>1, BeforeFacts
  <2> QED BY <2>2, <2>3, <2>4
<1>4. T = 0..(s - r)
  <2>1. T \in SUBSET (0..(s - r))
    OBVIOUS
  <2> HIDE DEF T
  <2> QED BY <1>1, <1>2, <1>3, <2>1, UpTo
<1>5. s - r \in T /\ r + (s - r) = s
  BY <1>1, <1>4
<1> QED BY <1>5

\* From the place after the n-th value an iterator goes to the next one.
LEMMA Advance ==
  ASSUME NEW t, Shaped(t), NEW r \in 1..Len(t.groups),
         NEW c \in 0..t.groups[r].num_buckets
  PROVE  LET n == Before(t, r - 1) + c
         IN  /\ n \in 0..t.num_buckets
             /\ advance_past_end(t, [row |-> r, col |-> c])
                  = IF n = t.num_buckets THEN EndOf(t) ELSE Walk(t)[n + 1]
<1> DEFINE R == Len(t.groups)
           N == t.num_buckets
           m == t.groups[r].num_buckets
           n == Before(t, r - 1) + c
           later == {s \in (r + 1)..R : t.groups[s].num_buckets # 0}
           it == [row |-> r, col |-> c]
<1>1. R \in Nat /\ N \in Nat /\ r \in Nat /\ ~(r > R)
  BY FullNaturals DEF Shaped, TableType
<1>2. \A s \in 1..R : t.groups[s].num_buckets \in Nat
  <2> TAKE s \in 1..R
  <2>1. Packed(t.groups[s])
    BY DEF Shaped
  <2> QED BY <2>1 DEF Packed, GroupType
<1>3. m \in Nat /\ Before(t, r - 1) \in Nat /\ Before(t, r) = Before(t, r - 1) + m
  BY <1>1, <1>2, BeforeFacts
<1>4. advance_past_end(t, it) = IF c # m THEN it ELSE IF later = {} THEN EndOf(t)
        ELSE [row |-> CHOOSE s \in later : \A q \in later : s =< q, col |-> 0]
  BY <1>1 DEF advance_past_end
<1>5. CASE c # m
  <2>1. c + 1 \in 1..m /\ (c + 1) - 1 = c
    BY <1>3, <1>5
  <2>2. Before(t, r - 1) + (c + 1) \in 1..N
        /\ Walk(t)[Before(t, r - 1) + (c + 1)] = [row |-> r, col |-> (c + 1) - 1]
    <3>1. \A d \in 1..m : /\ Before(t, r - 1) + d \in 1..N
                           /\ Walk(t)[Before(t, r - 1) + d] = [row |-> r, col |-> d - 1]
      BY WalkAt
    <3> QED BY <2>1, <3>1, Zenon
  <2>3. Before(t, r - 1) + (c + 1) = n + 1 /\ n \in 0..N /\ n # N
    <3> HIDE DEF m, N
    <3> QED BY <1>1, <1>3, <2>2
  <2>4. advance_past_end(t, it) = Walk(t)[n + 1]
    BY <1>4, <1>5, <2>1, <2>2, <2>3
  <2> QED BY <2>3, <2>4
<1>6. CASE c = m
  <2>1. n = Before(t, r)
    BY <1>3, <1>6
  <2>2. CASE later = {}
    <3>1. \A q \in (r + 1)..R : t.groups[q].num_buckets = 0
      BY <2>2
    <3>2. r \in 0..R /\ R \in r..R
      BY <1>1
    <3>3. Before(t, R) = Before(t, r)
      BY <3>1, <3>2, EmptyBetween
    <3>4. n = N
      BY <2>1, <3>3, BeforeFacts
    <3>5. advance_past_end(t, it) = EndOf(t)
      BY <1>4, <1>6, <2>2
    <3> QED BY <1>1, <3>4, <3>5
  <2>3. CASE later # {}
    <3> DEFINE s == CHOOSE x \in later : \A q \in later : x =< q
    <3>1. later \in SUBSET Nat
      BY <1>1
    <3>2. s \in later /\ \A q \in later : s =< q
      <4> HIDE DEF later
      <4>1. \E x \in later : \A q \in later : x =< q
        BY <2>3, <3>1, LeastNumber
      <4> QED BY <4>1
    <3>3. advance_past_end(t, it) = [row |-> s, col |-> 0]
      BY <1>4, <1>6, <2>3
    <3> HIDE DEF s
    <3>4. s \in (r + 1)..R /\ t.groups[s].num_buckets # 0
      BY <3>2
    <3>5. r \in 0..R /\ s - 1 \in r..R /\ s \in 1..R /\ s \in Nat
      BY <1>1, <3>4
    <3>6. \A q \in (r + 1)..(s - 1) : t.groups[q].num_buckets = 0
      <4> TAKE q \in (r + 1)..(s - 1)
      <4>1. q \in (r + 1)..R /\ ~(s =< q)
        BY <1>1, <3>4
      <4> QED BY <3>2, <4>1
    <3>7. Before(t, s - 1) = n
      BY <2>1, <3>5, <3>6, EmptyBetween
    <3>8. 1 \in 1..t.groups[s].num_buckets
      BY <1>2, <3>4, <3>5
    <3>9. Before(t, s - 1) + 1 \in 1..N /\ Walk(t)[Before(t, s - 1) + 1] = [row |-> s, col |-> 1 - 1]
      BY <3>5, <3>8, WalkAt
    <3>10. n \in Nat
      <4> HIDE DEF m
      <4> QED BY <1>3, <1>6
    <3> HIDE DEF n, N
    <3>11. n \in 0..N /\ n # N
      BY <1>1, <3>7, <3>9, <3>10
    <3> QED BY <3>3, <3>7, <3>9, <3>11 DEF n, N
  <2> QED BY <2>2, <2>3
<1> QED BY <1>5, <1>6

LEMMA BeginsAtFirst ==
  ASSUME NEW t, Shaped(t)
  PROVE  BeginOf(t) = IF t.num_buckets = 0 THEN EndOf(t) ELSE Walk(t)[1]
<1>1. Len(t.groups) \in Nat /\ Before(t, 0) = 0 /\ Before(t, Len(t.groups)) = t.num_buckets
  BY BeforeFacts
<1>2. CASE Len(t.groups) = 0
  <2>1. EndOf(t) = [row |-> 1, col |-> 0] /\ t.num_buckets = 0 /\ 1 > Len(t.groups)
    BY <1>1, <1>2 DEF EndOf
  <2>2. BeginOf(t) = [row |-> 1, col |-> 0]
    BY <2>1 DEF BeginOf, advance_past_end
  <2> QED BY <2>1, <2>2
<1>3. CASE Len(t.groups) # 0
  <2>1. 1 \in 1..Len(t.groups) /\ 1 - 1 = 0 /\ 0 + 0 = 0 /\ 0 + 1 = 1
    BY <1>1, <1>3
  <2>2. 0 \in 0..t.groups[1].num_buckets
    <3>1. Packed(t.groups[1])
      BY <2>1 DEF Shaped
    <3> QED BY <3>1 DEF Packed, GroupType
  <2>3. advance_past_end(t, [row |-> 1, col |-> 0])
          = IF Before(t, 1 - 1) + 0 = t.num_buckets THEN EndOf(t)
            ELSE Walk(t)[Before(t, 1 - 1) + 0 + 1]
    BY <2>1, <2>2, Advance
  <2> QED BY <1>1, <2>1, <2>3 DEF BeginOf
<1> QED BY <1>2, <1>3

\* The iterator that went on from a value goes back to it.
LEMMA GoesBack ==
  ASSUME NEW t, Shaped(t), NEW r \in 1..Len(t.groups),
         NEW c \in 1..t.groups[r].num_buckets
  PROVE  decrement(t, advance_past_end(t, [row |-> r, col |-> c]))
           = [row |-> r, col |-> c - 1]
<1> DEFINE R == Len(t.groups)
           m == t.groups[r].num_buckets
           later == {s \in (r + 1)..R : t.groups[s].num_buckets # 0}
           it == [row |-> r, col |-> c]
           back(s) == {q \in 1..(s - 1) : t.groups[q].num_buckets # 0}
           prev(s) == CHOOSE q \in back(s) : \A x \in back(s) : x =< q
<1>1. R \in Nat /\ r \in Nat /\ ~(r > R) /\ r =< R /\ c # 0
  BY DEF Shaped, TableType
<1>2. m \in Nat
  <2>1. Packed(t.groups[r])
    BY DEF Shaped
  <2> QED BY <2>1 DEF Packed, GroupType
<1>4. advance_past_end(t, it) = IF c # m THEN it ELSE IF later = {} THEN EndOf(t)
        ELSE [row |-> CHOOSE s \in later : \A q \in later : s =< q, col |-> 0]
  BY <1>1 DEF advance_past_end
<1>5. CASE c # m
  BY <1>1, <1>4, <1>5 DEF decrement
<1>6. ASSUME c = m, NEW s \in (r + 1)..(R + 1),
             \A q \in (r + 1)..(s - 1) : t.groups[q].num_buckets = 0,
             advance_past_end(t, it) = [row |-> s, col |-> 0]
      PROVE  decrement(t, advance_past_end(t, it)) = [row |-> r, col |-> c - 1]
  <2>1. prev(s) = r
    <3>1. r \in back(s)
      BY <1>1, <1>2, <1>6
    <3>2. \A x \in back(s) : x =< r
      <4> TAKE x \in back(s)
      <4>1. x \in 1..(s - 1) /\ t.groups[x].num_buckets # 0
        OBVIOUS
      <4>2. x \notin (r + 1)..(s - 1)
        BY <1>6, <4>1
      <4> QED BY <1>1, <4>1, <4>2
    <3>3. \A q \in back(s) : (\A x \in back(s) : x =< q) => q = r
      <4> SUFFICES ASSUME NEW q \in back(s), \A x \in back(s) : x =< q
                   PROVE  q = r
        OBVIOUS
      <4>1. q =< r /\ r =< q /\ q \in Int
        BY <3>1, <3>2
      <4> QED BY <1>1, <4>1
    <3> HIDE DEF back
    <3> QED BY <3>1, <3>2, <3>3
  <2>2. decrement(t, [row |-> s, col |-> 0])
          = [row |-> prev(s), col |-> t.groups[prev(s)].num_buckets - 1]
    BY DEF decrement
  <2> HIDE DEF prev
  <2> QED BY <1>6, <2>1, <2>2
<1>7. CASE c = m /\ later = {}
  <2>1. advance_past_end(t, it) = [row |-> R + 1, col |-> 0]
    BY <1>4, <1>7 DEF EndOf
  <2>2. R + 1 \in (r + 1)..(R + 1) /\ (R + 1) - 1 = R
    BY <1>1
  <2>3. \A q \in (r + 1)..((R + 1) - 1) : t.groups[q].num_buckets = 0
    BY <1>7, <2>2
  <2> HIDE DEF it
  <2> QED BY <1>6, <1>7, <2>1, <2>2, <2>3 DEF it
<1>8. CASE c = m /\ later # {}
  <2> DEFINE s == CHOOSE x \in later : \A q \in later : x =< q
  <2>1. later \in SUBSET Nat
    BY <1>1
  <2>2. s \in later /\ \A q \in later : s =< q
    <3> HIDE DEF later
    <3>1. \E x \in later : \A q \in later : x =< q
      BY <1>8, <2>1, LeastNumber
    <3> QED BY <3>1
  <2>3. advance_past_end(t, it) = [row |-> s, col |-> 0]
    BY <1>4, <1>8
  <2> HIDE DEF s
  <2>4. s \in (r + 1)..R
    BY <2>2
  <2>5. s \in (r + 1)..(R + 1)
    BY <1>1, <2>4
  <2>6. \A q \in (r + 1)..(s - 1) : t.groups[q].num_buckets = 0
    <3> TAKE q \in (r + 1)..(s - 1)
    <3>1. q \in (r + 1)..R /\ ~(s =< q)
      BY <1>1, <2>4
    <3> QED BY <2>2, <3>1
  <2> HIDE DEF it
  <2> QED BY <1>6, <1>8, <2>3, <2>5, <2>6 DEF it
<1> QED BY <1>5, <1>7, <1>8

\* The steps of a walk are in the order of the buckets.
LEMMA RanksInOrder ==
  ASSUME NEW t, Shaped(t), NEW a \in Full(t), NEW b \in Full(t)
  PROVE  /\ Rank(t, a) \in Nat
         /\ Rank(t, a) < Rank(t, b) => a < b
         /\ Rank(t, a) = Rank(t, b) => a = b
<1>1. Full(t) \in SUBSET Nat /\ IsFiniteSet(Full(t)) /\ a \in Nat /\ b \in Nat
  BY FullNaturals
<1>2. Rank(t, a) \in Nat /\ Rank(t, b) \in Nat
  BY <1>1, RankBounds DEF Rank
<1>3. b =< a => Rank(t, b) =< Rank(t, a)
  BY <1>1, RankGrows DEF Rank
<1>4. Rank(t, a) = Rank(t, b) => a = b
  BY <1>1, RankInjective DEF Rank
<1> QED BY <1>1, <1>2, <1>3, <1>4

\* The n-th step of a walk, its bucket and its neighbours.
LEMMA WalkStep ==
  ASSUME NEW t, Shaped(t), NEW n \in 1..t.num_buckets
  PROVE  LET w == Walk(t)
         IN  \E b \in Full(t) :
               /\ Rank(t, b) + 1 = n /\ get_pos(t, w[n]) = b /\ w[n] = get_iter(t, b)
               /\ unsafe_get(t, b) = deref(t, w[n])
               /\ increment(t, w[n]) = IF n = t.num_buckets THEN EndOf(t) ELSE w[n + 1]
               /\ decrement(t, increment(t, w[n])) = w[n]
<1> DEFINE w == Walk(t)
           N == t.num_buckets
<1>1. PICK b \in Full(t) : Rank(t, b) + 1 = n
  BY WalkOnto
<1> DEFINE r == group_num(b) + 1
           c == pos_to_offset(which_group(t, b).bitmap, pos_in_group(b)) + 1
<1>2. /\ r \in 1..Len(t.groups) /\ c \in 1..t.groups[r].num_buckets
      /\ n = Before(t, r - 1) + c
      /\ get_iter(t, b) = [row |-> r, col |-> c - 1]
      /\ w[n] = get_iter(t, b) /\ get_pos(t, get_iter(t, b)) = b
      /\ deref(t, get_iter(t, b)) = unsafe_get(t, b)
  BY <1>1, WalkBuckets
<1> HIDE DEF r, c
<1>3. t.groups[r].num_buckets \in Nat
  <2>1. Packed(t.groups[r])
    BY <1>2 DEF Shaped
  <2> QED BY <2>1 DEF Packed, GroupType
<1>4. c \in 0..t.groups[r].num_buckets /\ (c - 1) + 1 = c
  BY <1>2, <1>3
<1>5. increment(t, w[n]) = advance_past_end(t, [row |-> r, col |-> c])
  <2>1. increment(t, w[n]) = advance_past_end(t, [row |-> r, col |-> (c - 1) + 1])
    BY <1>2 DEF increment
  <2> QED BY <1>4, <2>1
<1>6. advance_past_end(t, [row |-> r, col |-> c]) = IF n = N THEN EndOf(t) ELSE w[n + 1]
  <2>1. LET m == Before(t, r - 1) + c
        IN  advance_past_end(t, [row |-> r, col |-> c]) = IF m = N THEN EndOf(t) ELSE w[m + 1]
    BY <1>2, <1>4, Advance
  <2> QED BY <1>2, <2>1, Zenon
<1>7. decrement(t, advance_past_end(t, [row |-> r, col |-> c])) = [row |-> r, col |-> c - 1]
  BY <1>2, GoesBack
<1> HIDE DEF w, N
<1>8. /\ Rank(t, b) + 1 = n /\ get_pos(t, w[n]) = b /\ w[n] = get_iter(t, b)
      /\ unsafe_get(t, b) = deref(t, w[n])
      /\ increment(t, w[n]) = IF n = N THEN EndOf(t) ELSE w[n + 1]
      /\ decrement(t, increment(t, w[n])) = w[n]
  BY <1>1, <1>2, <1>5, <1>6, <1>7
<1> QED BY <1>8 DEF w, N

LEMMA TableIsOK ==
  ASSUME NEW t, Shaped(t)
  PROVE  TableOK(t)
<1> DEFINE w == Walk(t)
           full == {i \in 0..(t.table_size - 1) : test(t, i)}
           N == t.num_buckets
<1>1. full = Full(t)
  BY DEF Full, Probes
<1>2. \A r \in DOMAIN t.groups : GroupOK(t.groups[r])
  BY PackedIsOK DEF Shaped, TableType
<1>3. Len(t.groups) = num_groups(t.table_size) /\ N = Cardinality(Full(t)) /\ N \in Nat
  BY DEF Shaped, TableType
<1>4. w \in Seq(Iterators) /\ Len(w) = N /\ DOMAIN w = 1..N
  BY WalkAt
<1>5. BeginOf(t) = IF w = <<>> THEN EndOf(t) ELSE w[1]
  <2>1. BeginOf(t) = IF N = 0 THEN EndOf(t) ELSE w[1]
    BY BeginsAtFirst
  <2>2. N = 0 <=> w = <<>>
    <3> HIDE DEF w, N
    <3> QED BY <1>3, <1>4
  <2> QED BY <2>1, <2>2
<1>6. {get_pos(t, w[n]) : n \in 1..N} = Full(t)
  <2>1. ASSUME NEW n \in 1..N
        PROVE  get_pos(t, w[n]) \in Full(t)
    BY WalkStep
  <2>2. ASSUME NEW b \in Full(t)
        PROVE  \E n \in 1..N : get_pos(t, w[n]) = b
    <3> DEFINE n == Rank(t, b) + 1
    <3>1. n \in 1..N /\ w[n] = get_iter(t, b) /\ get_pos(t, get_iter(t, b)) = b
      BY WalkBuckets
    <3> HIDE DEF n, w
    <3> QED BY <3>1
  <2> HIDE DEF w, N
  <2> QED BY <2>1, <2>2
<1>7. ASSUME NEW n \in 1..N
      PROVE  /\ get_iter(t, get_pos(t, w[n])) = w[n]
             /\ unsafe_get(t, get_pos(t, w[n])) = deref(t, w[n])
             /\ increment(t, w[n]) = IF n = Len(w) THEN EndOf(t) ELSE w[n + 1]
             /\ decrement(t, increment(t, w[n])) = w[n]
             /\ n > 1 => get_pos(t, w[n - 1]) < get_pos(t, w[n])
  <2>1. PICK b \in Full(t) :
               /\ Rank(t, b) + 1 = n /\ get_pos(t, w[n]) = b /\ w[n] = get_iter(t, b)
               /\ unsafe_get(t, b) = deref(t, w[n])
               /\ increment(t, w[n]) = IF n = N THEN EndOf(t) ELSE w[n + 1]
               /\ decrement(t, increment(t, w[n])) = w[n]
    BY WalkStep
  <2>2. ASSUME n > 1
        PROVE  get_pos(t, w[n - 1]) < get_pos(t, w[n])
    <3>1. n - 1 \in 1..N
      BY <1>3, <2>2
    <3>2. PICK a \in Full(t) : Rank(t, a) + 1 = n - 1 /\ get_pos(t, w[n - 1]) = a
      BY <3>1, WalkStep
    <3>3. Rank(t, a) \in Nat /\ Rank(t, b) \in Nat
      BY RanksInOrder
    <3>4. Rank(t, a) < Rank(t, b)
      BY <2>1, <3>2, <3>3
    <3>5. a < b
      BY <3>4, RanksInOrder
    <3> QED BY <2>1, <3>2, <3>5
  <2> HIDE DEF w, N
  <2> QED BY <1>4, <2>1, <2>2
<1>8. \A n \in DOMAIN w :
           /\ get_iter(t, get_pos(t, w[n])) = w[n]
           /\ unsafe_get(t, get_pos(t, w[n])) = deref(t, w[n])
           /\ increment(t, w[n]) = IF n = Len(w) THEN EndOf(t) ELSE w[n + 1]
           /\ decrement(t, increment(t, w[n])) = w[n]
           /\ n > 1 => get_pos(t, w[n - 1]) < get_pos(t, w[n])
  <2> HIDE DEF w
  <2> QED BY <1>4, <1>7
<1>9. {get_pos(t, w[n]) : n \in DOMAIN w} = full
  BY <1>1, <1>4, <1>6
<1> HIDE DEF w, full
<1>10. N = Cardinality(full) /\ Len(w) = N
  BY <1>1, <1>3, <1>4
<1> HIDE DEF N
<1> QED BY <1>2, <1>3, <1>5, <1>8, <1>9, <1>10 DEF TableOK, w, full, N

\* A loop that erases as it goes meets what is left, each value once.
LEMMA EraseGoesOn ==
  ASSUME NEW t, Shaped(t), NEW n \in 1..t.num_buckets
  PROVE  LET left == erase_at(t, Walk(t)[n])
         IN  /\ \E b \in Full(t) : /\ Rank(t, b) + 1 = n
                                   /\ left.table = erase_bucket(t, b)
                                   /\ unsafe_get(t, b) = deref(t, Walk(t)[n])
             /\ Elements(left.table) = RemoveAt(Elements(t), n)
             /\ left.it = IF n = t.num_buckets THEN EndOf(left.table)
                          ELSE Walk(left.table)[n]
<1> DEFINE left == erase_at(t, Walk(t)[n])
           N == t.num_buckets
<1>1. PICK b \in Full(t) : Rank(t, b) + 1 = n
  BY WalkOnto
<1> DEFINE r == group_num(b) + 1
           c == pos_to_offset(which_group(t, b).bitmap, pos_in_group(b)) + 1
           u == erase_bucket(t, b)
<1>2. /\ r \in 1..Len(t.groups) /\ c \in 1..t.groups[r].num_buckets
      /\ n = Before(t, r - 1) + c
      /\ get_iter(t, b) = [row |-> r, col |-> c - 1]
      /\ Walk(t)[n] = get_iter(t, b)
      /\ unsafe_get(t, b) = deref(t, get_iter(t, b))
  BY <1>1, WalkBuckets
<1>3. left.table = u
  BY <1>2, EraseAtBucket
<1>4. Took(t, b, u)
  BY EraseTakes
<1>5. /\ Shaped(u) /\ u.table_size = t.table_size /\ Full(u) = Full(t) \ {b}
      /\ \A a \in Full(u) : unsafe_get(u, a) = unsafe_get(t, a)
  BY <1>4 DEF Took
<1>6. r = group_num(b) + 1 /\ b \in Nat /\ group_num(b) \in Nat
  <2>1. b \in Nat
    BY FullNaturals
  <2> QED BY <2>1, Coordinates
<1> HIDE DEF r, c, u
<1>7. N \in Nat /\ u.num_buckets = N - 1 /\ Full(t) \in SUBSET Nat /\ IsFiniteSet(Full(t))
  <2>1. N = Cardinality(Full(t)) /\ IsFiniteSet(Full(t)) /\ N \in Nat /\ Full(t) \in SUBSET Nat
    BY FullNaturals
  <2>2. u.num_buckets = Cardinality(Full(t) \ {b})
    BY <1>5, FullNaturals
  <2>3. Cardinality(Full(t) \ {b}) = Cardinality(Full(t)) - 1
    BY <2>1, FS_RemoveElement
  <2> QED BY <2>1, <2>2, <2>3
<1>8. \A p \in Nat : /\ pos_to_offset(Full(t), p)
                          = pos_to_offset(Full(u), p) + (IF b < p THEN 1 ELSE 0)
                     /\ pos_to_offset(Full(u), p) \in Nat
  <2> TAKE p \in Nat
  <2>1. pos_to_offset(Full(t), p)
          = pos_to_offset(Full(t) \ {b}, p) + (IF b < p THEN 1 ELSE 0)
    BY <1>7, RankRemove
  <2>2. pos_to_offset(Full(u), p) \in Nat
    BY <1>5, FullNaturals, RankBounds
  <2> QED BY <1>5, <2>1, <2>2
<1>9. Elements(u) = RemoveAt(Elements(t), n)
  <2> DEFINE e == Elements(t)
             f == Elements(u)
             g == RemoveAt(e, n)
  <2>1. e \in Seq(Value) /\ Len(e) = N /\ f \in Seq(Value) /\ Len(f) = N - 1
    BY <1>5, <1>7, ElementsAre
  <2>2. g \in Seq(Value) /\ Len(g) = N - 1
        /\ \A m \in 1..(N - 1) : g[m] = IF m < n THEN e[m] ELSE e[m + 1]
    <3>1. n \in 1..N
      OBVIOUS
    <3> HIDE DEF e, N
    <3>2. n \in 1..Len(e)
      BY <2>1, <3>1
    <3> QED BY <1>7, <2>1, <3>2, RemovedAt
  <2>3. ASSUME NEW m \in 1..(N - 1)
        PROVE  f[m] = g[m]
    <3>1. PICK a \in Full(u) : Rank(u, a) + 1 = m /\ f[m] = unsafe_get(u, a)
      BY <1>5, <1>7, ElementsAre
    <3>2. a \in Full(t) /\ a # b /\ a \in Nat /\ unsafe_get(u, a) = unsafe_get(t, a)
      BY <1>5, <1>7
    <3>3. Rank(t, a) = Rank(u, a) + (IF b < a THEN 1 ELSE 0) /\ Rank(u, a) \in Nat
      BY <1>8, <3>2 DEF Rank
    <3>4. e[Rank(t, a) + 1] = unsafe_get(t, a)
      BY <3>2, ElementsAre
    <3>5. Rank(t, b) \in Nat /\ Rank(t, a) \in Nat /\ Rank(t, a) # Rank(t, b)
          /\ (Rank(t, a) < Rank(t, b) => a < b) /\ (Rank(t, b) < Rank(t, a) => b < a)
      BY <3>2, RanksInOrder
    <3> HIDE DEF e, f, g, N
    <3>6. CASE b < a
      <4>1. Rank(t, a) + 1 = m + 1 /\ ~(m < n)
        BY <1>1, <1>6, <3>1, <3>2, <3>3, <3>5, <3>6
      <4> QED BY <2>2, <3>1, <3>2, <3>4, <4>1
    <3>7. CASE ~(b < a)
      <4>1. Rank(t, a) + 1 = m /\ m < n
        BY <1>1, <1>6, <3>1, <3>2, <3>3, <3>5, <3>7
      <4> QED BY <2>2, <3>1, <3>2, <3>4, <4>1
    <3> QED BY <3>6, <3>7
  <2> HIDE DEF e, f, g, N
  <2>4. f = g
    BY <2>1, <2>2, <2>3
  <2> QED BY <2>4 DEF e, f, g
<1>10. /\ Before(u, r - 1) = Before(t, r - 1) /\ Before(t, r - 1) \in Nat
       /\ u.groups[r].num_buckets = t.groups[r].num_buckets - 1
       /\ r \in 1..Len(u.groups)
  <2>1. Len(u.groups) = Len(t.groups) /\ Len(t.groups) \in Nat
    BY <1>5 DEF Shaped, TableType
  <2>2. r - 1 \in Nat /\ r \in Nat /\ r - 1 = group_num(b)
    BY <1>2, <1>6
  <2>3. r * GROUP_SIZE \in Nat /\ (b < r * GROUP_SIZE <=> group_num(b) < r)
    BY <1>6, <2>2, GroupBase
  <2>4. (r - 1) * GROUP_SIZE \in Nat /\ (b < (r - 1) * GROUP_SIZE <=> group_num(b) < r - 1)
    <3> DEFINE q == r - 1
    <3> HIDE DEF q
    <3>1. q * GROUP_SIZE \in Nat /\ (b < q * GROUP_SIZE <=> group_num(b) < q)
      BY <1>6, <2>2, GroupBase DEF q
    <3> QED BY <3>1 DEF q
  <2>5. group_num(b) < r /\ ~(group_num(b) < r - 1)
    BY <1>6, <2>2
  <2>6. Before(t, r) = Before(u, r) + 1 /\ Before(u, r) \in Nat
    BY <1>8, <2>3, <2>5 DEF Before
  <2>7. Before(t, r - 1) = Before(u, r - 1) /\ Before(u, r - 1) \in Nat
    <3> DEFINE p == (r - 1) * GROUP_SIZE
    <3>1. p \in Nat /\ ~(b < p) /\ Before(t, r - 1) = pos_to_offset(Full(t), p)
          /\ Before(u, r - 1) = pos_to_offset(Full(u), p)
      BY <2>4, <2>5 DEF Before
    <3> HIDE DEF p
    <3> QED BY <1>8, <3>1
  <2>8. Before(t, r) = Before(t, r - 1) + t.groups[r].num_buckets
        /\ Before(u, r) = Before(u, r - 1) + u.groups[r].num_buckets
    BY <1>2, <1>5, <2>1, BeforeFacts
  <2>9. Packed(t.groups[r]) /\ Packed(u.groups[r])
    BY <1>2, <1>5, <2>1 DEF Shaped
  <2>10. t.groups[r].num_buckets \in Nat /\ u.groups[r].num_buckets \in Nat
    BY <2>9 DEF Packed, GroupType
  <2>11. u.groups[r].num_buckets = t.groups[r].num_buckets - 1
    <3> DEFINE x == Before(t, r - 1)
               y == t.groups[r].num_buckets
               z == u.groups[r].num_buckets
    <3>1. x \in Nat /\ y \in Nat /\ z \in Nat /\ x + y = (x + z) + 1
      BY <2>6, <2>7, <2>8, <2>10
    <3> HIDE DEF x, y, z
    <3>2. z = y - 1
      BY <3>1
    <3> QED BY <3>2 DEF y, z
  <2>12. r \in 1..Len(u.groups)
    BY <1>2, <2>1
  <2> QED BY <2>7, <2>11, <2>12
<1>11. left.it = advance_past_end(u, [row |-> r, col |-> c - 1])
  <2> DEFINE it == get_iter(t, b)
             col == IF t.groups[it.row].num_buckets =< 1 THEN 0 ELSE it.col
  <2>1. it = [row |-> r, col |-> c - 1]
    BY <1>2
  <2>2. left.it = advance_past_end(u, [it EXCEPT !.col = col])
    BY <1>2, <1>3 DEF erase_at
  <2>3. Packed(t.groups[r])
    BY <1>2 DEF Shaped
  <2>4. t.groups[r].num_buckets \in Nat
    BY <2>3 DEF Packed, GroupType
  <2>5. col = c - 1
    <3> HIDE DEF it
    <3> QED BY <1>2, <2>1, <2>4
  <2> HIDE DEF col, it
  <2>6. [it EXCEPT !.col = col] = [row |-> r, col |-> c - 1]
    BY <2>1, <2>5
  <2> QED BY <2>2, <2>6
<1>12. left.it = IF n = N THEN EndOf(u) ELSE Walk(u)[n]
  <2> DEFINE k == c - 1
             m == Before(u, r - 1) + k
  <2>1. k \in 0..u.groups[r].num_buckets
    <3>1. Packed(t.groups[r])
      BY <1>2 DEF Shaped
    <3>2. t.groups[r].num_buckets \in Nat
      BY <3>1 DEF Packed, GroupType
    <3> QED BY <1>2, <1>10, <3>2
  <2>2. m + 1 = n /\ (m = N - 1 <=> n = N)
    <3> HIDE DEF N
    <3>1. c \in Int
      BY <1>2
    <3> QED BY <1>2, <1>7, <1>10, <3>1
  <2> HIDE DEF k
  <2>3. advance_past_end(u, [row |-> r, col |-> k])
          = IF m = u.num_buckets THEN EndOf(u) ELSE Walk(u)[m + 1]
    BY <1>5, <1>10, <2>1, Advance
  <2> HIDE DEF m, N
  <2> QED BY <1>7, <1>11, <2>2, <2>3 DEF k
<1> HIDE DEF left, N
<1>13. \E a \in Full(t) : /\ Rank(t, a) + 1 = n /\ left.table = erase_bucket(t, a)
                          /\ unsafe_get(t, a) = deref(t, Walk(t)[n])
  BY <1>1, <1>2, <1>3 DEF u
<1> QED BY <1>3, <1>9, <1>12, <1>13 DEF left, N

-----------------------------------------------------------------------------
(* Probes                                                                  *)

LEMMA PowerSteps ==
  /\ power_of_two \in [0..LargestPower -> Nat] /\ power_of_two[0] = 1
  /\ \A n \in 1..LargestPower : power_of_two[n] = 2 * power_of_two[n - 1]
<1> DEFINE L == LargestPower
           Step(f) == [n \in 0..L |-> IF n = 0 THEN 1 ELSE 2 * f[n - 1]]
           F == [n \in 1..L |-> [x \in Nat |-> 2 * x]]
           p == CHOOSE f : f = Step(f)
<1>1. power_of_two = p
  BY DEF power_of_two
<1>2. L \in Nat
  BY HashtableAssumption
<1> HIDE DEF L
<1>3. PICK f \in [0..L -> Nat] : Solves(f, L, 1, F)
  <2>1. F \in [1..L -> [Nat -> Nat]] /\ 1 \in Nat
    OBVIOUS
  <2> HIDE DEF F
  <2> QED BY <1>2, <2>1, StepsExist
<1>4. f = Step(f)
  <2>1. ASSUME NEW n \in 0..L
        PROVE  f[n] = IF n = 0 THEN 1 ELSE 2 * f[n - 1]
    <3>1. CASE n = 0
      BY <1>3, <3>1 DEF Solves
    <3>2. CASE n # 0
      <4>1. n \in 1..L /\ f[n - 1] \in Nat
        BY <1>2, <3>2
      <4> QED BY <1>3, <3>2, <4>1 DEF Solves
    <3> QED BY <3>1, <3>2
  <2> QED BY <2>1
<1>5. p = Step(p)
  <2> HIDE DEF Step
  <2> QED BY <1>4
<1>6. \A n \in 0..L : p[n] = IF n = 0 THEN 1 ELSE 2 * p[n - 1]
  <2>1. \A n \in 0..L : p[n] = Step(p)[n]
    <3> HIDE DEF p, Step
    <3> QED BY <1>5
  <2> HIDE DEF p
  <2> QED BY <2>1
<1>7. p = [n \in 0..L |-> p[n]]
  <2> DEFINE q == Step(p)
  <2>1. q = [n \in 0..L |-> q[n]]
    OBVIOUS
  <2> HIDE DEF q, p
  <2> QED BY <1>5, <2>1 DEF q
<1> HIDE DEF p
<1> DEFINE T == {n \in 0..L : p[n] \in Nat}
<1>8. T = 0..L
  <2>1. 0 \in T /\ T \in SUBSET (0..L)
    BY <1>2, <1>6
  <2>2. ASSUME NEW k \in 1..L, k - 1 \in T
        PROVE  k \in T
    BY <1>6, <2>2
  <2> HIDE DEF T
  <2> QED BY <1>2, <2>1, <2>2, UpTo
<1>9. p \in [0..L -> Nat] /\ p[0] = 1 /\ \A n \in 1..L : p[n] = 2 * p[n - 1]
  <2>1. \A n \in 0..L : p[n] \in Nat
    BY <1>8
  <2>2. p \in [0..L -> Nat]
    BY <1>7, <2>1
  <2>3. 0 \in 0..L /\ \A n \in 1..L : n \in 0..L /\ n # 0
    BY <1>2
  <2> QED BY <1>6, <2>2, <2>3
<1> QED BY <1>1, <1>9 DEF L

\* What a power of two and an odd number make is a multiple of the power.
LEMMA OddDivides ==
  ASSUME NEW j \in 0..LargestPower
  PROVE  \A a, y, q \in Nat : power_of_two[j] * q = (2 * a + 1) * y
                                => \E z \in Nat : y = power_of_two[j] * z
<1> DEFINE Divides(i) == \A a, y, q \in Nat : power_of_two[i] * q = (2 * a + 1) * y
                            => \E z \in Nat : y = power_of_two[i] * z
           T == {i \in 0..LargestPower : Divides(i)}
<1>1. LargestPower \in Nat /\ power_of_two[0] = 1
  BY PowerSteps, HashtableAssumption
<1>2. 0 \in T
  <2>1. ASSUME NEW y \in Nat
        PROVE  \E z \in Nat : y = 1 * z
    BY <2>1
  <2> QED BY <1>1, <2>1
<1>3. ASSUME NEW i \in 1..LargestPower, i - 1 \in T
      PROVE  i \in T
  <2> DEFINE p == power_of_two[i - 1]
  <2>1. p \in Nat /\ power_of_two[i] = 2 * p /\ i \in 0..LargestPower
    BY <1>1, PowerSteps
  <2>2. \A a, y, q \in Nat : p * q = (2 * a + 1) * y => \E z \in Nat : y = p * z
    BY <1>3
  <2> HIDE DEF p
  <2>3. ASSUME NEW a \in Nat, NEW y \in Nat, NEW q \in Nat, (2 * p) * q = (2 * a + 1) * y
        PROVE  \E z \in Nat : y = (2 * p) * z
    <3> DEFINE x == a * y
               w == p * q
               h == w - x
    <3>1. x \in Nat /\ w \in Nat /\ (2 * p) * q = 2 * w /\ (2 * a + 1) * y = 2 * x + y
      BY <2>1
    <3>2. y = 2 * h /\ h \in Nat
      <4> HIDE DEF x, w
      <4> QED BY <2>3, <3>1
    <3> HIDE DEF h
    <3>3. (2 * a + 1) * y = 2 * ((2 * a + 1) * h)
      BY <3>2
    <3>4. w = (2 * a + 1) * h /\ (2 * a + 1) * h \in Nat
      <4> DEFINE v == (2 * a + 1) * h
      <4>1. v \in Nat
        BY <3>2
      <4> HIDE DEF v, w
      <4>2. 2 * w = 2 * v
        BY <2>3, <3>1, <3>3 DEF v
      <4> QED BY <3>1, <4>1, <4>2 DEF v
    <3>5. PICK z \in Nat : h = p * z
      BY <2>2, <3>2, <3>4
    <3>6. y = (2 * p) * z
      BY <2>1, <3>2, <3>5
    <3> QED BY <3>6
  <2>4. \A a, y, q \in Nat : (2 * p) * q = (2 * a + 1) * y => \E z \in Nat : y = (2 * p) * z
    BY <2>3
  <2>5. Divides(i)
    <3> SUFFICES ASSUME NEW a \in Nat, NEW y \in Nat, NEW q \in Nat,
                        power_of_two[i] * q = (2 * a + 1) * y
                 PROVE  \E z \in Nat : y = power_of_two[i] * z
      OBVIOUS
    <3> DEFINE u == power_of_two[i]
    <3>1. u = 2 * p /\ u * q = (2 * a + 1) * y
      BY <2>1
    <3> HIDE DEF u
    <3>2. (2 * p) * q = (2 * a + 1) * y
      BY <3>1
    <3>3. PICK z \in Nat : y = (2 * p) * z
      BY <2>4, <3>2
    <3>4. y = u * z
      BY <3>1, <3>3
    <3> QED BY <3>4 DEF u
  <2> HIDE DEF Divides
  <2> QED BY <2>1, <2>5
<1>4. T = 0..LargestPower
  <2>1. T \in SUBSET (0..LargestPower)
    OBVIOUS
  <2> HIDE DEF T
  <2> QED BY <1>1, <1>2, <1>3, <2>1, UpTo
<1> QED BY <1>4

LEMMA Triangular ==
  ASSUME NEW n \in Nat
  PROVE  /\ (n * (n + 1)) \div 2 \in Nat /\ n * (n + 1) = 2 * ((n * (n + 1)) \div 2)
<1>1. PICK a \in Nat : n = 2 * a \/ n = 2 * a + 1
  <2>1. n \div 2 \in Nat /\ (n = 2 * (n \div 2) \/ n = 2 * (n \div 2) + 1)
    OBVIOUS
  <2> QED BY <2>1
<1>2. \E k \in Nat : n * (n + 1) = 2 * k
  <2>1. CASE n = 2 * a
    <3>1. n * (n + 1) = 2 * (a * (2 * a + 1)) /\ a * (2 * a + 1) \in Nat
      BY <2>1
    <3> QED BY <3>1
  <2>2. CASE n = 2 * a + 1
    <3>1. n * (n + 1) = 2 * ((2 * a + 1) * (a + 1)) /\ (2 * a + 1) * (a + 1) \in Nat
      BY <2>2
    <3> QED BY <3>1
  <2> QED BY <1>1, <2>1, <2>2
<1>3. PICK k \in Nat : n * (n + 1) = 2 * k
  BY <1>2
<1> DEFINE m == n * (n + 1)
<1>4. m = 2 * k
  BY <1>3
<1> HIDE DEF m
<1>5. m \div 2 = k
  BY <1>4
<1> QED BY <1>4, <1>5 DEF m

LEMMA DivMod ==
  ASSUME NEW sz \in Nat, sz > 0, NEW a \in Nat
  PROVE  a \div sz \in Nat /\ a % sz \in 0..(sz - 1) /\ a = sz * (a \div sz) + (a % sz)
<1> DEFINE x == a \div sz
           r == a % sz
<1>1. x \in Int /\ r \in 0..(sz - 1) /\ a = sz * x + r
  OBVIOUS
<1> HIDE DEF x, r
<1>2. x >= 0
  BY <1>1
<1>3. x \in Nat
  BY <1>1, <1>2
<1> QED BY <1>1, <1>3 DEF x, r

\* Numbers with the same remainder differ by a multiple.
LEMMA SameRemainder ==
  ASSUME NEW sz \in Nat, sz > 0, NEW a \in Nat, NEW b \in Nat, b =< a, a % sz = b % sz
  PROVE  \E q \in Nat : a - b = sz * q
<1> DEFINE x == a \div sz
           y == b \div sz
           r == a % sz
<1>1. x \in Int /\ r \in 0..(sz - 1) /\ a = sz * x + r
  BY DivMod
<1>2. y \in Int /\ b = sz * y + r
  <2>1. b = sz * (b \div sz) + (b % sz) /\ b \div sz \in Nat
    BY DivMod
  <2> QED BY <2>1
<1> HIDE DEF x, y, r
<1>3. a - b = sz * (x - y)
  BY <1>1, <1>2
<1>4. x - y >= 0
  BY <1>1, <1>2
<1> QED BY <1>1, <1>2, <1>3, <1>4

LEMMA PowersArePositive ==
  /\ PowersOfTwo \in SUBSET Nat
  /\ \A sz \in PowersOfTwo : sz >= 1 /\ \E j \in 0..LargestPower : sz = power_of_two[j]
<1> DEFINE T == {n \in 0..LargestPower : power_of_two[n] \in Nat /\ power_of_two[n] >= 1}
<1>1. LargestPower \in Nat
  BY HashtableAssumption
<1>2. T = 0..LargestPower
  <2>1. T \in SUBSET (0..LargestPower) /\ 0 \in T
    BY <1>1, PowerSteps
  <2>2. ASSUME NEW k \in 1..LargestPower, k - 1 \in T
        PROVE  k \in T
    <3>1. power_of_two[k] = 2 * power_of_two[k - 1] /\ power_of_two[k - 1] \in Nat
          /\ power_of_two[k - 1] >= 1
      BY <2>2, PowerSteps
    <3>2. power_of_two[k] \in Nat /\ power_of_two[k] >= 1
      BY <3>1
    <3> QED BY <3>2
  <2> HIDE DEF T
  <2> QED BY <1>1, <2>1, <2>2, UpTo
<1> QED BY <1>2 DEF PowersOfTwo

\* Two probes for a key go to two buckets, in a table of a power of two.
LEMMA ProbesDiffer ==
  ASSUME NEW sz \in PowersOfTwo, NEW h \in Nat,
         NEW n \in 0..(sz - 1), NEW m \in 0..(sz - 1), m < n
  PROVE  (h + (n * (n + 1)) \div 2) % sz # (h + (m * (m + 1)) \div 2) % sz
<1> DEFINE k1 == (n * (n + 1)) \div 2
           k2 == (m * (m + 1)) \div 2
<1>1. SUFFICES ASSUME (h + k1) % sz = (h + k2) % sz
               PROVE  FALSE
  OBVIOUS
<1>2. /\ n \in Nat /\ m \in Nat /\ sz \in Nat /\ sz > 0 /\ n < sz /\ m < sz
      /\ \E j \in 0..LargestPower : sz = power_of_two[j]
  <2>1. sz \in Nat /\ sz >= 1
    BY PowersArePositive
  <2> QED BY <2>1, PowersArePositive
<1>3. k1 \in Nat /\ n * (n + 1) = 2 * k1 /\ k2 \in Nat /\ m * (m + 1) = 2 * k2
  BY <1>2, Triangular
<1> HIDE DEF k1, k2
<1> DEFINE d == n - m
           s == (n + m) + 1
<1>4. d \in Nat /\ s \in Nat /\ d > 0 /\ d < sz /\ s < 2 * sz /\ s > 0 /\ n = m + d /\ s = 2 * m + d + 1
  BY <1>2
<1>5. 2 * (k1 - k2) = d * s
  <2>1. d * s = n * (n + 1) - m * (m + 1)
    BY <1>2
  <2> HIDE DEF d, s
  <2> QED BY <1>3, <2>1
<1> HIDE DEF d, s
<1>6. d * s \in Nat
  BY <1>4
<1>7. k2 =< k1
  <2> DEFINE x == d * s
  <2>1. x \in Nat /\ 2 * (k1 - k2) = x
    BY <1>5, <1>6
  <2> HIDE DEF x
  <2> QED BY <1>3, <2>1
<1>8. PICK q \in Nat : k1 - k2 = sz * q
  <2> DEFINE a == h + k1
             b == h + k2
  <2>1. a \in Nat /\ b \in Nat /\ b =< a /\ a % sz = b % sz /\ a - b = k1 - k2
    BY <1>1, <1>3, <1>7
  <2> HIDE DEF a, b
  <2>2. \E q \in Nat : a - b = sz * q
    BY <1>2, <2>1, SameRemainder
  <2> QED BY <2>1, <2>2
<1>9. PICK j \in 0..LargestPower : sz = power_of_two[j]
  BY <1>2
<1>10. \A a, y, p \in Nat : sz * p = (2 * a + 1) * y => \E z \in Nat : y = sz * z
  BY <1>9, OddDivides
<1>11. sz * (2 * q) = d * s
  BY <1>2, <1>4, <1>5, <1>8
\* The even factor is twice something the power divides, and is too small.
<1>12. ASSUME NEW a \in Nat, NEW y \in Nat, sz * (2 * q) = (2 * a + 1) * y, y > 0
       PROVE  y >= 2 * sz
  <2> DEFINE x == a * y
             w == sz * q
             v == w - x
  <2>1. x \in Nat /\ w \in Nat /\ sz * (2 * q) = 2 * w /\ (2 * a + 1) * y = 2 * x + y
    BY <1>2
  <2>2. y = 2 * v /\ v \in Nat
    <3> HIDE DEF x, w
    <3> QED BY <1>12, <2>1
  <2> HIDE DEF v
  <2>3. (2 * a + 1) * y = 2 * ((2 * a + 1) * v)
    BY <2>2
  <2>4. w = (2 * a + 1) * v
    <3> DEFINE u == (2 * a + 1) * v
    <3>1. u \in Nat
      BY <2>2
    <3> HIDE DEF u, w
    <3>2. 2 * w = 2 * u
      BY <1>12, <2>1, <2>3 DEF u
    <3> QED BY <2>1, <3>1, <3>2 DEF u
  <2>5. PICK z \in Nat : v = sz * z
    BY <1>10, <2>2, <2>4
  <2>6. z >= 1
    <3>1. z = 0 => v = 0
      BY <1>2, <2>5
    <3> QED BY <1>12, <2>2, <3>1
  <2>7. v >= sz
    <3>1. PICK e \in Nat : z = e + 1
      <4>1. z - 1 \in Nat /\ z = (z - 1) + 1
        BY <2>6
      <4> QED BY <4>1
    <3>2. v = sz * e + sz /\ sz * e \in Nat
      BY <1>2, <2>5, <3>1
    <3> DEFINE u == sz * e
    <3>3. v = u + sz /\ u \in Nat
      BY <3>2
    <3> HIDE DEF u
    <3> QED BY <1>2, <3>3
  <2> QED BY <1>2, <2>2, <2>7
<1>13. PICK c \in Nat : d = 2 * c \/ d = 2 * c + 1
  <2>1. d \div 2 \in Nat /\ (d = 2 * (d \div 2) \/ d = 2 * (d \div 2) + 1)
    BY <1>4
  <2> QED BY <2>1
<1>14. CASE d = 2 * c + 1
  <2>1. sz * (2 * q) = (2 * c + 1) * s
    BY <1>11, <1>14
  <2>2. s >= 2 * sz
    BY <1>4, <1>12, <2>1
  <2> QED BY <1>2, <1>4, <2>2
<1>15. CASE d = 2 * c
  <2>1. s = 2 * (m + c) + 1 /\ m + c \in Nat
    BY <1>2, <1>4, <1>15
  <2>2. sz * (2 * q) = (2 * (m + c) + 1) * d
    <3>1. d * s = s * d
      BY <1>4
    <3> QED BY <1>11, <2>1, <3>1
  <2> DEFINE a == m + c
  <2>3. a \in Nat /\ sz * (2 * q) = (2 * a + 1) * d
    BY <2>1, <2>2
  <2> HIDE DEF a
  <2>4. d >= 2 * sz
    BY <1>4, <1>12, <2>3
  <2> QED BY <1>2, <1>4, <2>4
<1> QED BY <1>13, <1>14, <1>15

\* The probes for a key pass every bucket.
LEMMA ProbesReach ==
  ASSUME NEW key \in Key, NEW sz \in PowersOfTwo, NEW b \in 0..(sz - 1)
  PROVE  \E n \in 0..(sz - 1) : Probe(key, n, sz) = b
<1> DEFINE S == 0..(sz - 1)
           f == [n \in S |-> Probe(key, n, sz)]
           h == Hash[key]
<1>1. sz \in Nat /\ sz > 0 /\ h \in Nat
  <2>1. sz \in Nat /\ sz >= 1
    BY PowersArePositive
  <2> QED BY <2>1, HashtableAssumption
<1>2. f \in [S -> S]
  <2>1. ASSUME NEW n \in S
        PROVE  Probe(key, n, sz) \in S
    <3> DEFINE k == (n * (n + 1)) \div 2
    <3>1. n \in Nat
      BY <1>1
    <3>2. k \in Nat
      BY <3>1, Triangular
    <3> HIDE DEF k
    <3>3. (h + k) % sz \in 0..(sz - 1)
      <4>1. h + k \in Nat
        BY <1>1, <3>2
      <4> QED BY <1>1, <4>1, DivMod
    <3> QED BY <3>3 DEF Probe, k
  <2> QED BY <2>1
<1>3. \A n, m \in S : f[n] = f[m] => n = m
  <2>1. ASSUME NEW n \in S, NEW m \in S, m < n
        PROVE  f[n] # f[m]
    BY <1>1, <2>1, ProbesDiffer DEF Probe
  <2> SUFFICES ASSUME NEW n \in S, NEW m \in S, f[n] = f[m]
               PROVE  n = m
    OBVIOUS
  <2>2. n \in Nat /\ m \in Nat
    BY <1>1
  <2>3. ~(m < n) /\ ~(n < m)
    BY <2>1
  <2> QED BY <2>2, <2>3
<1> HIDE DEF f
<1>4. IsFiniteSet(S)
  <2>1. 0 \in Int /\ sz - 1 \in Int
    BY <1>1
  <2> QED BY <2>1, FS_Interval
<1> HIDE DEF S
<1>5. f \in Injection(S, S)
  BY <1>2, <1>3 DEF Injection, IsInjective
<1>6. f \in Surjection(S, S)
  BY <1>4, <1>5, FS_Injection
<1>7. \E n \in S : f[n] = b
  BY <1>6 DEF Surjection, S
<1> QED BY <1>7 DEF f, S

\* The first of the probes for a key that meets one of some buckets.
LEMMA FirstMet ==
  ASSUME NEW t, NEW key \in Key, t.table_size \in PowersOfTwo,
         NEW stops, NEW b \in stops, b \in Probes(t)
  PROVE  LET n == FirstProbe(t, key, stops)
         IN  /\ n \in Probes(t) /\ n \in Nat
             /\ Probe(key, n, t.table_size) \in stops
             /\ \A m \in 0..(n - 1) : Probe(key, m, t.table_size) \notin stops
             /\ Lands(t, key, stops)
<1> DEFINE sz == t.table_size
           Hits == {n \in Probes(t) : Probe(key, n, sz) \in stops}
           First(n) == /\ Probe(key, n, sz) \in stops
                       /\ \A m \in 0..(n - 1) : Probe(key, m, sz) \notin stops
<1>1. PICK x \in Probes(t) : Probe(key, x, sz) = b
  BY ProbesReach DEF Probes
<1>2. sz \in Nat
  BY PowersArePositive
<1>3. PICK n \in Hits : \A y \in Hits : n <= y
  <2>1. Hits \in SUBSET Nat /\ Hits # {}
    BY <1>1, <1>2 DEF Probes
  <2> HIDE DEF Hits
  <2> QED BY <2>1, LeastNumber
<1>4. n \in Probes(t) /\ First(n)
  <2>1. ASSUME NEW m \in 0..(n - 1)
        PROVE  Probe(key, m, sz) \notin stops
    <3>1. n \in 0..(sz - 1)
      BY DEF Probes
    <3>2. m \in Probes(t) /\ ~(n <= m)
      BY <1>2, <3>1 DEF Probes
    <3> QED BY <1>3, <3>2
  <2> QED BY <2>1
<1> HIDE DEF First
<1>5. FirstProbe(t, key, stops) \in Probes(t) /\ First(FirstProbe(t, key, stops))
  <2>1. FirstProbe(t, key, stops) = CHOOSE y \in Probes(t) : First(y)
    BY DEF FirstProbe, First
  <2> QED BY <1>4, <2>1
<1>6. FirstProbe(t, key, stops) \in Nat
  BY <1>2, <1>5 DEF Probes
<1>7. Lands(t, key, stops)
  BY <1>1 DEF Lands
<1> QED BY <1>5, <1>6, <1>7 DEF First

-----------------------------------------------------------------------------
(* Tables of keys                                                          *)

Keys(t) == {unsafe_get(t, b) : b \in Full(t)}

\* A search for the key goes by n full or erased buckets to the bucket b.
Leads(t, key, n, b) ==
  /\ n \in Nat /\ Probe(key, n, t.table_size) = b
  /\ \A m \in 0..(n - 1) : Probe(key, m, t.table_size) \in Full(t) \cup Marks(t)

\* Every key is in one bucket, which its probes come to before a free one.
Sound(t) ==
  /\ Shaped(t) /\ t.table_size \in PowersOfTwo
  /\ \A b \in Full(t) : unsafe_get(t, b) \in Key
  /\ \A a, b \in Full(t) : unsafe_get(t, a) = unsafe_get(t, b) => a = b
  /\ \A b \in Full(t) : \E n \in Nat : Leads(t, unsafe_get(t, b), n, b)

LEMMA ProbeInside ==
  ASSUME NEW key \in Key, NEW n \in Nat, NEW sz \in PowersOfTwo
  PROVE  Probe(key, n, sz) \in 0..(sz - 1)
<1> DEFINE k == (n * (n + 1)) \div 2
<1>1. sz \in Nat /\ sz > 0 /\ Hash[key] \in Nat
  <2>1. sz \in Nat /\ sz >= 1
    BY PowersArePositive
  <2> QED BY <2>1, HashtableAssumption
<1>2. k \in Nat
  BY Triangular
<1> HIDE DEF k
<1>3. Hash[key] + k \in Nat
  BY <1>1, <1>2
<1>4. (Hash[key] + k) % sz \in 0..(sz - 1)
  BY <1>1, <1>3, DivMod
<1> QED BY <1>4 DEF Probe, k

LEMMA KeysCount ==
  ASSUME NEW t, Sound(t)
  PROVE  /\ IsFiniteSet(Keys(t)) /\ Cardinality(Keys(t)) = t.num_buckets
         /\ t.num_buckets = Cardinality(Full(t)) /\ t.num_buckets \in Nat
         /\ Keys(t) \in SUBSET Key
<1> DEFINE f == [b \in Full(t) |-> unsafe_get(t, b)]
<1>1. IsFiniteSet(Full(t)) /\ t.num_buckets = Cardinality(Full(t)) /\ t.num_buckets \in Nat
  BY FullNaturals DEF Sound
<1>2. f \in [Full(t) -> Keys(t)] /\ (\A a, b \in Full(t) : f[a] = f[b] => a = b)
      /\ \A k \in Keys(t) : \E b \in Full(t) : f[b] = k
  BY DEF Sound, Keys
<1> HIDE DEF f
<1>3. f \in Bijection(Full(t), Keys(t))
  BY <1>2 DEF Bijection, Injection, Surjection, IsInjective
<1>4. IsFiniteSet(Keys(t)) /\ Cardinality(Keys(t)) = Cardinality(Full(t))
  BY <1>1, <1>3, FS_Bijection DEF ExistsBijection
<1>5. Keys(t) \in SUBSET Key
  BY DEF Sound, Keys
<1> QED BY <1>1, <1>4, <1>5

LEMMA NewTableSound ==
  ASSUME NEW sz \in PowersOfTwo
  PROVE  Sound(NewTable(sz)) /\ Keys(NewTable(sz)) = {} /\ NewTable(sz).num_buckets = 0
<1>1. sz \in Nat
  BY PowersArePositive
<1>2. /\ Shaped(NewTable(sz)) /\ Full(NewTable(sz)) = {}
      /\ NewTable(sz).table_size = sz
  BY <1>1, NewTableEmpty
<1>3. Keys(NewTable(sz)) = {}
  BY <1>2 DEF Keys
<1> QED BY <1>2, <1>3 DEF Sound, NewTable

\* What an insertion of a new key makes of such a table.
Gained(t, key, b, u) ==
  /\ Sound(u) /\ u.table_size = t.table_size
  /\ Keys(u) = Keys(t) \cup {key} /\ u.num_buckets = t.num_buckets + 1
  /\ Full(u) = Full(t) \cup {b} /\ Marks(u) = Marks(t) \ {b}
  /\ Cardinality(Marks(u)) = Cardinality(Marks(t)) - (IF b \in Marks(t) THEN 1 ELSE 0)

LEMMA InsertGains ==
  ASSUME NEW t, Sound(t), NEW key \in Key, key \notin Keys(t),
         NEW b \in Probes(t), b \notin Full(t),
         NEW n \in Nat, Leads(t, key, n, b)
  PROVE  Gained(t, key, b, set(t, b, key))
<1> DEFINE u == set(t, b, key)
<1>1. Shaped(t)
  BY DEF Sound
<1>2. key \in Value
  BY DEF Value
<1>3. Put(t, b, key, u)
  BY <1>1, <1>2, SetPuts
<1> HIDE DEF u
<1>4. /\ Shaped(u) /\ u.table_size = t.table_size
      /\ Full(u) = Full(t) \cup {b} /\ Marks(u) = Marks(t) \ {b}
      /\ unsafe_get(u, b) = key
      /\ \A a \in Full(t) : unsafe_get(u, a) = unsafe_get(t, a)
  BY <1>3 DEF Put
<1>5. \A a \in Full(t) : unsafe_get(t, a) # key
  BY DEF Keys
<1>6. Keys(u) = Keys(t) \cup {key}
  <2>1. ASSUME NEW k
        PROVE  k \in Keys(u) <=> k \in Keys(t) \cup {key}
    BY <1>4 DEF Keys
  <2> QED BY <2>1
<1>7. Full(t) \cup Marks(t) \subseteq Full(u) \cup Marks(u)
  BY <1>4
<1>8. \A k, m, a : Leads(t, k, m, a) => Leads(u, k, m, a)
  BY <1>4, <1>7 DEF Leads
<1>9. Sound(u)
  <2>1. u.table_size \in PowersOfTwo
    BY <1>4 DEF Sound
  <2>2. \A a \in Full(u) : unsafe_get(u, a) \in Key
    BY <1>4 DEF Sound
  <2>3. \A a, c \in Full(u) : unsafe_get(u, a) = unsafe_get(u, c) => a = c
    BY <1>4, <1>5 DEF Sound
  <2>4. ASSUME NEW a \in Full(u)
        PROVE  \E m \in Nat : Leads(u, unsafe_get(u, a), m, a)
    <3>1. CASE a = b
      BY <1>4, <1>8, <3>1
    <3>2. CASE a # b
      <4>1. a \in Full(t) /\ unsafe_get(u, a) = unsafe_get(t, a)
        BY <1>4, <3>2
      <4>2. PICK m \in Nat : Leads(t, unsafe_get(t, a), m, a)
        BY <4>1 DEF Sound
      <4> QED BY <1>8, <4>1, <4>2
    <3> QED BY <3>1, <3>2
  <2> QED BY <1>4, <2>1, <2>2, <2>3, <2>4 DEF Sound
<1>10. u.num_buckets = t.num_buckets + 1
  <2>1. IsFiniteSet(Full(t)) /\ t.num_buckets = Cardinality(Full(t)) /\ t.num_buckets \in Nat
    BY <1>1, FullNaturals
  <2>2. u.num_buckets = Cardinality(Full(t) \cup {b})
    BY <1>4, FullNaturals
  <2>3. Cardinality(Full(t) \cup {b}) = Cardinality(Full(t)) + 1
    BY <2>1, FS_AddElement
  <2> QED BY <2>1, <2>2, <2>3
<1>11. Cardinality(Marks(u)) = Cardinality(Marks(t)) - (IF b \in Marks(t) THEN 1 ELSE 0)
  <2>1. IsFiniteSet(Marks(t)) /\ Cardinality(Marks(t)) \in Nat
    BY <1>1, FullFinite
  <2>2. CASE b \in Marks(t)
    <3>1. Cardinality(Marks(t) \ {b}) = Cardinality(Marks(t)) - 1
      BY <2>1, <2>2, FS_RemoveElement
    <3> QED BY <1>4, <2>2, <3>1
  <2>3. CASE b \notin Marks(t)
    <3>1. Marks(u) = Marks(t)
      BY <1>4, <2>3
    <3> QED BY <2>1, <2>3, <3>1
  <2> QED BY <2>2, <2>3
<1>12. Gained(t, key, b, u)
  BY <1>4, <1>6, <1>9, <1>10, <1>11 DEF Gained
<1> QED BY <1>12 DEF u

\* What an erasure makes of it.
Lost(t, b, u) ==
  /\ Sound(u) /\ u.table_size = t.table_size
  /\ Keys(u) = Keys(t) \ {unsafe_get(t, b)} /\ u.num_buckets = t.num_buckets - 1
  /\ Full(u) \cup Marks(u) = Full(t) \cup Marks(t)
  /\ Cardinality(Marks(u)) = Cardinality(Marks(t)) + 1

LEMMA EraseLoses ==
  ASSUME NEW t, Sound(t), NEW b \in Full(t)
  PROVE  Lost(t, b, erase_bucket(t, b))
<1> DEFINE u == erase_bucket(t, b)
<1>1. Shaped(t)
  BY DEF Sound
<1>3. Took(t, b, u)
  BY <1>1, EraseTakes
<1> HIDE DEF u
<1>4. /\ Shaped(u) /\ u.table_size = t.table_size
      /\ Full(u) = Full(t) \ {b} /\ Marks(u) = Marks(t) \cup {b}
      /\ \A a \in Full(u) : unsafe_get(u, a) = unsafe_get(t, a)
  BY <1>3 DEF Took
<1>5. Keys(u) = Keys(t) \ {unsafe_get(t, b)}
  <2>1. ASSUME NEW k
        PROVE  k \in Keys(u) <=> k \in Keys(t) \ {unsafe_get(t, b)}
    BY <1>4 DEF Keys, Sound
  <2> QED BY <2>1
<1>7. Full(t) \cup Marks(t) = Full(u) \cup Marks(u)
  BY <1>4
<1>8. \A k, m, a : Leads(t, k, m, a) => Leads(u, k, m, a)
  BY <1>4, <1>7 DEF Leads
<1>9. Sound(u)
  <2>1. u.table_size \in PowersOfTwo
    BY <1>4 DEF Sound
  <2>2. \A a \in Full(u) : unsafe_get(u, a) \in Key
    BY <1>4 DEF Sound
  <2>3. \A a, c \in Full(u) : unsafe_get(u, a) = unsafe_get(u, c) => a = c
    BY <1>4 DEF Sound
  <2>4. ASSUME NEW a \in Full(u)
        PROVE  \E m \in Nat : Leads(u, unsafe_get(u, a), m, a)
    <3>1. a \in Full(t) /\ unsafe_get(u, a) = unsafe_get(t, a)
      BY <1>4
    <3>2. PICK m \in Nat : Leads(t, unsafe_get(t, a), m, a)
      BY <3>1 DEF Sound
    <3> QED BY <1>8, <3>1, <3>2
  <2> QED BY <1>4, <2>1, <2>2, <2>3, <2>4 DEF Sound
<1>10. u.num_buckets = t.num_buckets - 1
  <2>1. IsFiniteSet(Full(t)) /\ t.num_buckets = Cardinality(Full(t)) /\ t.num_buckets \in Nat
    BY <1>1, FullNaturals
  <2>2. u.num_buckets = Cardinality(Full(t) \ {b})
    BY <1>4, FullNaturals
  <2>3. Cardinality(Full(t) \ {b}) = Cardinality(Full(t)) - 1
    BY <2>1, FS_RemoveElement
  <2> QED BY <2>1, <2>2, <2>3
<1>11. Cardinality(Marks(u)) = Cardinality(Marks(t)) + 1
  <2>1. IsFiniteSet(Marks(t)) /\ Cardinality(Marks(t)) \in Nat /\ b \notin Marks(t)
    BY <1>1, FullFinite
  <2>2. Cardinality(Marks(t) \cup {b}) = Cardinality(Marks(t)) + 1
    BY <2>1, FS_AddElement
  <2> QED BY <1>4, <2>2
<1>12. Lost(t, b, u)
  BY <1>4, <1>5, <1>7, <1>9, <1>10, <1>11 DEF Lost
<1> QED BY <1>12 DEF u

-----------------------------------------------------------------------------
(* Searches                                                                *)

\* Some bucket is neither full nor erased.
Roomy(t) == t.num_buckets + Cardinality(Marks(t)) < t.table_size

LEMMA FreeExists ==
  ASSUME NEW t, Sound(t), Roomy(t)
  PROVE  \E b \in Free(t) : b \in Probes(t)
<1>1. /\ IsFiniteSet(Full(t)) /\ IsFiniteSet(Marks(t))
      /\ Cardinality(Full(t)) \in Nat /\ Cardinality(Marks(t)) \in Nat
      /\ IsFiniteSet(Probes(t)) /\ Cardinality(Probes(t)) = t.table_size
      /\ Full(t) \subseteq Probes(t) /\ Marks(t) \subseteq Probes(t)
      /\ Full(t) \cap Marks(t) = {}
      /\ Free(t) = Probes(t) \ (Full(t) \cup Marks(t))
  BY FullFinite DEF Sound
<1>2. t.num_buckets = Cardinality(Full(t))
  BY DEF Sound, Shaped
<1>3. Cardinality(Full(t) \cup Marks(t)) = Cardinality(Full(t)) + Cardinality(Marks(t))
  <2>1. Cardinality(Full(t) \cup Marks(t))
          = Cardinality(Full(t)) + Cardinality(Marks(t)) - Cardinality(Full(t) \cap Marks(t))
    BY <1>1, FS_Union
  <2>2. Cardinality(Full(t) \cap Marks(t)) = 0
    BY <1>1, FS_EmptySet, Zenon
  <2> QED BY <1>1, <2>1, <2>2
<1>4. Full(t) \cup Marks(t) # Probes(t)
  <2>1. Cardinality(Full(t)) + Cardinality(Marks(t)) # t.table_size
    BY <1>1, <1>2 DEF Roomy
  <2> QED BY <1>1, <1>3, <2>1, Zenon
<1> QED BY <1>1, <1>4

\* Where the search of find, erase and find_position ends.
Ends(t, key) == FirstProbe(t, key, Free(t) \cup Holding(t, key))

LEMMA SearchEnds ==
  ASSUME NEW t, Sound(t), Roomy(t), NEW key \in Key
  PROVE  LET b == Probe(key, Ends(t, key), t.table_size)
         IN  /\ Leads(t, key, Ends(t, key), b)
             /\ b \in Probes(t) /\ b \in Free(t) \cup Holding(t, key)
             /\ b \in Holding(t, key) <=> key \in Keys(t)
             /\ b \in Holding(t, key) => b \in Full(t) /\ unsafe_get(t, b) = key
             /\ b \notin Holding(t, key) => b \in Free(t)
             /\ Lands(t, key, Free(t))
<1> DEFINE sz == t.table_size
           stop == Ends(t, key)
           b == Probe(key, stop, sz)
           stops == Free(t) \cup Holding(t, key)
<1>1. Shaped(t) /\ sz \in PowersOfTwo
  BY DEF Sound
<1>2. PICK f \in Free(t) : f \in Probes(t)
  BY FreeExists
<1>3. /\ stop \in Probes(t) /\ stop \in Nat /\ b \in stops
      /\ \A m \in 0..(stop - 1) : Probe(key, m, sz) \notin stops
  <2>1. f \in stops
    OBVIOUS
  <2> HIDE DEF stops
  <2>2. LET n == FirstProbe(t, key, stops)
        IN  /\ n \in Probes(t) /\ n \in Nat
            /\ Probe(key, n, sz) \in stops
            /\ \A m \in 0..(n - 1) : Probe(key, m, sz) \notin stops
            /\ Lands(t, key, stops)
    BY <1>1, <1>2, <2>1, FirstMet
  <2> QED BY <2>2 DEF Ends, stops
<1>4. Lands(t, key, Free(t))
  <2> DEFINE free == Free(t)
  <2> HIDE DEF free
  <2>1. f \in free
    BY DEF free
  <2>2. Lands(t, key, free)
    BY <1>1, <1>2, <2>1, FirstMet
  <2> QED BY <2>2 DEF free
<1>5. Free(t) = Probes(t) \ (Full(t) \cup Marks(t))
  BY <1>1, FullFinite
<1>6. \A c : c \in Holding(t, key) <=> c \in Full(t) /\ unsafe_get(t, c) = key
  BY DEF Holding, Full
<1>7. Probes(t) = 0..(sz - 1) /\ sz \in Nat
  BY <1>1, PowersArePositive DEF Probes
<1>8. b \in Probes(t)
  BY <1>1, <1>3, <1>7, ProbeInside
<1>9. Leads(t, key, stop, b)
  <2>1. ASSUME NEW m \in 0..(stop - 1)
        PROVE  Probe(key, m, sz) \in Full(t) \cup Marks(t)
    <3>1. m \in Nat
      BY <1>3
    <3>2. Probe(key, m, sz) \in Probes(t)
      BY <1>1, <1>7, <3>1, ProbeInside
    <3>3. Probe(key, m, sz) \notin Free(t)
      BY <1>3
    <3> QED BY <1>5, <3>2, <3>3
  <2> QED BY <1>3, <2>1 DEF Leads
<1>10. b \in Holding(t, key) => key \in Keys(t)
  BY <1>6 DEF Keys
<1>11. ASSUME key \in Keys(t)
       PROVE  b \in Holding(t, key)
  <2>1. PICK c \in Full(t) : unsafe_get(t, c) = key
    BY <1>11 DEF Keys
  <2>2. c \in Holding(t, key)
    BY <1>6, <2>1
  <2>3. PICK n \in Nat : Leads(t, key, n, c)
    BY <2>1 DEF Sound
  <2>4. CASE b \in Free(t)
    \* The probes for the key pass no free bucket before its own.
    <3>1. ~(stop < n)
      <4>1. ASSUME stop < n
            PROVE  FALSE
        <5>1. stop \in 0..(n - 1)
          BY <1>3, <4>1
        <5>2. b \in Full(t) \cup Marks(t)
          BY <2>3, <5>1 DEF Leads
        <5> QED BY <1>5, <2>4, <5>2
      <4> QED BY <4>1
    <3>2. ~(n < stop)
      <4>1. ASSUME n < stop
            PROVE  FALSE
        <5>1. n \in 0..(stop - 1)
          BY <1>3, <4>1
        <5>2. Probe(key, n, sz) \notin stops /\ Probe(key, n, sz) = c
          BY <1>3, <2>3, <5>1 DEF Leads
        <5> QED BY <2>2, <5>2
      <4> QED BY <4>1
    <3>3. n = stop
      BY <1>3, <3>1, <3>2
    <3>4. b = c
      BY <2>3, <3>3 DEF Leads
    <3> QED BY <2>2, <3>4
  <2>5. CASE b \notin Free(t)
    BY <1>3, <2>5
  <2> QED BY <2>4, <2>5
<1> HIDE DEF stop, b
<1>12. /\ Leads(t, key, stop, b)
       /\ b \in Probes(t) /\ b \in Free(t) \cup Holding(t, key)
       /\ b \in Holding(t, key) <=> key \in Keys(t)
       /\ b \in Holding(t, key) => b \in Full(t) /\ unsafe_get(t, b) = key
       /\ b \notin Holding(t, key) => b \in Free(t)
       /\ Lands(t, key, Free(t))
  BY <1>3, <1>4, <1>6, <1>8, <1>9, <1>10, <1>11
<1> QED BY <1>12 DEF b, stop

\* What find_position finds: the key, or the bucket to put it in.
Located(t, key, pos) ==
  /\ key \in Keys(t) => /\ pos.t = "full" /\ pos.idx \in Full(t)
                        /\ unsafe_get(t, pos.idx) = key
  /\ key \notin Keys(t) => /\ pos.t # "full" /\ pos.idx \in Probes(t) \ Full(t)
                           /\ pos.t = "erased" <=> pos.idx \in Marks(t)
                           /\ \E n \in Nat : Leads(t, key, n, pos.idx)

LEMMA PositionFound ==
  ASSUME NEW h, Sound(h.table), Roomy(h.table), NEW key \in Key
  PROVE  Located(h.table, key, find_position(h, key))
<1> DEFINE t == h.table
           sz == t.table_size
           stop == Ends(t, key)
           b == Probe(key, stop, sz)
           holds == Holding(t, key)
           erased == {n \in 0..(stop - 1) : ~test(t, Probe(key, n, sz))}
           first == CHOOSE n \in erased : \A m \in erased : n =< m
           pos == find_position(h, key)
<1>1. /\ Leads(t, key, stop, b) /\ b \in Probes(t)
      /\ b \in holds <=> key \in Keys(t)
      /\ b \in holds => b \in Full(t) /\ unsafe_get(t, b) = key
      /\ b \notin holds => b \in Free(t)
  BY SearchEnds
<1>2. pos = IF b \in holds THEN [t |-> "full", idx |-> b]
            ELSE IF erased = {} THEN [t |-> "empty", idx |-> b]
            ELSE [t |-> "erased", idx |-> Probe(key, first, sz)]
  BY DEF find_position, bucket_count, Ends
<1>3. stop \in Nat /\ \A m \in 0..(stop - 1) : Probe(key, m, sz) \in Full(t) \cup Marks(t)
  BY <1>1 DEF Leads
<1>4. Shaped(t) /\ Free(t) = Probes(t) \ (Full(t) \cup Marks(t)) /\ Full(t) \cap Marks(t) = {}
      /\ Full(t) \subseteq Probes(t) /\ Marks(t) \subseteq Probes(t)
  BY FullFinite DEF Sound
<1> SUFFICES Located(t, key, pos)
  OBVIOUS
<1> HIDE DEF t, pos, b, stop
<1>5. CASE b \in holds
  <2>1. pos.t = "full" /\ pos.idx = b
    BY <1>2, <1>5
  <2>2. key \in Keys(t) /\ b \in Full(t) /\ unsafe_get(t, b) = key
    BY <1>1, <1>5
  <2> HIDE DEF holds, sz, erased, first
  <2> QED BY <2>1, <2>2 DEF Located
<1>6. CASE b \notin holds /\ erased = {}
  <2>1. pos.t = "empty" /\ pos.idx = b
    BY <1>2, <1>6
  <2>2. key \notin Keys(t) /\ b \in Probes(t) \ Full(t) /\ b \notin Marks(t)
    BY <1>1, <1>4, <1>6
  <2>3. \E n \in Nat : Leads(t, key, n, b)
    BY <1>1, <1>3
  <2>4. pos.t # "full" /\ pos.t # "erased"
    BY <2>1
  <2> HIDE DEF holds, sz, erased, first
  <2> QED BY <2>1, <2>2, <2>3, <2>4 DEF Located
<1>7. CASE b \notin holds /\ erased # {}
  <2>1. erased \in SUBSET Nat
    BY <1>3
  <2>2. first \in erased /\ \A m \in erased : first =< m
    <3> HIDE DEF erased
    <3>1. \E n \in erased : \A m \in erased : n =< m
      BY <1>7, <2>1, LeastNumber
    <3> QED BY <3>1
  <2>3. pos.t = "erased" /\ pos.idx = Probe(key, first, sz)
    BY <1>2, <1>7
  <2> HIDE DEF first
  <2>4. first \in 0..(stop - 1) /\ ~test(t, Probe(key, first, sz)) /\ first \in Nat
    BY <2>1, <2>2
  <2>5. Probe(key, first, sz) \in Marks(t)
    <3>1. Probe(key, first, sz) \in Full(t) \cup Marks(t)
      BY <1>3, <2>4
    <3> QED BY <2>4, <3>1 DEF Full
  <2>6. Leads(t, key, first, Probe(key, first, sz))
    <3>1. \A m \in 0..(first - 1) : m \in 0..(stop - 1)
      BY <1>3, <2>4
    <3> QED BY <1>3, <2>4, <3>1 DEF Leads
  <2>7. key \notin Keys(t)
    BY <1>1, <1>7
  <2> DEFINE i == Probe(key, first, sz)
  <2>8. pos.t = "erased" /\ pos.idx = i /\ pos.t # "full"
    BY <2>3
  <2>9. i \in Probes(t) \ Full(t) /\ i \in Marks(t) /\ \E n \in Nat : Leads(t, key, n, i)
    BY <1>4, <2>4, <2>5, <2>6
  <2> HIDE DEF i, holds, sz, erased
  <2> QED BY <2>7, <2>8, <2>9 DEF Located
<1> QED BY <1>5, <1>6, <1>7

\* find and count.
LEMMA LookupRight ==
  ASSUME NEW h, Sound(h.table), Roomy(h.table), NEW key \in Key
  PROVE  /\ IF key \in Keys(h.table)
            THEN find(h, key) # EndOf(h.table) /\ deref(h.table, find(h, key)) = key
            ELSE find(h, key) = EndOf(h.table)
         /\ count(h, key) = IF key \in Keys(h.table) THEN 1 ELSE 0
<1> DEFINE t == h.table
           b == Probe(key, Ends(t, key), t.table_size)
           holds == Holding(t, key)
<1>1. /\ b \in holds <=> key \in Keys(t)
      /\ b \in holds => b \in Full(t) /\ unsafe_get(t, b) = key
  BY SearchEnds
<1>2. find(h, key) = IF b \in holds THEN get_iter(t, b) ELSE EndOf(t)
  BY DEF find, bucket_count, Ends
<1>3. count(h, key) = IF key \in Keys(t) THEN 1 ELSE 0
  BY PositionFound DEF Located, count
<1> HIDE DEF b
<1>4. ASSUME key \in Keys(t)
      PROVE  find(h, key) # EndOf(t) /\ deref(t, find(h, key)) = key
  <2>1. b \in Full(t) /\ unsafe_get(t, b) = key /\ find(h, key) = get_iter(t, b) /\ Shaped(t)
    BY <1>1, <1>2, <1>4 DEF Sound
  <2> HIDE DEF t
  <2>2. deref(t, get_iter(t, b)) = unsafe_get(t, b)
        /\ get_iter(t, b).row \in 1..Len(t.groups)
    BY <2>1, WalkBuckets
  <2>3. EndOf(t).row \notin 1..Len(t.groups)
    <3>1. Len(t.groups) \in Nat
      BY <2>1 DEF Shaped, TableType
    <3> QED BY <3>1 DEF EndOf
  <2> QED BY <2>1, <2>2, <2>3
<1> QED BY <1>1, <1>2, <1>3, <1>4

\* operator==.
LEMMA EqualsRight ==
  ASSUME NEW g, NEW h, Sound(g.table), Sound(h.table), Roomy(h.table)
  PROVE  EqualTables(g, h) <=> Keys(g.table) = Keys(h.table)
<1> DEFINE w == Elements(g.table)
           N == g.table.num_buckets
<1>1. /\ IsFiniteSet(Keys(g.table)) /\ Cardinality(Keys(g.table)) = N
      /\ IsFiniteSet(Keys(h.table)) /\ Cardinality(Keys(h.table)) = h.table.num_buckets
      /\ Keys(g.table) \in SUBSET Key
  BY KeysCount
<1>2. /\ Len(w) = N /\ DOMAIN w = 1..N
      /\ \A b \in Full(g.table) : /\ Rank(g.table, b) + 1 \in 1..N
                                  /\ w[Rank(g.table, b) + 1] = unsafe_get(g.table, b)
      /\ \A n \in 1..N : \E b \in Full(g.table) : w[n] = unsafe_get(g.table, b)
  BY ElementsAre DEF Sound
<1>3. \A k \in Key : find(h, k) # EndOf(h.table) <=> k \in Keys(h.table)
  BY LookupRight
<1> HIDE DEF w
<1>4. (\A n \in DOMAIN w : find(h, w[n]) # EndOf(h.table)) <=> Keys(g.table) \subseteq Keys(h.table)
  <2>1. ASSUME Keys(g.table) \subseteq Keys(h.table), NEW n \in DOMAIN w
        PROVE  find(h, w[n]) # EndOf(h.table)
    <3>1. w[n] \in Keys(g.table)
      BY <1>2 DEF Keys
    <3> QED BY <1>1, <1>3, <2>1, <3>1
  <2>2. ASSUME \A n \in DOMAIN w : find(h, w[n]) # EndOf(h.table), NEW k \in Keys(g.table)
        PROVE  k \in Keys(h.table)
    <3>1. PICK b \in Full(g.table) : unsafe_get(g.table, b) = k
      BY DEF Keys
    <3>2. PICK n \in DOMAIN w : w[n] = k
      BY <1>2, <3>1
    <3> QED BY <1>1, <1>3, <2>2, <3>2
  <2> QED BY <2>1, <2>2
<1>5. EqualTables(g, h) <=> N = h.table.num_buckets /\ Keys(g.table) \subseteq Keys(h.table)
  BY <1>4 DEF EqualTables, size, w
<1>6. N = h.table.num_buckets /\ Keys(g.table) \subseteq Keys(h.table)
        => Keys(g.table) = Keys(h.table)
  <2> DEFINE A == Keys(g.table)
             B == Keys(h.table)
  <2> HIDE DEF A, B
  <2>1. SUFFICES ASSUME N = h.table.num_buckets, A \subseteq B
                 PROVE  A = B
    BY DEF A, B
  <2>2. IsFiniteSet(B) /\ A \in SUBSET B /\ Cardinality(B) = Cardinality(A)
    BY <1>1, <2>1 DEF A, B
  <2> QED BY <2>2, FS_Subset
<1>7. Keys(g.table) = Keys(h.table) => N = h.table.num_buckets
  BY <1>1
<1> QED BY <1>5, <1>6, <1>7

-----------------------------------------------------------------------------
(* Sizes of tables                                                         *)

Largest == power_of_two[LargestPower]

\* The factors a set can have.
Factors == {HT_OCCUPANCY_PCT} \cup {p[2] : p \in ResizingParams}

\* The largest table has room for so many, whatever the factor.
Room(n) == n \in Nat /\ \A grow \in Factors : n < (Largest * grow) \div 100

LEMMA FactorsAre == Factors \in SUBSET (1..99)
<1>1. HT_OCCUPANCY_PCT \in 1..99
  BY HashtableAssumption
<1>2. ASSUME NEW p \in ResizingParams
      PROVE  p[2] \in 1..99
  <2>1. p \in (0..99) \X (1..99)
    BY SetAssumption
  <2> QED BY <2>1
<1> QED BY <1>1, <1>2 DEF Factors

LEMMA LargestIs ==
  /\ Largest \in PowersOfTwo /\ Largest \in Nat
  /\ \A sz \in PowersOfTwo : sz =< Largest
<1>1. LargestPower \in Nat /\ LargestPower \in 0..LargestPower
  BY HashtableAssumption
<1>2. Largest \in PowersOfTwo /\ Largest \in Nat
  <2>1. Largest \in PowersOfTwo
    BY <1>1 DEF Largest, PowersOfTwo
  <2> QED BY <2>1, PowersArePositive
<1> DEFINE T == {k \in 0..LargestPower : power_of_two[LargestPower - k] =< Largest}
<1>3. 0 \in T
  BY <1>1, <1>2 DEF Largest
<1>4. ASSUME NEW k \in 1..LargestPower, k - 1 \in T
      PROVE  k \in T
  <2>1. LargestPower - (k - 1) \in 1..LargestPower /\ LargestPower - k \in 0..LargestPower
        /\ (LargestPower - (k - 1)) - 1 = LargestPower - k /\ k \in 0..LargestPower
    BY <1>1
  <2>2. power_of_two[LargestPower - (k - 1)] = 2 * power_of_two[(LargestPower - (k - 1)) - 1]
    BY <2>1, PowerSteps
  <2>3. power_of_two[LargestPower - k] \in Nat
    BY <2>1, PowerSteps
  <2>4. power_of_two[LargestPower - (k - 1)] =< Largest
    BY <1>4
  <2>5. power_of_two[LargestPower - k] =< Largest
    BY <1>2, <2>1, <2>2, <2>3, <2>4
  <2> QED BY <2>1, <2>5
<1>5. T = 0..LargestPower
  <2>1. T \in SUBSET (0..LargestPower)
    OBVIOUS
  <2> HIDE DEF T
  <2> QED BY <1>1, <1>3, <1>4, <2>1, UpTo
<1>6. ASSUME NEW sz \in PowersOfTwo
      PROVE  sz =< Largest
  <2>1. PICK j \in 0..LargestPower : sz = power_of_two[j]
    BY PowersArePositive
  <2>2. LargestPower - j \in 0..LargestPower /\ LargestPower - (LargestPower - j) = j
    BY <1>1
  <2>3. LargestPower - j \in T
    <3> HIDE DEF T
    <3> QED BY <1>5, <2>2
  <2> QED BY <2>1, <2>2, <2>3
<1> QED BY <1>2, <1>6

\* A table is never as full as it is large.
LEMMA EnlargeBelow ==
  ASSUME NEW s, s.enlarge_factor \in 1..99, NEW sz \in Nat
  PROVE  enlarge_size(s, sz) \in Nat /\ enlarge_size(s, sz) =< sz
         /\ (sz > 0 => enlarge_size(s, sz) < sz)
<1> DEFINE f == s.enlarge_factor
           x == sz * f
<1>1. x \in Nat /\ x =< sz * 99
  OBVIOUS
<1>2. enlarge_size(s, sz) = x \div 100
  BY DEF enlarge_size
<1> HIDE DEF x
<1>3. x \div 100 \in Nat /\ 100 * (x \div 100) =< x
  BY <1>1
<1> QED BY <1>1, <1>2, <1>3

\* Settings, whatever the thresholds.
Knobs(s) ==
  /\ s = [enlarge_threshold |-> s.enlarge_threshold, shrink_threshold |-> s.shrink_threshold,
          enlarge_factor |-> s.enlarge_factor, shrink_factor |-> s.shrink_factor,
          consider_shrink |-> s.consider_shrink]
  /\ s.enlarge_factor \in Factors

LEMMA MinBucketsFound ==
  ASSUME NEW s, Knobs(s), NEW n, Room(n), NEW wanted \in Nat, wanted =< Largest
  PROVE  LET sz == min_buckets(s, n, wanted)
         IN  /\ sz \in PowersOfTwo /\ sz \in Nat
             /\ sz >= HT_MIN_BUCKETS /\ sz >= wanted /\ n < sz
<1> DEFINE enough == {sz \in PowersOfTwo : /\ sz >= HT_MIN_BUCKETS
                                           /\ sz >= wanted
                                           /\ n < enlarge_size(s, sz)}
           least == min_buckets(s, n, wanted)
<1>1. n \in Nat /\ s.enlarge_factor \in 1..99 /\ s.enlarge_factor \in Factors
  BY FactorsAre DEF Knobs, Room
<1>2. Largest \in enough
  <2>1. HT_MIN_BUCKETS =< Largest
    BY LargestIs, HashtableAssumption
  <2>2. n < enlarge_size(s, Largest)
    BY <1>1 DEF Room, enlarge_size
  <2> QED BY <2>1, <2>2, LargestIs
<1>3. enough \in SUBSET Nat
  BY PowersArePositive
<1>4. PICK sz \in enough : \A other \in enough : sz =< other
  <2> HIDE DEF enough
  <2> QED BY <1>2, <1>3, LeastNumber
<1>5. least \in enough
  <2>1. least = CHOOSE y \in enough : \A other \in enough : y =< other
    BY DEF min_buckets
  <2> HIDE DEF enough, least
  <2> QED BY <1>4, <2>1
<1>6. least \in PowersOfTwo /\ least \in Nat /\ least >= HT_MIN_BUCKETS /\ least >= wanted
      /\ n < enlarge_size(s, least)
  BY <1>3, <1>5
<1> HIDE DEF least, enough
<1>7. n < least
  BY <1>1, <1>6, EnlargeBelow
<1> QED BY <1>6, <1>7 DEF least

-----------------------------------------------------------------------------
(* Rehashing                                                               *)

Fields(h) == h = [settings |-> h.settings, num_deleted |-> h.num_deleted, table |-> h.table]

\* A table just made for a rehash or a copy.
Prepared(h, sz) ==
  /\ Fields(h) /\ Knobs(h.settings)
  /\ h.table = NewTable(sz) /\ h.num_deleted = 0
  /\ h.settings.enlarge_threshold = enlarge_size(h.settings, sz)

LEMMA ResetKnobs ==
  ASSUME NEW s, Knobs(s), NEW sz
  PROVE  LET r == reset_thresholds(s, sz)
         IN  /\ Knobs(r) /\ r.enlarge_factor = s.enlarge_factor
             /\ r.enlarge_threshold = enlarge_size(r, sz)
<1> DEFINE e == enlarge_size(s, sz)
           k == shrink_size(s, sz)
           r == reset_thresholds(s, sz)
<1>1. s = [enlarge_threshold |-> s.enlarge_threshold, shrink_threshold |-> s.shrink_threshold,
           enlarge_factor |-> s.enlarge_factor, shrink_factor |-> s.shrink_factor,
           consider_shrink |-> s.consider_shrink]
      /\ s.enlarge_factor \in Factors
  BY DEF Knobs
<1>2. r = [s EXCEPT !.enlarge_threshold = e, !.shrink_threshold = k, !.consider_shrink = FALSE]
  BY DEF reset_thresholds
<1> HIDE DEF e, k, r
<1>3. r = [enlarge_threshold |-> e, shrink_threshold |-> k,
           enlarge_factor |-> s.enlarge_factor, shrink_factor |-> s.shrink_factor,
           consider_shrink |-> FALSE]
  BY <1>1, <1>2
<1>4. e = enlarge_size(r, sz)
  BY <1>3 DEF e, enlarge_size
<1> QED BY <1>1, <1>3, <1>4 DEF Knobs, r

LEMMA NewIsPrepared ==
  ASSUME NEW s, Knobs(s), NEW sz
  PROVE  Prepared(NewHashtable(sz, s), sz)
BY ResetKnobs DEF NewHashtable, Prepared, Fields

\* What clear leaves of a table with neither keys nor marks, and of others.
LEMMA ClearPrepares ==
  ASSUME NEW h, Fields(h), Knobs(h.settings), NEW sz,
         h.table = NewTable(sz) \/ size(h) # 0 \/ h.num_deleted # 0
  PROVE  \E z \in {sz, HT_DEFAULT_STARTING_BUCKETS} : Prepared(clear(h), z)
<1>1. CASE size(h) # 0 \/ h.num_deleted # 0
  <2>1. clear(h) = NewHashtable(HT_DEFAULT_STARTING_BUCKETS, h.settings)
    BY <1>1 DEF clear
  <2> QED BY <2>1, NewIsPrepared
<1>2. CASE ~(size(h) # 0 \/ h.num_deleted # 0)
  <2> DEFINE r == reset_thresholds(h.settings, sz)
             T == NewTable(sz)
             c == clear(h)
  <2>1. h.table = T /\ h.num_deleted = 0 /\ bucket_count(h) = sz
    BY <1>2 DEF bucket_count, NewTable
  <2>2. c = [h EXCEPT !.settings = reset_thresholds(@, sz)]
    BY <1>2, <2>1 DEF clear
  <2>3. Knobs(r) /\ r.enlarge_threshold = enlarge_size(r, sz)
    BY ResetKnobs
  <2>4. h = [settings |-> h.settings, num_deleted |-> h.num_deleted, table |-> h.table]
    BY DEF Fields
  <2> HIDE DEF T, c
  <2>5. c = [settings |-> r, num_deleted |-> 0, table |-> T]
    <3>1. c = [h EXCEPT !.settings = r]
      BY <2>2, <2>4
    <3> HIDE DEF r
    <3> QED BY <2>1, <2>4, <3>1
  <2> HIDE DEF r
  <2>6. Prepared(c, sz)
    BY <2>3, <2>5 DEF Prepared, Fields, T
  <2> QED BY <2>6 DEF c
<1> QED BY <1>1, <1>2

LEMMA EnlargedPrepares ==
  ASSUME NEW h, NEW less \in Nat, Prepared(h, less), NEW sz \in Nat
  PROVE  Prepared(Enlarged(h, sz), IF sz > less THEN sz ELSE less)
<1>1. bucket_count(h) = less
  BY DEF bucket_count, Prepared, NewTable
<1>2. CASE sz > less
  <2> DEFINE r == reset_thresholds(h.settings, sz)
             T == NewTable(sz)
             c == Enlarged(h, sz)
  <2>1. resize_table(h.table, sz) = T
    BY NewTableEmpty DEF Prepared
  <2>2. Knobs(r) /\ r.enlarge_threshold = enlarge_size(r, sz)
    BY ResetKnobs DEF Prepared
  <2>3. h = [settings |-> h.settings, num_deleted |-> h.num_deleted, table |-> h.table]
        /\ h.num_deleted = 0
    BY DEF Fields, Prepared
  <2>4. c = [h EXCEPT !.table = T, !.settings = r]
    BY <1>1, <1>2, <2>1, <2>3 DEF Enlarged
  <2> HIDE DEF T, c, r
  <2>5. c = [settings |-> r, num_deleted |-> 0, table |-> T]
    BY <2>3, <2>4
  <2>6. Prepared(c, sz)
    BY <2>2, <2>5 DEF Prepared, Fields, T
  <2> QED BY <1>2, <2>6 DEF c
<1>3. CASE ~(sz > less)
  BY <1>1, <1>3 DEF Enlarged
<1> QED BY <1>2, <1>3

\* The bucket a value goes to in a table without marks.
LEMMA VacantFound ==
  ASSUME NEW t, Sound(t), Marks(t) = {}, t.num_buckets < t.table_size, NEW key \in Key
  PROVE  LET b == Vacant(t, key)
         IN  b \in Probes(t) /\ b \notin Full(t) /\ \E n \in Nat : Leads(t, key, n, b)
<1> DEFINE stops == {b \in Probes(t) : ~test(t, b)}
           n == FirstProbe(t, key, stops)
<1>1. Shaped(t) /\ t.table_size \in PowersOfTwo /\ t.num_buckets \in Nat /\ t.table_size \in Nat
  BY KeysCount, PowersArePositive DEF Sound
<1>2. Roomy(t)
  <2>1. Cardinality(Marks(t)) = 0
    BY FS_EmptySet
  <2> QED BY <1>1, <2>1 DEF Roomy
<1>3. PICK a \in Free(t) : a \in Probes(t)
  BY <1>2, FreeExists
<1>4. a \in stops
  BY <1>3, <1>1, FullFinite DEF Full
<1>5. \A b : b \in stops <=> b \in Probes(t) /\ b \notin Full(t)
  BY DEF Full
<1> HIDE DEF stops
<1>6. /\ n \in Probes(t) /\ n \in Nat /\ Probe(key, n, t.table_size) \in stops
      /\ \A m \in 0..(n - 1) : Probe(key, m, t.table_size) \notin stops
  BY <1>1, <1>3, <1>4, FirstMet
<1>7. Vacant(t, key) = Probe(key, n, t.table_size)
  BY DEF Vacant, stops
<1> HIDE DEF n
<1>8. \A m \in 0..(n - 1) : Probe(key, m, t.table_size) \in Full(t)
  <2>1. ASSUME NEW m \in 0..(n - 1)
        PROVE  Probe(key, m, t.table_size) \in Full(t)
    <3>1. m \in Nat
      BY <1>6
    <3>2. Probe(key, m, t.table_size) \in Probes(t)
      BY <1>1, <3>1, ProbeInside DEF Probes
    <3> QED BY <1>5, <1>6, <3>2
  <2> QED BY <2>1
<1>9. Leads(t, key, n, Probe(key, n, t.table_size))
  BY <1>6, <1>8 DEF Leads
<1> QED BY <1>5, <1>6, <1>7, <1>9

\* A table of sz buckets with the first k of the values.
Refilled(t, sz, values, k) ==
  /\ Sound(t) /\ t.table_size = sz /\ Marks(t) = {} /\ t.num_buckets = k
  /\ Keys(t) = {values[j] : j \in 1..k}

LEMMA RefillStep ==
  ASSUME NEW sz \in PowersOfTwo, NEW values \in Seq(Key), NEW k \in 1..Len(values), k =< sz,
         \A i, j \in 1..Len(values) : values[i] = values[j] => i = j,
         NEW t, Refilled(t, sz, values, k - 1)
  PROVE  LET b == Vacant(t, values[k])
         IN  /\ Refilled(set(t, b, values[k]), sz, values, k)
             /\ move(t, b, values[k]) = set(t, b, values[k])
<1> DEFINE b == Vacant(t, values[k])
           u == set(t, b, values[k])
<1>1. /\ Sound(t) /\ t.table_size = sz /\ Marks(t) = {} /\ t.num_buckets = k - 1
      /\ Keys(t) = {values[j] : j \in 1..(k - 1)}
  BY DEF Refilled
<1>2. values[k] \in Key /\ sz \in Nat /\ k \in Nat /\ Len(values) \in Nat
  BY PowersArePositive
<1>3. values[k] \notin Keys(t)
  <2>1. ASSUME NEW j \in 1..(k - 1)
        PROVE  values[j] # values[k]
    <3>1. j \in 1..Len(values) /\ j # k
      BY <1>2
    <3> QED BY <3>1
  <2> QED BY <1>1, <2>1
<1>4. t.num_buckets < t.table_size
  BY <1>1, <1>2
<1>5. b \in Probes(t) /\ b \notin Full(t) /\ \E n \in Nat : Leads(t, values[k], n, b)
  BY <1>1, <1>2, <1>4, VacantFound
<1> HIDE DEF b
<1>6. Gained(t, values[k], b, u)
  BY <1>1, <1>2, <1>3, <1>5, InsertGains
<1>7. move(t, b, values[k]) = u
  <2>1. values[k] \in Value /\ Shaped(t)
    BY <1>1, <1>2 DEF Value, Sound
  <2> QED BY <1>5, <2>1, SetPuts
<1> HIDE DEF u
<1>8. Keys(u) = {values[j] : j \in 1..k}
  <2>1. Keys(u) = {values[j] : j \in 1..(k - 1)} \cup {values[k]}
    BY <1>1, <1>6 DEF Gained
  <2>2. \A j : j \in 1..k <=> j \in 1..(k - 1) \/ j = k
    BY <1>2
  <2> QED BY <2>1, <2>2
<1>9. u.num_buckets = k /\ Marks(u) = {} /\ Sound(u) /\ u.table_size = sz
  BY <1>1, <1>2, <1>6 DEF Gained
<1>10. Refilled(u, sz, values, k)
  BY <1>8, <1>9 DEF Refilled
<1> QED BY <1>7, <1>10 DEF u, b

\* What CopyValues and MoveValues go through, f, is such tables.
LEMMA Refills ==
  ASSUME NEW sz \in PowersOfTwo, NEW values \in Seq(Key), Len(values) =< sz,
         \A i, j \in 1..Len(values) : values[i] = values[j] => i = j,
         NEW f, f[0] = NewTable(sz),
         \A k \in 1..Len(values) :
           LET t == f[k - 1]
               u == set(t, Vacant(t, values[k]), values[k])
           IN  u \in TableType =>
                 f[k] \in {u, move(t, Vacant(t, values[k]), values[k])}
  PROVE  \A k \in 0..Len(values) : Refilled(f[k], sz, values, k)
<1> DEFINE N == Len(values)
           T == {k \in 0..N : Refilled(f[k], sz, values, k)}
<1>1. N \in Nat /\ sz \in Nat
  BY PowersArePositive
<1>2. 0 \in T
  <2>1. Refilled(NewTable(sz), sz, values, 0)
    BY <1>1, NewTableSound, NewTableEmpty DEF Refilled
  <2> QED BY <1>1, <2>1
<1>3. ASSUME NEW k \in 1..N, k - 1 \in T
      PROVE  k \in T
  <2> DEFINE t == f[k - 1]
             b == Vacant(t, values[k])
             u == set(t, b, values[k])
  <2>1. Refilled(t, sz, values, k - 1) /\ k =< sz /\ k \in 0..N
    BY <1>1, <1>3
  <2>2. Refilled(u, sz, values, k) /\ move(t, b, values[k]) = u
    <3> HIDE DEF t
    <3> QED BY <2>1, RefillStep
  <2>3. u \in TableType
    <3> HIDE DEF u
    <3> QED BY <2>2 DEF Refilled, Sound, Shaped
  <2>4. f[k] \in {u, move(t, b, values[k])}
    BY <2>3
  <2> HIDE DEF u, t, b
  <2>5. f[k] = u
    BY <2>2, <2>4
  <2> QED BY <2>1, <2>2, <2>5
<1>4. T = 0..N
  <2>1. T \in SUBSET (0..N)
    OBVIOUS
  <2> HIDE DEF T
  <2> QED BY <1>1, <1>2, <1>3, <2>1, UpTo
<1> QED BY <1>4

\* A table filled anew with the values of a walk.
LEMMA CopiesFill ==
  ASSUME NEW sz \in PowersOfTwo, NEW values \in Seq(Key), Len(values) =< sz,
         \A i, j \in 1..Len(values) : values[i] = values[j] => i = j
  PROVE  Refilled(CopyValues(NewTable(sz), values), sz, values, Len(values))
<1> DEFINE N == Len(values)
           V == TableType
           e == NewTable(sz)
           G(t, k) == set(t, Vacant(t, values[k]), values[k])
           F == [k \in 1..N |-> [t \in V |-> IF G(t, k) \in V THEN G(t, k) ELSE t]]
           Step(f) == [n \in 0..N |-> IF n = 0 THEN e ELSE G(f[n - 1], n)]
           after == CHOOSE f : f = Step(f)
<1>1. N \in Nat /\ N \in 0..N
  OBVIOUS
<1>2. e \in V
  BY NewTableSound DEF Sound, Shaped
<1>3. CopyValues(e, values) = after[N]
  BY DEF CopyValues
<1>4. \A k \in 1..N : \A t : Refilled(t, sz, values, k - 1) =>
        G(t, k) = set(t, Vacant(t, values[k]), values[k]) /\ Refilled(G(t, k), sz, values, k)
  <2>1. ASSUME NEW k \in 1..N, NEW t, Refilled(t, sz, values, k - 1)
        PROVE  G(t, k) = set(t, Vacant(t, values[k]), values[k])
               /\ Refilled(G(t, k), sz, values, k)
    <3>1. k =< sz
      BY PowersArePositive
    <3> QED BY <2>1, <3>1, RefillStep
  <2> QED BY <2>1
<1>5. \A k \in 1..N : \A t : G(t, k) \in {set(t, Vacant(t, values[k]), values[k]),
                                     move(t, Vacant(t, values[k]), values[k])}
  OBVIOUS
<1>6. PICK g \in [0..N -> V] : Solves(g, N, e, F)
  <2>1. F \in [1..N -> [V -> V]]
    OBVIOUS
  <2> HIDE DEF F, e, V
  <2> QED BY <1>1, <1>2, <2>1, StepsExist
<1>7. g[0] = e /\ \A k \in 1..N : g[k] = IF G(g[k - 1], k) \in V THEN G(g[k - 1], k) ELSE g[k - 1]
  <2>1. g[0] = e /\ \A k \in 1..N : g[k] = F[k][g[k - 1]]
    BY <1>6 DEF Solves
  <2>2. \A k \in 1..N : g[k - 1] \in V
    BY <1>1
  <2> HIDE DEF V, e, G
  <2> QED BY <2>1, <2>2
<1>8. \A k \in 0..N : Refilled(g[k], sz, values, k)
  <2>1. \A k \in 1..N :
          LET t == g[k - 1]
              u == set(t, Vacant(t, values[k]), values[k])
          IN  u \in TableType =>
                g[k] \in {u, move(t, Vacant(t, values[k]), values[k])}
    <3>1. SUFFICES ASSUME NEW k \in 1..N,
                          set(g[k - 1], Vacant(g[k - 1], values[k]), values[k]) \in V
                   PROVE  g[k] \in {set(g[k - 1], Vacant(g[k - 1], values[k]), values[k]),
                                    move(g[k - 1], Vacant(g[k - 1], values[k]), values[k])}
      OBVIOUS
    <3>2. G(g[k - 1], k) \in V => g[k] = G(g[k - 1], k)
      BY <1>7
    <3> QED BY <1>5, <3>1, <3>2
  <2> QED BY <1>7, <2>1, Refills
<1>9. g = Step(g)
  <2>1. ASSUME NEW k \in 1..N
        PROVE  g[k] = G(g[k - 1], k)
    <3>1. k - 1 \in 0..N
      BY <1>1
    <3>2. Refilled(G(g[k - 1], k), sz, values, k)
      BY <1>4, <1>8, <3>1
    <3>3. G(g[k - 1], k) \in V
      <4> HIDE DEF G
      <4> QED BY <3>2 DEF Refilled, Sound, Shaped
    <3> QED BY <1>7, <3>3
  <2> HIDE DEF G, e, V
  <2>2. \A k \in 0..N : g[k] = IF k = 0 THEN e ELSE G(g[k - 1], k)
    BY <1>1, <1>7, <2>1
  <2> QED BY <2>2
<1>10. after = Step(after)
  <2> HIDE DEF Step
  <2> QED BY <1>9
<1>11. \A k \in 0..N : after[k] = IF k = 0 THEN e ELSE G(after[k - 1], k)
  <2>1. \A k \in 0..N : after[k] = Step(after)[k]
    <3> HIDE DEF Step, after
    <3> QED BY <1>10
  <2> HIDE DEF after, G, e
  <2> QED BY <2>1
<1> HIDE DEF after
<1>12. \A k \in 0..N : Refilled(after[k], sz, values, k)
  <2>1. after[0] = e /\ \A k \in 1..N : after[k] = G(after[k - 1], k)
    <3> HIDE DEF G, e
    <3> QED BY <1>1, <1>11
  <2>2. \A k \in 1..N :
          LET t == after[k - 1]
              u == set(t, Vacant(t, values[k]), values[k])
          IN  u \in TableType =>
                after[k] \in {u, move(t, Vacant(t, values[k]), values[k])}
    BY <1>5, <2>1
  <2> QED BY <2>1, <2>2, Refills
<1> QED BY <1>1, <1>3, <1>12

\* The same, with the values moved.
LEMMA MovesFill ==
  ASSUME NEW sz \in PowersOfTwo, NEW values \in Seq(Key), Len(values) =< sz,
         \A i, j \in 1..Len(values) : values[i] = values[j] => i = j
  PROVE  Refilled(MoveValues(NewTable(sz), values), sz, values, Len(values))
<1> DEFINE N == Len(values)
           V == TableType
           e == NewTable(sz)
           G(t, k) == move(t, Vacant(t, values[k]), values[k])
           F == [k \in 1..N |-> [t \in V |-> IF G(t, k) \in V THEN G(t, k) ELSE t]]
           Step(f) == [n \in 0..N |-> IF n = 0 THEN e ELSE G(f[n - 1], n)]
           after == CHOOSE f : f = Step(f)
<1>1. N \in Nat /\ N \in 0..N
  OBVIOUS
<1>2. e \in V
  BY NewTableSound DEF Sound, Shaped
<1>3. MoveValues(e, values) = after[N]
  BY DEF MoveValues
<1>4. \A k \in 1..N : \A t : Refilled(t, sz, values, k - 1) =>
        G(t, k) = set(t, Vacant(t, values[k]), values[k]) /\ Refilled(G(t, k), sz, values, k)
  <2>1. ASSUME NEW k \in 1..N, NEW t, Refilled(t, sz, values, k - 1)
        PROVE  G(t, k) = set(t, Vacant(t, values[k]), values[k])
               /\ Refilled(G(t, k), sz, values, k)
    <3>1. k =< sz
      BY PowersArePositive
    <3> QED BY <2>1, <3>1, RefillStep
  <2> QED BY <2>1
<1>5. \A k \in 1..N : \A t : G(t, k) \in {set(t, Vacant(t, values[k]), values[k]),
                                     move(t, Vacant(t, values[k]), values[k])}
  OBVIOUS
<1>6. PICK g \in [0..N -> V] : Solves(g, N, e, F)
  <2>1. F \in [1..N -> [V -> V]]
    OBVIOUS
  <2> HIDE DEF F, e, V
  <2> QED BY <1>1, <1>2, <2>1, StepsExist
<1>7. g[0] = e /\ \A k \in 1..N : g[k] = IF G(g[k - 1], k) \in V THEN G(g[k - 1], k) ELSE g[k - 1]
  <2>1. g[0] = e /\ \A k \in 1..N : g[k] = F[k][g[k - 1]]
    BY <1>6 DEF Solves
  <2>2. \A k \in 1..N : g[k - 1] \in V
    BY <1>1
  <2> HIDE DEF V, e, G
  <2> QED BY <2>1, <2>2
<1>8. \A k \in 0..N : Refilled(g[k], sz, values, k)
  <2>1. \A k \in 1..N :
          LET t == g[k - 1]
              u == set(t, Vacant(t, values[k]), values[k])
          IN  u \in TableType =>
                g[k] \in {u, move(t, Vacant(t, values[k]), values[k])}
    <3>1. SUFFICES ASSUME NEW k \in 1..N,
                          set(g[k - 1], Vacant(g[k - 1], values[k]), values[k]) \in V
                   PROVE  g[k] \in {set(g[k - 1], Vacant(g[k - 1], values[k]), values[k]),
                                    move(g[k - 1], Vacant(g[k - 1], values[k]), values[k])}
      OBVIOUS
    <3>2. G(g[k - 1], k) \in V => g[k] = G(g[k - 1], k)
      BY <1>7
    <3> QED BY <1>5, <3>1, <3>2
  <2> QED BY <1>7, <2>1, Refills
<1>9. g = Step(g)
  <2>1. ASSUME NEW k \in 1..N
        PROVE  g[k] = G(g[k - 1], k)
    <3>1. k - 1 \in 0..N
      BY <1>1
    <3>2. Refilled(G(g[k - 1], k), sz, values, k)
      BY <1>4, <1>8, <3>1
    <3>3. G(g[k - 1], k) \in V
      <4> HIDE DEF G
      <4> QED BY <3>2 DEF Refilled, Sound, Shaped
    <3> QED BY <1>7, <3>3
  <2> HIDE DEF G, e, V
  <2>2. \A k \in 0..N : g[k] = IF k = 0 THEN e ELSE G(g[k - 1], k)
    BY <1>1, <1>7, <2>1
  <2> QED BY <2>2
<1>10. after = Step(after)
  <2> HIDE DEF Step
  <2> QED BY <1>9
<1>11. \A k \in 0..N : after[k] = IF k = 0 THEN e ELSE G(after[k - 1], k)
  <2>1. \A k \in 0..N : after[k] = Step(after)[k]
    <3> HIDE DEF Step, after
    <3> QED BY <1>10
  <2> HIDE DEF after, G, e
  <2> QED BY <2>1
<1> HIDE DEF after
<1>12. \A k \in 0..N : Refilled(after[k], sz, values, k)
  <2>1. after[0] = e /\ \A k \in 1..N : after[k] = G(after[k - 1], k)
    <3> HIDE DEF G, e
    <3> QED BY <1>1, <1>11
  <2>2. \A k \in 1..N :
          LET t == after[k - 1]
              u == set(t, Vacant(t, values[k]), values[k])
          IN  u \in TableType =>
                after[k] \in {u, move(t, Vacant(t, values[k]), values[k])}
    BY <1>5, <2>1
  <2> QED BY <2>1, <2>2, Refills
<1> QED BY <1>1, <1>3, <1>12

\* What is true of the hash table of a set that may be used.
Good(h) ==
  /\ Fields(h) /\ Knobs(h.settings)
  /\ Sound(h.table) /\ Roomy(h.table)
  /\ h.num_deleted = Cardinality(Marks(h.table))
  /\ h.settings.enlarge_threshold = enlarge_size(h.settings, h.table.table_size)

LEMMA GoodFacts ==
  ASSUME NEW h, Good(h)
  PROVE  /\ size(h) = h.table.num_buckets /\ size(h) \in Nat /\ h.num_deleted \in Nat
         /\ bucket_count(h) = h.table.table_size
         /\ bucket_count(h) \in PowersOfTwo /\ bucket_count(h) \in Nat
         /\ bucket_count(h) >= 1 /\ bucket_count(h) =< Largest
         /\ size(h) + h.num_deleted < bucket_count(h)
<1>1. Sound(h.table) /\ Shaped(h.table) /\ h.table.table_size \in PowersOfTwo
      /\ h.num_deleted = Cardinality(Marks(h.table)) /\ Roomy(h.table)
  BY DEF Good, Sound
<1>2. h.table.num_buckets \in Nat /\ Cardinality(Marks(h.table)) \in Nat
  BY <1>1, KeysCount, FullFinite
<1> QED BY <1>1, <1>2, PowersArePositive, LargestIs DEF size, bucket_count, Roomy

\* The keys of a table in the order of a walk.
LEMMA ElementsAreKeys ==
  ASSUME NEW t, Sound(t)
  PROVE  /\ Elements(t) \in Seq(Key) /\ Len(Elements(t)) = t.num_buckets
         /\ \A i, j \in 1..Len(Elements(t)) : Elements(t)[i] = Elements(t)[j] => i = j
         /\ Keys(t) = {Elements(t)[j] : j \in 1..Len(Elements(t))}
         /\ Keys(t) = ToSet(Elements(t))
<1> DEFINE w == Elements(t)
           N == t.num_buckets
<1>1. /\ w \in Seq(Value) /\ Len(w) = N /\ N \in Nat
      /\ \A b \in Full(t) : Rank(t, b) + 1 \in 1..N /\ w[Rank(t, b) + 1] = unsafe_get(t, b)
      /\ \A n \in 1..N : \E b \in Full(t) : Rank(t, b) + 1 = n /\ w[n] = unsafe_get(t, b)
  BY ElementsAre, KeysCount DEF Sound
<1> HIDE DEF w
<1>2. \A n \in 1..N : w[n] \in Key
  BY <1>1 DEF Sound
<1>3. w \in Seq(Key) /\ DOMAIN w = 1..N
  <2> HIDE DEF N
  <2>1. DOMAIN w = 1..N /\ w = [n \in 1..N |-> w[n]]
    BY <1>1
  <2>2. w \in [1..N -> Key]
    BY <1>2, <2>1
  <2>3. w \in Seq(Key)
    BY <1>1, <2>2
  <2> QED BY <2>1, <2>3
<1>4. \A i, j \in 1..N : w[i] = w[j] => i = j
  <2>1. ASSUME NEW i \in 1..N, NEW j \in 1..N, w[i] = w[j]
        PROVE  i = j
    <3>1. PICK b \in Full(t) : Rank(t, b) + 1 = i /\ w[i] = unsafe_get(t, b)
      BY <1>1
    <3>2. PICK c \in Full(t) : Rank(t, c) + 1 = j /\ w[j] = unsafe_get(t, c)
      BY <1>1
    <3>3. b = c
      BY <2>1, <3>1, <3>2 DEF Sound
    <3> QED BY <3>1, <3>2, <3>3
  <2> QED BY <2>1
<1>5. Keys(t) = {w[j] : j \in 1..N}
  <2>1. ASSUME NEW k
        PROVE  k \in Keys(t) <=> \E j \in 1..N : k = w[j]
    <3>1. ASSUME k \in Keys(t)
          PROVE  \E j \in 1..N : k = w[j]
      <4>1. PICK b \in Full(t) : k = unsafe_get(t, b)
        BY <3>1 DEF Keys
      <4> QED BY <1>1, <4>1
    <3>2. ASSUME NEW j \in 1..N, k = w[j]
          PROVE  k \in Keys(t)
      <4>1. PICK b \in Full(t) : w[j] = unsafe_get(t, b)
        BY <1>1
      <4> QED BY <3>2, <4>1 DEF Keys
    <3> QED BY <3>1, <3>2
  <2> QED BY <2>1
<1>6. ToSet(w) = {w[j] : j \in 1..N}
  BY <1>3 DEF ToSet
<1> QED BY <1>1, <1>3, <1>4, <1>5, <1>6 DEF w

\* A hash table rebuilt with the keys of t: nothing is marked in it.
Rebuilt(g, t) ==
  /\ Good(g) /\ g.num_deleted = 0
  /\ Keys(g.table) = Keys(t) /\ g.table.num_buckets = t.num_buckets

LEMMA TakesOver ==
  ASSUME NEW room, NEW sz \in PowersOfTwo, Prepared(room, sz),
         NEW t, Sound(t), t.num_buckets < sz,
         NEW u, Refilled(u, sz, Elements(t), Len(Elements(t)))
  PROVE  LET g == [room EXCEPT !.table = u]
         IN  Rebuilt(g, t) /\ g.table.table_size = sz /\ g.settings = room.settings
<1> DEFINE g == [room EXCEPT !.table = u]
<1>1. /\ Sound(u) /\ u.table_size = sz /\ Marks(u) = {} /\ u.num_buckets = t.num_buckets
      /\ Keys(u) = Keys(t)
  BY ElementsAreKeys DEF Refilled
<1>2. room = [settings |-> room.settings, num_deleted |-> room.num_deleted, table |-> room.table]
      /\ room.num_deleted = 0
  BY DEF Prepared, Fields
<1>3. g = [settings |-> room.settings, num_deleted |-> 0, table |-> u]
  BY <1>2
<1> HIDE DEF g
<1>4. Cardinality(Marks(u)) = 0
  BY <1>1, FS_EmptySet
<1>5. Roomy(u)
  <2>1. t.num_buckets \in Nat
    BY KeysCount
  <2> QED BY <1>1, <1>4, <2>1 DEF Roomy
<1>6. Good(g)
  BY <1>1, <1>3, <1>4, <1>5 DEF Good, Prepared, Fields
<1> QED BY <1>1, <1>3, <1>6 DEF Rebuilt, g

\* Room for the values of a table that is rehashed or copied.
LEMMA RoomIsMade ==
  ASSUME NEW c, NEW z \in PowersOfTwo \cup {0}, Prepared(c, z),
         NEW sz \in PowersOfTwo
  PROVE  \E y \in PowersOfTwo : y >= sz /\ y >= z /\ Prepared(Enlarged(c, sz), y)
<1>1. z \in Nat /\ sz \in Nat /\ sz >= 1
  BY PowersArePositive
<1>2. Prepared(Enlarged(c, sz), IF sz > z THEN sz ELSE z)
  BY <1>1, EnlargedPrepares
<1>3. CASE sz > z
  BY <1>1, <1>2, <1>3
<1>4. CASE ~(sz > z)
  BY <1>1, <1>2, <1>4
<1> QED BY <1>3, <1>4

LEMMA MoveFromRebuilds ==
  ASSUME NEW h, Knobs(h.settings), Sound(h.table), Room(size(h)), NEW wanted \in PowersOfTwo
  PROVE  Rebuilt(move_from(h, wanted), h.table)
         /\ move_from(h, wanted).table.table_size >= wanted
<1> DEFINE t == h.table
           tmp == NewHashtable(wanted, h.settings)
           sz == min_buckets(h.settings, size(h), wanted)
           room == Enlarged(clear(tmp), sz)
<1>1. Prepared(tmp, wanted)
  BY NewIsPrepared
<1>2. Prepared(clear(tmp), wanted)
  <2>1. size(tmp) = 0 /\ tmp.num_deleted = 0 /\ tmp.table = NewTable(wanted)
    BY DEF NewHashtable, size, NewTable
  <2> HIDE DEF tmp
  <2> DEFINE r == reset_thresholds(tmp.settings, wanted)
  <2>2. clear(tmp) = [tmp EXCEPT !.settings = reset_thresholds(@, wanted)]
    BY <2>1 DEF clear, bucket_count, NewTable
  <2>3. tmp = [settings |-> tmp.settings, num_deleted |-> 0, table |-> tmp.table]
        /\ Knobs(tmp.settings)
    BY <1>1, <2>1 DEF Prepared, Fields
  <2>4. Knobs(r) /\ r.enlarge_threshold = enlarge_size(r, wanted)
    BY <2>3, ResetKnobs
  <2>5. clear(tmp) = [tmp EXCEPT !.settings = r]
    BY <2>2, <2>3
  <2> HIDE DEF r
  <2>6. clear(tmp) = [settings |-> r, num_deleted |-> 0, table |-> tmp.table]
    BY <2>3, <2>5
  <2> QED BY <2>1, <2>4, <2>6 DEF Prepared, Fields
<1>3. sz \in PowersOfTwo /\ size(h) < sz /\ sz \in Nat /\ sz >= wanted
  BY MinBucketsFound, PowersArePositive, LargestIs
<1> HIDE DEF tmp, sz
<1>4. PICK y \in PowersOfTwo : y >= sz /\ Prepared(room, y)
  BY <1>2, <1>3, RoomIsMade
<1>5. t.num_buckets < y /\ t.num_buckets \in Nat
  BY <1>3, <1>4, KeysCount, PowersArePositive DEF size
<1>6. room.table = NewTable(y) /\ destructive_elements(t) = Elements(t)
  BY <1>4, ElementsAre DEF Prepared, Sound
<1> HIDE DEF room
<1>7. Refilled(MoveValues(room.table, destructive_elements(t)), y, Elements(t), Len(Elements(t)))
  <2>1. Len(Elements(t)) =< y
    BY <1>5, ElementsAreKeys, PowersArePositive
  <2> QED BY <1>6, <2>1, ElementsAreKeys, MovesFill
<1> DEFINE u == MoveValues(room.table, destructive_elements(t))
<1>8. move_from(h, wanted) = [room EXCEPT !.table = u]
  <2>1. move_from(h, wanted) = [room EXCEPT !.table = MoveValues(@, destructive_elements(t))]
    BY DEF move_from, room, tmp, sz
  <2>2. room = [settings |-> room.settings, num_deleted |-> room.num_deleted, table |-> room.table]
    BY <1>4 DEF Prepared, Fields
  <2> QED BY <2>1, <2>2
<1> HIDE DEF u
<1>9. Rebuilt([room EXCEPT !.table = u], t) /\ [room EXCEPT !.table = u].table.table_size = y
  BY <1>4, <1>5, <1>7, TakesOver DEF u
<1>10. y >= wanted
  BY <1>3, <1>4, PowersArePositive
<1> QED BY <1>8, <1>9, <1>10

LEMMA CopyFromRebuilds ==
  ASSUME NEW self, Fields(self), Knobs(self.settings), NEW z \in PowersOfTwo \cup {0},
         self.table = NewTable(z) \/ size(self) # 0 \/ self.num_deleted # 0,
         NEW h, Sound(h.table), Room(size(h)), NEW wanted \in PowersOfTwo
  PROVE  Rebuilt(copy_from(self, h, wanted), h.table)
<1> DEFINE t == h.table
           sz == min_buckets(self.settings, size(h), wanted)
           room == Enlarged(clear(self), sz)
<1>2. PICK x \in {z, HT_DEFAULT_STARTING_BUCKETS} : Prepared(clear(self), x)
  BY ClearPrepares
<1>3. sz \in PowersOfTwo /\ size(h) < sz /\ sz \in Nat
  BY MinBucketsFound, PowersArePositive, LargestIs
<1> HIDE DEF sz
<1>4. PICK y \in PowersOfTwo : y >= sz /\ Prepared(room, y)
  <2>1. x \in PowersOfTwo \cup {0}
    BY <1>2, HashtableAssumption
  <2> QED BY <1>2, <1>3, <2>1, RoomIsMade
<1>5. t.num_buckets < y /\ t.num_buckets \in Nat
  BY <1>3, <1>4, KeysCount, PowersArePositive DEF size
<1>6. room.table = NewTable(y)
  BY <1>4 DEF Prepared
<1> HIDE DEF room
<1>7. Refilled(CopyValues(room.table, Elements(t)), y, Elements(t), Len(Elements(t)))
  <2>1. Len(Elements(t)) =< y
    BY <1>5, ElementsAreKeys, PowersArePositive
  <2> QED BY <1>6, <2>1, ElementsAreKeys, CopiesFill
<1> DEFINE u == CopyValues(room.table, Elements(t))
<1>8. copy_from(self, h, wanted) = [room EXCEPT !.table = u]
  <2>1. copy_from(self, h, wanted) = [room EXCEPT !.table = CopyValues(@, Elements(t))]
    BY DEF copy_from, room, sz
  <2>2. room = [settings |-> room.settings, num_deleted |-> room.num_deleted, table |-> room.table]
    BY <1>4 DEF Prepared, Fields
  <2> QED BY <2>1, <2>2
<1> HIDE DEF u
<1>9. Rebuilt([room EXCEPT !.table = u], t)
  BY <1>4, <1>5, <1>7, TakesOver DEF u
<1> QED BY <1>8, <1>9

\* The next larger table is at least twice as large.
LEMMA PowersDouble ==
  ASSUME NEW a \in PowersOfTwo, NEW b \in PowersOfTwo, a < b
  PROVE  2 * a =< b
<1>1. PICK i \in 0..LargestPower : a = power_of_two[i]
  BY PowersArePositive
<1>2. PICK j \in 0..LargestPower : b = power_of_two[j]
  BY PowersArePositive
<1>3. \A k \in 0..LargestPower : power_of_two[k] \in Nat
  BY PowerSteps
<1>4. LargestPower \in Nat /\ i \in Nat /\ j \in Nat
  BY HashtableAssumption
\* The powers from k on are at least that of k.
<1>5. ASSUME NEW k \in 0..LargestPower
      PROVE  \A n \in 0..(LargestPower - k) : power_of_two[k] =< power_of_two[k + n]
  <2> DEFINE m == LargestPower - k
             T == {n \in 0..m : power_of_two[k] =< power_of_two[k + n]}
  <2>1. m \in Nat /\ k \in Nat
    BY <1>4
  <2>2. 0 \in T
    BY <1>3, <2>1
  <2>3. ASSUME NEW n \in 1..m, n - 1 \in T
        PROVE  n \in T
    <3>1. k + n \in 1..LargestPower /\ (k + n) - 1 = k + (n - 1) /\ n \in 0..m
          /\ k + n \in 0..LargestPower /\ k + (n - 1) \in 0..LargestPower
      BY <1>4, <2>1
    <3>2. power_of_two[k + n] = 2 * power_of_two[(k + n) - 1]
      BY <3>1, PowerSteps
    <3>3. power_of_two[k] =< power_of_two[k + (n - 1)]
      BY <2>3
    <3>4. power_of_two[k] =< power_of_two[k + n]
      BY <1>3, <3>1, <3>2, <3>3
    <3> QED BY <3>1, <3>4
  <2>4. T \in SUBSET (0..m)
    OBVIOUS
  <2>5. T = 0..m
    <3> HIDE DEF T, m
    <3> QED BY <2>1, <2>2, <2>3, <2>4, UpTo
  <2> QED BY <2>5
<1>6. ~(j =< i)
  <2>1. ASSUME j =< i
        PROVE  FALSE
    <3>1. i - j \in 0..(LargestPower - j) /\ j + (i - j) = i
      BY <1>4, <2>1
    <3>2. b =< a
      BY <1>1, <1>2, <1>5, <3>1
    <3> QED BY <1>1, <1>2, <1>3, <3>2
  <2> QED BY <2>1
<1>7. i + 1 \in 0..LargestPower /\ i + 1 \in 1..LargestPower /\ (i + 1) - 1 = i
      /\ j - (i + 1) \in 0..(LargestPower - (i + 1)) /\ (i + 1) + (j - (i + 1)) = j
  BY <1>4, <1>6
<1>8. power_of_two[i + 1] = 2 * power_of_two[(i + 1) - 1]
  BY <1>7, PowerSteps
<1>9. power_of_two[i + 1] =< power_of_two[(i + 1) + (j - (i + 1))]
  BY <1>5, <1>7
<1> QED BY <1>1, <1>2, <1>7, <1>8, <1>9

LEMMA RoomBelow ==
  ASSUME NEW n, Room(n), NEW m \in Nat, m =< n
  PROVE  Room(m)
<1>1. Largest \in Nat /\ Factors \in SUBSET (1..99) /\ n \in Nat
  BY LargestIs, FactorsAre DEF Room
<1>2. ASSUME NEW grow \in Factors
      PROVE  m < (Largest * grow) \div 100
  <2> DEFINE x == (Largest * grow) \div 100
  <2>1. x \in Int
    <3>1. Largest * grow \in Nat
      BY <1>1
    <3> QED BY <3>1
  <2>2. n < x
    BY DEF Room
  <2> HIDE DEF x
  <2>3. m < x
    BY <1>1, <2>1, <2>2
  <2> QED BY <2>3 DEF x
<1> QED BY <1>2 DEF Room

\* Whether to shrink at the next insertion is all that changes.
LEMMA Reconsider ==
  ASSUME NEW h, Good(h), NEW v
  PROVE  LET g == [h EXCEPT !.settings.consider_shrink = v]
         IN  Good(g) /\ g.table = h.table /\ g.num_deleted = h.num_deleted
             /\ g.settings.enlarge_factor = h.settings.enlarge_factor
<1> DEFINE s == h.settings
           r == [enlarge_threshold |-> s.enlarge_threshold, shrink_threshold |-> s.shrink_threshold,
                 enlarge_factor |-> s.enlarge_factor, shrink_factor |-> s.shrink_factor,
                 consider_shrink |-> v]
           g == [h EXCEPT !.settings.consider_shrink = v]
<1>1. h = [settings |-> s, num_deleted |-> h.num_deleted, table |-> h.table]
  BY DEF Good, Fields
<1>2. s = [enlarge_threshold |-> s.enlarge_threshold, shrink_threshold |-> s.shrink_threshold,
           enlarge_factor |-> s.enlarge_factor, shrink_factor |-> s.shrink_factor,
           consider_shrink |-> s.consider_shrink]
      /\ s.enlarge_factor \in Factors
  BY DEF Good, Knobs
<1>3. [s EXCEPT !.consider_shrink = v] = r
  BY <1>2
<1>4. g = [h EXCEPT !.settings = [s EXCEPT !.consider_shrink = v]]
  BY <1>1
<1> HIDE DEF g, s
<1>5. g = [settings |-> r, num_deleted |-> h.num_deleted, table |-> h.table]
  <2> HIDE DEF r
  <2> QED BY <1>1, <1>3, <1>4
<1>6. Knobs(r) /\ r.enlarge_factor = s.enlarge_factor
      /\ r.enlarge_threshold = s.enlarge_threshold
  BY <1>2 DEF Knobs
<1> HIDE DEF r
<1>7. enlarge_size(r, h.table.table_size) = enlarge_size(s, h.table.table_size)
  BY <1>6 DEF enlarge_size
<1>8. Good(g)
  BY <1>5, <1>6, <1>7 DEF Good, Fields, s
<1> QED BY <1>5, <1>6, <1>8 DEF g, s

\* Rehashed or not, the keys are the same ones.
Keeps(g, h) ==
  /\ Good(g) /\ Keys(g.table) = Keys(h.table) /\ size(g) = size(h)
  /\ g.num_deleted =< h.num_deleted

LEMMA ShrinkKeeps ==
  ASSUME NEW h, Good(h), Room(size(h))
  PROVE  LET r == maybe_shrink(h)
         IN  /\ Keeps(r.ht, h)
             /\ ~r.did => r.ht.table = h.table /\ r.ht.num_deleted = h.num_deleted
<1> DEFINE wide(sz) == sz > HT_DEFAULT_STARTING_BUCKETS
                         /\ size(h) < shrink_size(h.settings, sz)
           half == bucket_count(h) \div 2
           IsStop(sz) == /\ sz =< half /\ ~wide(sz)
                         /\ \A other \in PowersOfTwo :
                              sz < other /\ other =< half => wide(other)
           stop == CHOOSE sz \in PowersOfTwo : IsStop(sz)
           wanted == /\ h.settings.shrink_threshold > 0
                     /\ size(h) < h.settings.shrink_threshold
                     /\ bucket_count(h) > HT_DEFAULT_STARTING_BUCKETS
           x == IF wanted THEN move_from(h, stop) ELSE h
           r == maybe_shrink(h)
<1>1. r = [did |-> wanted, ht |-> [x EXCEPT !.settings.consider_shrink = FALSE]]
  BY DEF maybe_shrink
<1>2. /\ size(h) = h.table.num_buckets /\ size(h) \in Nat /\ h.num_deleted \in Nat
      /\ bucket_count(h) \in Nat
  BY GoodFacts
<1>3. wanted => stop \in PowersOfTwo
  <2>1. SUFFICES ASSUME wanted
                 PROVE  stop \in PowersOfTwo
    OBVIOUS
  <2> DEFINE D == {sz \in PowersOfTwo : sz =< half /\ ~wide(sz)}
             U == {half - sz : sz \in D}
  <2>2. HT_DEFAULT_STARTING_BUCKETS \in D
    <3>1. HT_DEFAULT_STARTING_BUCKETS \in PowersOfTwo /\ HT_DEFAULT_STARTING_BUCKETS \in Nat
      BY HashtableAssumption, PowersArePositive
    <3>2. bucket_count(h) > HT_DEFAULT_STARTING_BUCKETS
      BY <2>1
    <3>3. bucket_count(h) >= 2 * HT_DEFAULT_STARTING_BUCKETS
      BY <3>1, <3>2, GoodFacts, PowersDouble
    <3>4. half >= HT_DEFAULT_STARTING_BUCKETS
      BY <1>2, <3>1, <3>3
    <3> HIDE DEF half
    <3> QED BY <3>1, <3>4
  <2>3. half \in Nat
    BY <1>2
  <2> HIDE DEF half
  <2>4. \A sz \in D : sz \in PowersOfTwo /\ sz \in Nat /\ sz =< half /\ ~wide(sz)
    BY PowersArePositive
  <2>5. U \in SUBSET Nat /\ U # {}
    <3> HIDE DEF D
    <3> QED BY <2>2, <2>3, <2>4
  <2>6. PICK y \in U : \A z \in U : y =< z
    <3> HIDE DEF U
    <3> QED BY <2>5, LeastNumber
  <2>7. PICK sz \in D : y = half - sz
    OBVIOUS
  <2>8. ASSUME NEW other \in PowersOfTwo, sz < other, other =< half
        PROVE  wide(other)
    <3>1. CASE wide(other)
      BY <3>1
    <3>2. CASE ~wide(other)
      <4>1. other \in D
        BY <2>8, <3>2
      <4>2. half - other \in U
        BY <4>1
      <4>3. half - sz =< half - other /\ other \in Nat /\ sz \in Nat
        BY <2>4, <2>6, <2>7, <4>1, <4>2
      <4> QED BY <2>3, <2>8, <4>3
    <3> QED BY <3>1, <3>2
  <2>9. sz \in PowersOfTwo /\ IsStop(sz)
    BY <2>4, <2>8
  <2> HIDE DEF IsStop
  <2> QED BY <2>9
<1> HIDE DEF wanted, stop
<1>4. /\ Keeps(x, h) /\ (~wanted => x = h)
  <2>1. CASE wanted
    <3>1. Rebuilt(move_from(h, stop), h.table)
      BY <1>3, <2>1, MoveFromRebuilds DEF Good
    <3>2. x = move_from(h, stop)
      BY <2>1
    <3> HIDE DEF x
    <3> QED BY <1>2, <2>1, <3>1, <3>2 DEF Rebuilt, Keeps, size
  <2>2. CASE ~wanted
    <3>1. x = h
      BY <2>2
    <3> QED BY <1>2, <3>1 DEF Keeps
  <2> QED BY <2>1, <2>2
<1> HIDE DEF x
<1> DEFINE g == [x EXCEPT !.settings.consider_shrink = FALSE]
<1>5. Good(g) /\ g.table = x.table /\ g.num_deleted = x.num_deleted
  BY <1>4, Reconsider DEF Keeps
<1> HIDE DEF g, r
<1>6. r.did = wanted /\ r.ht = g
  BY <1>1 DEF g
<1> QED BY <1>4, <1>5, <1>6 DEF Keeps, size, r

-----------------------------------------------------------------------------
(* Insertion and erasure                                                   *)

\* There is room for so many more.
Spare(h, d) == size(h) + h.num_deleted + d < bucket_count(h)

LEMMA ResizeDeltaMakesRoom ==
  ASSUME NEW h, Good(h), NEW d \in Nat, Room(size(h) + h.num_deleted + d)
  PROVE  LET r == resize_delta(h, d)
         IN  /\ Keeps(r.ht, h) /\ Spare(r.ht, d)
             /\ ~r.did => r.ht.table = h.table /\ r.ht.num_deleted = h.num_deleted
<1> DEFINE shrunk == IF h.settings.consider_shrink THEN maybe_shrink(h)
                     ELSE [did |-> FALSE, ht |-> h]
           g == shrunk.ht
           needed == size(g) + g.num_deleted + d
           to == min_buckets(g.settings, needed, bucket_count(g))
           least == min_buckets(g.settings, needed, 0)
           enough == \/ /\ bucket_count(g) >= HT_MIN_BUCKETS
                        /\ needed =< g.settings.enlarge_threshold
                     \/ least =< bucket_count(g)
           r == resize_delta(h, d)
<1>1. r = IF enough THEN shrunk ELSE [did |-> TRUE, ht |-> move_from(g, to)]
  BY DEF resize_delta
<1>2. size(h) \in Nat /\ h.num_deleted \in Nat
  BY GoodFacts
<1>3. Room(size(h))
  <2>1. size(h) =< size(h) + h.num_deleted + d
    BY <1>2
  <2> QED BY <1>2, <2>1, RoomBelow
<1>4. Keeps(g, h) /\ (~shrunk.did => g.table = h.table /\ g.num_deleted = h.num_deleted)
  <2>1. CASE h.settings.consider_shrink
    <3>1. shrunk = maybe_shrink(h)
      BY <2>1
    <3> HIDE DEF shrunk
    <3> QED BY <1>3, <3>1, ShrinkKeeps
  <2>2. CASE ~h.settings.consider_shrink
    <3>1. shrunk.did = FALSE /\ g = h
      BY <2>2
    <3> HIDE DEF shrunk
    <3> QED BY <1>2, <3>1 DEF Keeps
  <2> QED BY <2>1, <2>2
<1> HIDE DEF shrunk
<1>5. Good(g) /\ size(g) = size(h) /\ g.num_deleted =< h.num_deleted
      /\ Keys(g.table) = Keys(h.table)
  BY <1>4 DEF Keeps
<1>6. /\ size(g) \in Nat /\ g.num_deleted \in Nat
      /\ bucket_count(g) = g.table.table_size
      /\ bucket_count(g) \in PowersOfTwo /\ bucket_count(g) \in Nat
      /\ bucket_count(g) >= 1 /\ bucket_count(g) =< Largest
      /\ size(g) = g.table.num_buckets
  BY <1>5, GoodFacts
<1>7. needed \in Nat /\ Room(needed) /\ Room(size(g))
  <2>1. needed \in Nat /\ needed =< size(h) + h.num_deleted + d
    BY <1>2, <1>5, <1>6
  <2> HIDE DEF needed
  <2> QED BY <1>3, <1>5, <2>1, RoomBelow
<1> HIDE DEF needed
<1>8. Knobs(g.settings) /\ Sound(g.table)
      /\ g.settings.enlarge_threshold = enlarge_size(g.settings, bucket_count(g))
  BY <1>5, <1>6 DEF Good
<1>9. CASE enough
  <2>1. needed < bucket_count(g)
    <3>1. CASE least =< bucket_count(g)
      <4>1. needed < least /\ least \in Nat
        BY <1>7, <1>8, MinBucketsFound, LargestIs
      <4> HIDE DEF least
      <4> QED BY <1>6, <1>7, <3>1, <4>1
    <3>2. CASE needed =< g.settings.enlarge_threshold
      <4>1. g.settings.enlarge_factor \in 1..99
        BY <1>8, FactorsAre DEF Knobs
      <4>2. enlarge_size(g.settings, bucket_count(g)) \in Nat
            /\ enlarge_size(g.settings, bucket_count(g)) < bucket_count(g)
        BY <1>6, <4>1, EnlargeBelow
      <4> QED BY <1>6, <1>7, <1>8, <3>2, <4>2
    <3> QED BY <1>9, <3>1, <3>2
  <2>2. r = shrunk
    BY <1>1, <1>9
  <2>3. Spare(g, d)
    BY <2>1 DEF Spare, needed
  <2> QED BY <1>4, <2>2, <2>3 DEF r
<1>10. CASE ~enough
  <2> DEFINE m == move_from(g, to)
  <2>1. to \in PowersOfTwo /\ to \in Nat /\ needed < to
    BY <1>6, <1>7, <1>8, MinBucketsFound
  <2> HIDE DEF to
  <2>2. Rebuilt(m, g.table) /\ m.table.table_size >= to
    BY <1>7, <1>8, <2>1, MoveFromRebuilds
  <2>3. r.did = TRUE /\ r.ht = m
    BY <1>1, <1>10 DEF to
  <2> HIDE DEF m, r
  <2>4. /\ Good(m) /\ m.num_deleted = 0 /\ Keys(m.table) = Keys(h.table)
        /\ size(m) = size(h) /\ bucket_count(m) = m.table.table_size
        /\ bucket_count(m) \in Nat
    BY <1>5, <1>6, <2>2, GoodFacts DEF Rebuilt, size, bucket_count
  <2>5. Keeps(m, h)
    BY <1>2, <2>4 DEF Keeps
  <2>6. Spare(m, d)
    <3>1. size(m) + m.num_deleted + d =< needed
      <4>1. size(m) = size(g) /\ m.num_deleted = 0 /\ size(g) \in Nat /\ g.num_deleted \in Nat
        BY <1>5, <1>6, <2>4
      <4>2. size(g) + 0 + d =< size(g) + g.num_deleted + d
        BY <4>1
      <4> QED BY <4>1, <4>2 DEF needed
    <3>2. size(m) + m.num_deleted + d \in Nat
      BY <1>2, <2>4
    <3> QED BY <1>7, <2>1, <2>2, <2>4, <3>1, <3>2 DEF Spare
  <2> QED BY <2>3, <2>5, <2>6 DEF r
<1> QED BY <1>9, <1>10

\* resize, which may shrink the table too.
LEMMA ResizeKeeps ==
  ASSUME NEW h, Good(h), NEW n \in Nat, Room(size(h) + h.num_deleted + n)
  PROVE  Keeps(resize(h, n), h)
<1> DEFINE g == IF h.settings.consider_shrink \/ n = 0 THEN maybe_shrink(h).ht ELSE h
           d == n - size(g)
<1>1. size(h) \in Nat /\ h.num_deleted \in Nat
  BY GoodFacts
<1>2. Room(size(h))
  <2>1. size(h) =< size(h) + h.num_deleted + n
    BY <1>1
  <2> QED BY <1>1, <2>1, RoomBelow
<1>3. Keeps(g, h)
  <2>1. Keeps(h, h)
    BY <1>1 DEF Keeps
  <2>2. Keeps(maybe_shrink(h).ht, h)
    BY <1>2, ShrinkKeeps
  <2> QED BY <2>1, <2>2
<1>4. resize(h, n) = IF n > size(g) THEN resize_delta(g, d).ht ELSE g
  BY DEF resize
<1> HIDE DEF g
<1>5. Good(g) /\ size(g) = size(h) /\ g.num_deleted =< h.num_deleted /\ g.num_deleted \in Nat
      /\ Keys(g.table) = Keys(h.table)
  BY <1>3, GoodFacts DEF Keeps
<1>6. CASE n > size(g)
  <2>1. d \in Nat
    BY <1>1, <1>5, <1>6
  <2>2. Room(size(g) + g.num_deleted + d)
    <3>1. size(g) + g.num_deleted + d \in Nat
          /\ size(g) + g.num_deleted + d =< size(h) + h.num_deleted + n
      BY <1>1, <1>5, <2>1
    <3> HIDE DEF d
    <3> QED BY <3>1, RoomBelow
  <2>3. Keeps(resize_delta(g, d).ht, g)
    <3> HIDE DEF d
    <3> QED BY <1>5, <2>1, <2>2, ResizeDeltaMakesRoom
  <2> DEFINE m == resize_delta(g, d).ht
  <2> HIDE DEF m
  <2>4. Keeps(m, h)
    <3>1. Good(m) /\ Keys(m.table) = Keys(h.table) /\ size(m) = size(h)
          /\ m.num_deleted =< g.num_deleted
      BY <1>5, <2>3 DEF Keeps, m
    <3>2. m.num_deleted \in Nat
      BY <3>1, GoodFacts
    <3> QED BY <1>1, <1>5, <3>1, <3>2 DEF Keeps
  <2> QED BY <1>4, <1>6, <2>4 DEF m
<1>7. CASE ~(n > size(g))
  BY <1>3, <1>4, <1>7
<1> QED BY <1>6, <1>7

\* What an insertion without a rehash makes of a hash table.
Inserted(g, h, key) ==
  /\ Good(g) /\ Keys(g.table) = Keys(h.table) \cup {key}
  /\ g.settings = h.settings /\ bucket_count(g) = bucket_count(h)
  /\ size(g) + g.num_deleted =< size(h) + h.num_deleted + 1

LEMMA InsertAtInserts ==
  ASSUME NEW h, Good(h), Spare(h, 1), NEW key \in Key, key \notin Keys(h.table),
         NEW i, i \in Probes(h.table) \ Full(h.table),
         \E n \in Nat : Leads(h.table, key, n, i),
         NEW erased, erased \in BOOLEAN, erased <=> i \in Marks(h.table)
  PROVE  Inserted(insert_at(h, key, i, erased), h, key)
<1> DEFINE t == h.table
           u == set(t, i, key)
           D == IF erased THEN h.num_deleted - 1 ELSE h.num_deleted
           g == insert_at(h, key, i, erased)
<1>1. h = [settings |-> h.settings, num_deleted |-> h.num_deleted, table |-> t]
      /\ Sound(t) /\ h.num_deleted = Cardinality(Marks(t))
  BY DEF Good, Fields
<1>2. /\ size(h) = t.num_buckets /\ size(h) \in Nat /\ h.num_deleted \in Nat
      /\ bucket_count(h) = t.table_size /\ bucket_count(h) \in Nat
  BY GoodFacts
<1>3. Gained(t, key, i, u)
  BY <1>1, InsertGains
<1>4. g = [h EXCEPT !.num_deleted = D, !.table = u]
  BY <1>1 DEF insert_at
<1> HIDE DEF t, u, D, g
<1>5. g = [settings |-> h.settings, num_deleted |-> D, table |-> u]
  BY <1>1, <1>4
<1>6. Cardinality(Marks(u)) = D
  BY <1>1, <1>3 DEF Gained, D, t
<1>7. D \in Int /\ D =< h.num_deleted
  BY <1>2 DEF D
<1>8. /\ Sound(u) /\ u.table_size = t.table_size /\ u.num_buckets = t.num_buckets + 1
      /\ Keys(u) = Keys(t) \cup {key}
  BY <1>3 DEF Gained
<1>9. Roomy(u)
  BY <1>2, <1>6, <1>7, <1>8 DEF Roomy, Spare
<1>10. Good(g)
  BY <1>5, <1>6, <1>8, <1>9 DEF Good, Fields, t
<1>11. size(g) + g.num_deleted =< size(h) + h.num_deleted + 1
  BY <1>2, <1>5, <1>7, <1>8 DEF size
<1> QED BY <1>5, <1>8, <1>10, <1>11 DEF Inserted, bucket_count, g, t

LEMMA InsertNoResizeInserts ==
  ASSUME NEW h, Good(h), Spare(h, 1), NEW key \in Key
  PROVE  Inserted(insert_noresize(h, key), h, key)
<1> DEFINE pos == find_position(h, key)
           e == pos.t = "erased"
<1>1. Located(h.table, key, pos)
  BY PositionFound DEF Good
<1>2. insert_noresize(h, key)
        = IF pos.t = "full" THEN h ELSE insert_at(h, key, pos.idx, e)
  BY DEF insert_noresize
<1>3. size(h) \in Nat /\ h.num_deleted \in Nat
  BY GoodFacts
<1> HIDE DEF pos
<1>4. CASE key \in Keys(h.table)
  <2>1. insert_noresize(h, key) = h
    BY <1>1, <1>2, <1>4 DEF Located
  <2>2. Inserted(h, h, key)
    BY <1>3, <1>4 DEF Inserted
  <2> QED BY <2>1, <2>2
<1>5. CASE key \notin Keys(h.table)
  <2>1. /\ pos.t # "full" /\ pos.idx \in Probes(h.table) \ Full(h.table)
        /\ e <=> pos.idx \in Marks(h.table)
        /\ \E n \in Nat : Leads(h.table, key, n, pos.idx)
    BY <1>1, <1>5 DEF Located
  <2>2. insert_noresize(h, key) = insert_at(h, key, pos.idx, e)
    BY <1>2, <2>1
  <2>3. e \in BOOLEAN
    OBVIOUS
  <2> HIDE DEF e
  <2> QED BY <1>5, <2>1, <2>2, <2>3, InsertAtInserts
<1> QED BY <1>4, <1>5

\* What an insertion makes of it, rehashed or not.
Grown(g, h, keys, n) ==
  /\ Good(g) /\ Keys(g.table) = Keys(h.table) \cup keys
  /\ size(g) + g.num_deleted =< size(h) + h.num_deleted + n

LEMMA InsertGrows ==
  ASSUME NEW h, Good(h), Room(size(h) + h.num_deleted + 1), NEW key \in Key
  PROVE  Grown(insert(h, key), h, {key}, 1)
<1> DEFINE g == resize_delta(h, 1).ht
<1>1. Keeps(g, h) /\ Spare(g, 1)
  BY ResizeDeltaMakesRoom
<1>2. insert(h, key) = insert_noresize(g, key)
  BY DEF insert
<1> HIDE DEF g
<1>3. Good(g) /\ Keys(g.table) = Keys(h.table) /\ size(g) = size(h)
      /\ g.num_deleted =< h.num_deleted
  BY <1>1 DEF Keeps
<1> DEFINE u == insert_noresize(g, key)
<1>4. Inserted(u, g, key)
  BY <1>1, <1>3, InsertNoResizeInserts
<1> HIDE DEF u
<1>5. Good(u) /\ Keys(u.table) = Keys(h.table) \cup {key}
      /\ size(u) + u.num_deleted =< size(g) + g.num_deleted + 1
  BY <1>3, <1>4 DEF Inserted
<1>6. /\ size(u) \in Nat /\ u.num_deleted \in Nat /\ g.num_deleted \in Nat
      /\ size(h) \in Nat /\ h.num_deleted \in Nat
  BY <1>3, <1>5, GoodFacts
<1>7. Grown(u, h, {key}, 1)
  BY <1>3, <1>5, <1>6 DEF Grown
<1> QED BY <1>2, <1>7 DEF u

LEMMA FindOrInsertGrows ==
  ASSUME NEW h, Good(h), Room(size(h) + h.num_deleted + 1), NEW key \in Key
  PROVE  Grown(find_or_insert(h, key), h, {key}, 1)
<1> DEFINE pos == find_position(h, key)
           room == resize_delta(h, 1)
           g == room.ht
           e == pos.t = "erased"
<1>1. /\ Keeps(g, h) /\ Spare(g, 1)
      /\ ~room.did => g.table = h.table /\ g.num_deleted = h.num_deleted
  BY ResizeDeltaMakesRoom
<1>2. Located(h.table, key, pos)
  BY PositionFound DEF Good
<1>3. find_or_insert(h, key) = IF pos.t = "full" THEN h
                               ELSE IF room.did THEN insert_noresize(g, key)
                               ELSE insert_at(g, key, pos.idx, e)
  BY DEF find_or_insert
<1> HIDE DEF pos, room
<1>4. Good(g) /\ Keys(g.table) = Keys(h.table) /\ size(g) = size(h)
      /\ g.num_deleted =< h.num_deleted
  BY <1>1 DEF Keeps
<1>5. size(h) \in Nat /\ h.num_deleted \in Nat /\ g.num_deleted \in Nat
  BY <1>4, GoodFacts
<1>6. \A u : Inserted(u, g, key) => Grown(u, h, {key}, 1)
  <2>1. SUFFICES ASSUME NEW u, Inserted(u, g, key)
                 PROVE  Grown(u, h, {key}, 1)
    OBVIOUS
  <2>2. Good(u) /\ Keys(u.table) = Keys(h.table) \cup {key}
        /\ size(u) + u.num_deleted =< size(g) + g.num_deleted + 1
    BY <1>4, <2>1 DEF Inserted
  <2>3. size(u) \in Nat /\ u.num_deleted \in Nat
    BY <2>2, GoodFacts
  <2> QED BY <1>4, <1>5, <2>2, <2>3 DEF Grown
<1>7. CASE key \in Keys(h.table)
  <2>1. find_or_insert(h, key) = h
    BY <1>2, <1>3, <1>7 DEF Located
  <2> QED BY <1>5, <1>7, <2>1 DEF Grown
<1>8. CASE key \notin Keys(h.table) /\ room.did
  <2>1. find_or_insert(h, key) = insert_noresize(g, key)
    BY <1>2, <1>3, <1>8 DEF Located
  <2>2. Inserted(insert_noresize(g, key), g, key)
    BY <1>1, <1>4, InsertNoResizeInserts
  <2> QED BY <1>6, <2>1, <2>2
<1>9. CASE key \notin Keys(h.table) /\ ~room.did
  <2>1. /\ pos.t # "full" /\ pos.idx \in Probes(h.table) \ Full(h.table)
        /\ e <=> pos.idx \in Marks(h.table)
        /\ \E n \in Nat : Leads(h.table, key, n, pos.idx)
    BY <1>2, <1>9 DEF Located
  <2>2. find_or_insert(h, key) = insert_at(g, key, pos.idx, e)
    BY <1>3, <1>9, <2>1
  <2>3. e \in BOOLEAN /\ g.table = h.table
    BY <1>1, <1>9
  <2> HIDE DEF e, g
  <2>4. Inserted(insert_at(g, key, pos.idx, e), g, key)
    BY <1>1, <1>4, <1>9, <2>1, <2>3, InsertAtInserts
  <2> QED BY <1>6, <2>2, <2>4
<1> QED BY <1>7, <1>8, <1>9

\* The first n keys of a range are in.
RangeIn(g, h, keys, n) ==
  /\ Good(g) /\ Keys(g.table) = Keys(h.table) \cup {keys[j] : j \in 1..n}
  /\ g.settings = h.settings /\ bucket_count(g) = bucket_count(h)
  /\ size(g) + g.num_deleted =< size(h) + h.num_deleted + n

LEMMA RangeStep ==
  ASSUME NEW h, Good(h), NEW keys \in Seq(Key), Spare(h, Len(keys)),
         NEW n \in 1..Len(keys), NEW g, RangeIn(g, h, keys, n - 1)
  PROVE  RangeIn(insert_noresize(g, keys[n]), h, keys, n)
<1> DEFINE u == insert_noresize(g, keys[n])
<1>1. /\ Good(g) /\ Keys(g.table) = Keys(h.table) \cup {keys[j] : j \in 1..(n - 1)}
      /\ g.settings = h.settings /\ bucket_count(g) = bucket_count(h)
      /\ size(g) + g.num_deleted =< size(h) + h.num_deleted + (n - 1)
  BY DEF RangeIn
<1>2. /\ size(h) \in Nat /\ h.num_deleted \in Nat /\ bucket_count(h) \in Nat
      /\ size(g) \in Nat /\ g.num_deleted \in Nat
      /\ n \in Nat /\ Len(keys) \in Nat /\ n =< Len(keys) /\ n - 1 \in Nat
  BY <1>1, GoodFacts
<1>3. Spare(g, 1)
  <2> DEFINE sg == size(g)
             dg == g.num_deleted
             sh == size(h)
             dh == h.num_deleted
             bg == bucket_count(g)
             bh == bucket_count(h)
             l == Len(keys)
  <2>1. /\ sg \in Nat /\ dg \in Nat /\ sh \in Nat /\ dh \in Nat /\ bg \in Nat
        /\ l \in Nat /\ n \in Nat /\ n =< l
        /\ sg + dg =< sh + dh + (n - 1) /\ bg = bh
    BY <1>1, <1>2
  <2>2. sh + dh + l < bh
    BY DEF Spare
  <2> HIDE DEF sg, dg, sh, dh, bg, bh, l
  <2>3. sg + dg + 1 < bg
    BY <2>1, <2>2
  <2> QED BY <2>3 DEF Spare, sg, dg, bg
<1>4. Inserted(u, g, keys[n])
  BY <1>1, <1>3, InsertNoResizeInserts
<1> HIDE DEF u
<1>5. /\ Good(u) /\ Keys(u.table) = Keys(g.table) \cup {keys[n]}
      /\ u.settings = g.settings /\ bucket_count(u) = bucket_count(g)
      /\ size(u) + u.num_deleted =< size(g) + g.num_deleted + 1
  BY <1>4 DEF Inserted
<1>6. Keys(u.table) = Keys(h.table) \cup {keys[j] : j \in 1..n}
  <2>1. \A j : j \in 1..n <=> j \in 1..(n - 1) \/ j = n
    BY <1>2
  <2> QED BY <1>1, <1>5, <2>1
<1>7. size(u) + u.num_deleted =< size(h) + h.num_deleted + n
  <2>1. size(u) \in Nat /\ u.num_deleted \in Nat
    BY <1>5, GoodFacts
  <2>2. size(u) + u.num_deleted =< size(g) + g.num_deleted + 1
    BY <1>5
  <2>3. size(g) + g.num_deleted =< size(h) + h.num_deleted + (n - 1)
    BY <1>1
  <2>4. size(u) + u.num_deleted \in Nat /\ size(g) + g.num_deleted \in Nat
        /\ size(h) + h.num_deleted \in Nat
    <3>1. \A a, b \in Nat : a + b \in Nat
      OBVIOUS
    <3> QED BY <1>2, <2>1, <3>1, Zenon
  <2> DEFINE p == size(u) + u.num_deleted
             q == size(g) + g.num_deleted
             r == size(h) + h.num_deleted
  <2>5. p \in Nat /\ q \in Nat /\ r \in Nat /\ p =< q + 1 /\ q =< r + (n - 1)
    BY <2>2, <2>3, <2>4
  <2>6. n \in Nat
    BY <1>2
  <2> HIDE DEF p, q, r
  <2>7. p =< r + n
    BY <2>5, <2>6
  <2> QED BY <2>7 DEF p, r
<1> QED BY <1>1, <1>5, <1>6, <1>7 DEF RangeIn, u

LEMMA RangeGrows ==
  ASSUME NEW h, Good(h), NEW keys \in Seq(Key), Room(size(h) + h.num_deleted + Len(keys))
  PROVE  Grown(insert_range(h, keys), h, ToSet(keys), Len(keys))
<1> DEFINE N == Len(keys)
           e == resize_delta(h, N).ht
           V == {[settings |-> e.settings, num_deleted |-> n, table |-> t] : n \in Nat, t \in TableType}
           G(g, k) == insert_noresize(g, keys[k])
           F == [k \in 1..N |-> [g \in V |-> IF G(g, k) \in V THEN G(g, k) ELSE g]]
           Step(f) == [n \in 0..N |-> IF n = 0 THEN e ELSE G(f[n - 1], n)]
           after == CHOOSE f : f = Step(f)
<1>1. N \in Nat /\ N \in 0..N
  OBVIOUS
<1>2. Keeps(e, h) /\ Spare(e, N)
  BY <1>1, ResizeDeltaMakesRoom
<1>3. insert_range(h, keys) = after[N]
  BY DEF insert_range
<1> HIDE DEF e
<1>4. Good(e)
  BY <1>2 DEF Keeps
<1>5. \A k \in 1..N : \A g : RangeIn(g, e, keys, k - 1) => RangeIn(G(g, k), e, keys, k)
  <2>1. ASSUME NEW k \in 1..N, NEW g, RangeIn(g, e, keys, k - 1)
        PROVE  RangeIn(G(g, k), e, keys, k)
    BY <1>2, <1>4, <2>1, RangeStep
  <2> QED BY <2>1
<1>6. \A g : Good(g) /\ g.settings = e.settings => g \in V
  <2>1. SUFFICES ASSUME NEW g, Good(g), g.settings = e.settings
                 PROVE  g \in V
    OBVIOUS
  <2>2. g.num_deleted \in Nat /\ g.table \in TableType
    BY <2>1, GoodFacts DEF Good, Sound, Shaped
  <2>3. g = [settings |-> e.settings, num_deleted |-> g.num_deleted, table |-> g.table]
    BY <2>1 DEF Good, Fields
  <2> QED BY <2>2, <2>3
<1>7. RangeIn(e, e, keys, 0)
  <2>1. size(e) \in Nat /\ e.num_deleted \in Nat
    BY <1>4, GoodFacts
  <2>2. {keys[j] : j \in 1..0} = {}
    OBVIOUS
  <2>3. Keys(e.table) = Keys(e.table) \cup {keys[j] : j \in 1..0}
    BY <2>2
  <2> QED BY <1>4, <2>1, <2>3 DEF RangeIn
<1>8. e \in V
  BY <1>4, <1>6
<1> HIDE DEF V, G
<1>9. PICK g \in [0..N -> V] : Solves(g, N, e, F)
  <2>1. F \in [1..N -> [V -> V]]
    OBVIOUS
  <2> HIDE DEF F
  <2> QED BY <1>1, <1>8, <2>1, StepsExist
<1>10. g[0] = e /\ \A k \in 1..N : g[k] = IF G(g[k - 1], k) \in V THEN G(g[k - 1], k) ELSE g[k - 1]
  <2>1. g[0] = e /\ \A k \in 1..N : g[k] = F[k][g[k - 1]]
    BY <1>9 DEF Solves
  <2>2. \A k \in 1..N : g[k - 1] \in V
    BY <1>1
  <2> QED BY <2>1, <2>2
\* Whatever follows the recursion has the keys so far.
<1>11. ASSUME NEW f, f[0] = e,
              \A k \in 1..N : G(f[k - 1], k) \in V => f[k] = G(f[k - 1], k)
       PROVE  \A k \in 0..N : RangeIn(f[k], e, keys, k)
  <2> DEFINE T == {k \in 0..N : RangeIn(f[k], e, keys, k)}
  <2>1. 0 \in T
    BY <1>1, <1>7, <1>11
  <2>2. ASSUME NEW k \in 1..N, k - 1 \in T
        PROVE  k \in T
    <3>1. RangeIn(G(f[k - 1], k), e, keys, k)
      BY <1>5, <2>2
    <3>2. G(f[k - 1], k) \in V
      BY <1>6, <3>1 DEF RangeIn
    <3>3. f[k] = G(f[k - 1], k)
      BY <1>11, <3>2
    <3>4. k \in 0..N
      BY <1>1
    <3> QED BY <3>1, <3>3, <3>4
  <2>3. T = 0..N
    <3>1. T \in SUBSET (0..N)
      OBVIOUS
    <3> HIDE DEF T
    <3> QED BY <1>1, <2>1, <2>2, <3>1, UpTo
  <2> QED BY <2>3
<1>12. g = Step(g)
  <2>1. \A k \in 0..N : RangeIn(g[k], e, keys, k)
    BY <1>10, <1>11
  <2>2. ASSUME NEW k \in 1..N
        PROVE  g[k] = G(g[k - 1], k)
    <3>1. k - 1 \in 0..N
      BY <1>1
    <3>2. RangeIn(G(g[k - 1], k), e, keys, k)
      BY <1>5, <2>1, <3>1
    <3>3. G(g[k - 1], k) \in V
      BY <1>6, <3>2 DEF RangeIn
    <3> QED BY <1>10, <3>3
  <2>3. \A k \in 0..N : g[k] = IF k = 0 THEN e ELSE G(g[k - 1], k)
    BY <1>1, <1>10, <2>2
  <2> QED BY <2>3
<1>13. after = Step(after)
  <2> HIDE DEF Step
  <2> QED BY <1>12
<1>14. \A k \in 0..N : after[k] = IF k = 0 THEN e ELSE G(after[k - 1], k)
  <2>1. \A k \in 0..N : after[k] = Step(after)[k]
    <3> HIDE DEF Step, after
    <3> QED BY <1>13
  <2> HIDE DEF after
  <2> QED BY <2>1
<1> HIDE DEF after
<1>15. RangeIn(after[N], e, keys, N)
  <2>1. after[0] = e /\ \A k \in 1..N : after[k] = G(after[k - 1], k)
    BY <1>1, <1>14
  <2> QED BY <1>1, <1>11, <2>1
<1> DEFINE u == after[N]
<1> HIDE DEF u
<1>16. /\ Good(u) /\ Keys(u.table) = Keys(e.table) \cup {keys[j] : j \in 1..N}
       /\ size(u) + u.num_deleted =< size(e) + e.num_deleted + N
  BY <1>15 DEF RangeIn, u
<1>17. Keys(u.table) = Keys(h.table) \cup ToSet(keys)
  <2>1. ToSet(keys) = {keys[j] : j \in 1..N}
    BY DEF ToSet
  <2> QED BY <1>2, <1>16, <2>1 DEF Keeps
<1>18. size(u) + u.num_deleted =< size(h) + h.num_deleted + N
  <2>1. size(u) \in Nat /\ u.num_deleted \in Nat /\ size(e) \in Nat /\ e.num_deleted \in Nat
        /\ size(h) \in Nat /\ h.num_deleted \in Nat
    BY <1>4, <1>16, GoodFacts
  <2>2. size(e) = size(h) /\ e.num_deleted =< h.num_deleted
    BY <1>2 DEF Keeps
  <2>3. size(u) + u.num_deleted =< size(e) + e.num_deleted + N
    BY <1>16
  <2> QED BY <1>1, <2>1, <2>2, <2>3
<1> QED BY <1>3, <1>16, <1>17, <1>18 DEF Grown, u

\* What an erasure makes of a hash table.
Erased(g, h, keys) ==
  /\ Good(g) /\ Keys(g.table) = Keys(h.table) \ keys
  /\ size(g) + g.num_deleted =< size(h) + h.num_deleted

LEMMA EraseRecord ==
  ASSUME NEW h, Fields(h), NEW u, NEW n,
         NEW g0, g0 = [settings |-> h.settings, num_deleted |-> h.num_deleted + n, table |-> u]
  PROVE  AfterErase(h, u, n) = [g0 EXCEPT !.settings.consider_shrink = TRUE]
<1> DEFINE s == h.settings
           d == h.num_deleted
           t == h.table
           D == h.num_deleted + n
           g == AfterErase(h, u, n)
           k == [g0 EXCEPT !.settings.consider_shrink = TRUE]
           r == [s EXCEPT !.consider_shrink = TRUE]
<1>1. h = [settings |-> s, num_deleted |-> d, table |-> t] /\ d + n = D
  BY DEF Fields
<1>2. g = [h EXCEPT !.table = u, !.num_deleted = @ + n, !.settings.consider_shrink = TRUE]
  BY DEF AfterErase
<1>3. k = [g0 EXCEPT !.settings.consider_shrink = TRUE]
  OBVIOUS
<1>4. g0 = [settings |-> s, num_deleted |-> D, table |-> u]
  OBVIOUS
<1>5. r = [s EXCEPT !.consider_shrink = TRUE]
  OBVIOUS
<1>6. g = k
  <2> HIDE DEF s, d, t, D, g, k, r
  <2>1. k = [settings |-> r, num_deleted |-> D, table |-> u]
    <3>1. k = [g0 EXCEPT !.settings = r]
      <4>1. g0.settings = s
        BY <1>4
      <4> QED BY <1>3, <1>5, <4>1
    <3> QED BY <1>4, <3>1
  <2>2. g = [settings |-> r, num_deleted |-> D, table |-> u]
    BY <1>1, <1>2, <1>5
  <2> QED BY <2>1, <2>2
<1> QED BY <1>6

LEMMA AfterEraseIs ==
  ASSUME NEW h, Good(h), NEW u, Sound(u), u.table_size = h.table.table_size,
         NEW n \in Nat, u.num_buckets = h.table.num_buckets - n,
         Cardinality(Marks(u)) = Cardinality(Marks(h.table)) + n
  PROVE  LET g == AfterErase(h, u, n)
         IN  Good(g) /\ g.table = u /\ size(g) + g.num_deleted = size(h) + h.num_deleted
<1> DEFINE s == h.settings
           g0 == [settings |-> s, num_deleted |-> h.num_deleted + n, table |-> u]
           g == [g0 EXCEPT !.settings.consider_shrink = TRUE]
<1>1. h = [settings |-> s, num_deleted |-> h.num_deleted, table |-> h.table]
      /\ h.num_deleted = Cardinality(Marks(h.table)) /\ Knobs(s)
      /\ s.enlarge_threshold = enlarge_size(s, h.table.table_size) /\ Roomy(h.table)
  BY DEF Good, Fields
<1>2. /\ size(h) = h.table.num_buckets /\ size(h) \in Nat /\ h.num_deleted \in Nat
      /\ h.table.table_size \in Nat
  BY GoodFacts
<1>3. u.num_buckets \in Nat
  BY KeysCount
<1>4. Roomy(u) /\ u.num_buckets + (h.num_deleted + n) = size(h) + h.num_deleted
  <2>1. h.table.num_buckets + Cardinality(Marks(h.table)) < h.table.table_size
    BY <1>1 DEF Roomy
  <2> QED BY <1>1, <1>2, <1>3, <2>1 DEF Roomy
<1> HIDE DEF s
<1>5. Good(g0)
  <2>1. g0.settings = s /\ g0.num_deleted = h.num_deleted + n /\ g0.table = u /\ Fields(g0)
    BY DEF Fields
  <2> HIDE DEF g0
  <2> QED BY <1>1, <1>4, <2>1 DEF Good
<1>6. Good(g) /\ g.table = u /\ g.num_deleted = h.num_deleted + n
  <2>1. g0.num_deleted = h.num_deleted + n /\ g0.table = u
    OBVIOUS
  <2> HIDE DEF g0
  <2> QED BY <1>5, <2>1, Reconsider
<1>7. AfterErase(h, u, n) = g
  <2>1. g0 = [settings |-> h.settings, num_deleted |-> h.num_deleted + n, table |-> u]
    BY DEF s
  <2>2. Fields(h)
    BY DEF Good
  <2> HIDE DEF g0
  <2> QED BY <2>1, <2>2, EraseRecord
<1> HIDE DEF g, g0
<1>8. size(g) + g.num_deleted = size(h) + h.num_deleted
  BY <1>4, <1>6 DEF size
<1> QED BY <1>6, <1>7, <1>8

LEMMA EraseKeyErases ==
  ASSUME NEW h, Good(h), NEW key \in Key
  PROVE  Erased(erase_key(h, key), h, {key})
<1> DEFINE t == h.table
           b == Probe(key, Ends(t, key), t.table_size)
           holds == Holding(t, key)
           u == erase_bucket(t, b)
<1>1. Sound(t) /\ Roomy(t)
  BY DEF Good
<1>2. /\ b \in holds <=> key \in Keys(t)
      /\ b \in holds => b \in Full(t) /\ unsafe_get(t, b) = key
  BY <1>1, SearchEnds
<1>3. erase_key(h, key) = IF b \notin holds THEN h ELSE AfterErase(h, u, 1)
  BY DEF erase_key, bucket_count, Ends
<1>4. size(h) \in Nat /\ h.num_deleted \in Nat
  BY GoodFacts
<1> HIDE DEF b, holds, t
<1>5. CASE b \notin holds
  BY <1>2, <1>3, <1>4, <1>5 DEF Erased, t
<1>6. CASE b \in holds
  <2>1. Lost(t, b, u) /\ unsafe_get(t, b) = key
    BY <1>1, <1>2, <1>6, EraseLoses
  <2> HIDE DEF u
  <2>2. /\ Sound(u) /\ u.table_size = t.table_size
        /\ Keys(u) = Keys(t) \ {key} /\ u.num_buckets = t.num_buckets - 1
        /\ Cardinality(Marks(u)) = Cardinality(Marks(t)) + 1
    BY <2>1 DEF Lost
  <2> DEFINE g == AfterErase(h, u, 1)
  <2>3. Good(g) /\ g.table = u /\ size(g) + g.num_deleted = size(h) + h.num_deleted
    BY <2>2, AfterEraseIs DEF t
  <2> HIDE DEF g
  <2>4. Erased(g, h, {key})
    BY <1>4, <2>2, <2>3 DEF Erased, t
  <2> QED BY <1>3, <1>6, <2>4 DEF g
<1> QED BY <1>5, <1>6

\* What erase_range has done after k of its erasures from the n-th value on.
RangeOut(p, t, n, k) ==
  LET u == p.table
  IN  /\ p \in [table : TableType, it : Iterators]
      /\ Sound(u) /\ u.table_size = t.table_size
      /\ u.num_buckets = t.num_buckets - k
      /\ Cardinality(Marks(u)) = Cardinality(Marks(t)) + k
      /\ \A j \in 1..(t.num_buckets - k) :
           Elements(u)[j] = Elements(t)[IF j < n THEN j ELSE j + k]
      /\ Keys(u) = Keys(t) \ {Elements(t)[j] : j \in n..(n + k - 1)}
      /\ n =< t.num_buckets - k => p.it = Walk(u)[n]

LEMMA RangeOutStep ==
  ASSUME NEW t, Sound(t), NEW n \in 1..t.num_buckets, NEW k \in Nat,
         n + k =< t.num_buckets, NEW p, RangeOut(p, t, n, k)
  PROVE  RangeOut(erase_at(p.table, p.it), t, n, k + 1)
<1> DEFINE u == p.table
           q == erase_at(p.table, p.it)
           v == q.table
           N == t.num_buckets
           M == u.num_buckets
           W == Elements(t)
<1>1. /\ Sound(u) /\ u.table_size = t.table_size
      /\ M = N - k
      /\ Cardinality(Marks(u)) = Cardinality(Marks(t)) + k
      /\ \A j \in 1..(N - k) : Elements(u)[j] = W[IF j < n THEN j ELSE j + k]
      /\ Keys(u) = Keys(t) \ {W[j] : j \in n..(n + k - 1)}
      /\ n =< N - k => p.it = Walk(u)[n]
  BY DEF RangeOut
<1>2. N \in Nat /\ n \in Nat /\ k \in Nat /\ n >= 1 /\ n \in 1..M /\ M \in Nat
  BY <1>1, KeysCount
<1>3. p.it = Walk(u)[n]
  BY <1>1, <1>2
<1>4. PICK b \in Full(u) :
        /\ Rank(u, b) + 1 = n
        /\ v = erase_bucket(u, b)
        /\ unsafe_get(u, b) = deref(u, Walk(u)[n])
        /\ Elements(v) = RemoveAt(Elements(u), n)
        /\ q.it = IF n = M THEN EndOf(v) ELSE Walk(v)[n]
  <2>1. Shaped(u)
    BY <1>1 DEF Sound
  <2> HIDE DEF u
  <2> QED BY <1>2, <1>3, <2>1, EraseGoesOn DEF u
<1> HIDE DEF q, u, W
<1>5. Lost(u, b, v)
  BY <1>1, <1>4, EraseLoses
<1>6. /\ Sound(v) /\ v.table_size = u.table_size
      /\ Keys(v) = Keys(u) \ {unsafe_get(u, b)} /\ v.num_buckets = M - 1
      /\ Cardinality(Marks(v)) = Cardinality(Marks(u)) + 1
  BY <1>5 DEF Lost
<1>7. unsafe_get(u, b) = W[n + k]
  <2>1. Elements(u)[n] = unsafe_get(u, b)
    BY <1>1, <1>4, ElementsAre DEF Sound
  <2>2. Elements(u)[n] = W[n + k]
    BY <1>1, <1>2
  <2> QED BY <2>1, <2>2
<1>8. /\ Len(Elements(u)) = M /\ Elements(u) \in Seq(Key)
  BY <1>1, ElementsAreKeys
<1>9. \A j \in 1..(N - (k + 1)) : Elements(v)[j] = W[IF j < n THEN j ELSE j + (k + 1)]
  <2> DEFINE E == Elements(u)
  <2>1. \A j \in 1..(M - 1) : RemoveAt(E, n)[j] = IF j < n THEN E[j] ELSE E[j + 1]
    BY <1>2, <1>8, RemovedAt
  <2>2. ASSUME NEW j \in 1..(N - (k + 1))
        PROVE  Elements(v)[j] = W[IF j < n THEN j ELSE j + (k + 1)]
    <3>1. j \in 1..(M - 1) /\ j \in 1..(N - k) /\ j + 1 \in 1..(N - k) /\ j \in Nat
          /\ (j + 1) + k = j + (k + 1)
      BY <1>1, <1>2
    <3>2. Elements(v)[j] = IF j < n THEN E[j] ELSE E[j + 1]
      BY <1>4, <2>1, <3>1
    <3> HIDE DEF E
    <3>3. CASE j < n
      <4>1. Elements(u)[j] = W[IF j < n THEN j ELSE j + k]
        BY <1>1, <3>1
      <4> QED BY <3>2, <3>3, <4>1 DEF E
    <3>4. CASE ~(j < n)
      <4>1. Elements(u)[j + 1] = W[IF j + 1 < n THEN j + 1 ELSE (j + 1) + k]
        BY <1>1, <3>1
      <4>2. ~(j + 1 < n)
        BY <1>2, <3>1, <3>4
      <4> QED BY <3>1, <3>2, <3>4, <4>1, <4>2 DEF E
    <3> QED BY <3>3, <3>4
  <2> QED BY <2>2
<1>10. Keys(v) = Keys(t) \ {W[j] : j \in n..(n + (k + 1) - 1)}
  <2>1. \A j : j \in n..(n + (k + 1) - 1) <=> j \in n..(n + k - 1) \/ j = n + k
    BY <1>2
  <2> QED BY <1>1, <1>6, <1>7, <2>1
<1>11. n =< N - (k + 1) => q.it = Walk(v)[n]
  BY <1>1, <1>2, <1>4
<1>12. v.num_buckets = N - (k + 1) /\ Cardinality(Marks(v)) = Cardinality(Marks(t)) + (k + 1)
       /\ v.table_size = t.table_size
  <2>1. Cardinality(Marks(t)) \in Nat
    BY FullFinite DEF Sound
  <2> QED BY <1>1, <1>2, <1>6, <2>1
<1>13. q \in [table : TableType, it : Iterators]
  <2>1. v \in TableType /\ Shaped(v) /\ Len(v.groups) \in Nat
    BY <1>6 DEF Sound, Shaped, TableType
  <2>2. EndOf(v) \in Iterators
    BY <2>1 DEF EndOf, Iterators
  <2>3. n # M => Walk(v)[n] \in Iterators
    <3>1. SUFFICES ASSUME n # M
                   PROVE  Walk(v)[n] \in Iterators
      OBVIOUS
    <3>2. Walk(v) \in Seq(Iterators) /\ Len(Walk(v)) = v.num_buckets
      BY <2>1, WalkAt
    <3>3. n \in 1..Len(Walk(v))
      BY <1>2, <1>6, <3>1, <3>2
    <3> QED BY <3>2, <3>3
  <2>4. q.it \in Iterators
    BY <1>4, <2>2, <2>3
  <2>5. q = [table |-> q.table, it |-> q.it]
    BY DEF erase_at, q
  <2> QED BY <2>1, <2>4, <2>5
<1> QED BY <1>6, <1>9, <1>10, <1>11, <1>12, <1>13 DEF RangeOut, q, u, W

LEMMA EraseRangeOut ==
  ASSUME NEW t, Sound(t), NEW n \in 1..t.num_buckets, NEW d \in Nat, n + d =< t.num_buckets + 1
  PROVE  RangeOut(erase_range(t, Walk(t)[n], d), t, n, d)
<1> DEFINE e == [table |-> t, it |-> Walk(t)[n]]
           V == [table : TableType, it : Iterators]
           G(p) == erase_at(p.table, p.it)
           F == [k \in 1..d |-> [p \in V |-> IF G(p) \in V THEN G(p) ELSE p]]
           Step(f) == [k \in 0..d |-> IF k = 0 THEN e ELSE G(f[k - 1])]
           after == CHOOSE f : f = Step(f)
<1>1. d \in 0..d /\ t.num_buckets \in Nat /\ n \in Nat
  BY KeysCount
<1>2. erase_range(t, Walk(t)[n], d) = after[d]
  BY DEF erase_range
<1>3. RangeOut(e, t, n, 0)
  <2>1. Shaped(t) /\ t \in TableType
    BY DEF Sound, Shaped
  <2>2. Walk(t)[n] \in Iterators
    <3>1. Walk(t) \in Seq(Iterators) /\ Len(Walk(t)) = t.num_buckets
      BY <2>1, WalkAt
    <3> QED BY <3>1
  <2>3. e \in V /\ e.table = t /\ e.it = Walk(t)[n]
    BY <2>1, <2>2
  <2> HIDE DEF e, V
  <2>4. Cardinality(Marks(t)) \in Nat
    BY <2>1, FullFinite
  <2>5. {Elements(t)[j] : j \in n..(n + 0 - 1)} = {}
    BY <1>1
  <2>6. Keys(t) = Keys(t) \ {Elements(t)[j] : j \in n..(n + 0 - 1)}
    BY <2>5
  <2>7. \A j \in 1..(t.num_buckets - 0) : Elements(t)[j] = Elements(t)[IF j < n THEN j ELSE j + 0]
    BY <1>1
  <2>8. t.num_buckets = t.num_buckets - 0 /\ Cardinality(Marks(t)) = Cardinality(Marks(t)) + 0
    BY <1>1, <2>4
  <2> QED BY <2>3, <2>6, <2>7, <2>8 DEF RangeOut, V
<1>4. ASSUME NEW k \in 1..d, NEW p, RangeOut(p, t, n, k - 1)
      PROVE  RangeOut(G(p), t, n, k) /\ G(p) \in V
  <2> DEFINE m == k - 1
  <2>1. m \in Nat /\ n + m =< t.num_buckets /\ m + 1 = k
    BY <1>1
  <2>2. RangeOut(p, t, n, m)
    BY <1>4
  <2> HIDE DEF m
  <2>3. RangeOut(G(p), t, n, m + 1)
    BY <2>1, <2>2, RangeOutStep
  <2>4. RangeOut(G(p), t, n, k)
    BY <2>1, <2>3
  <2> HIDE DEF G
  <2> QED BY <2>4 DEF RangeOut
<1>5. e \in V
  <2> HIDE DEF e
  <2> QED BY <1>3 DEF RangeOut
<1> HIDE DEF V, G, e
<1>6. PICK g \in [0..d -> V] : Solves(g, d, e, F)
  <2>1. F \in [1..d -> [V -> V]]
    OBVIOUS
  <2> HIDE DEF F
  <2> QED BY <1>5, <2>1, StepsExist
<1>7. g[0] = e /\ \A k \in 1..d : g[k] = IF G(g[k - 1]) \in V THEN G(g[k - 1]) ELSE g[k - 1]
  <2>1. g[0] = e /\ \A k \in 1..d : g[k] = F[k][g[k - 1]]
    BY <1>6 DEF Solves
  <2>2. \A k \in 1..d : g[k - 1] \in V
    OBVIOUS
  <2> QED BY <2>1, <2>2
<1>8. ASSUME NEW f, f[0] = e, \A k \in 1..d : G(f[k - 1]) \in V => f[k] = G(f[k - 1])
      PROVE  \A k \in 0..d : RangeOut(f[k], t, n, k)
  <2> DEFINE T == {k \in 0..d : RangeOut(f[k], t, n, k)}
  <2>1. 0 \in T
    BY <1>3, <1>8
  <2>2. ASSUME NEW k \in 1..d, k - 1 \in T
        PROVE  k \in T
    <3>1. RangeOut(G(f[k - 1]), t, n, k) /\ G(f[k - 1]) \in V
      BY <1>4, <2>2
    <3>2. f[k] = G(f[k - 1]) /\ k \in 0..d
      BY <1>8, <3>1
    <3> QED BY <3>1, <3>2
  <2>3. T = 0..d
    <3>1. T \in SUBSET (0..d)
      OBVIOUS
    <3> HIDE DEF T
    <3> QED BY <2>1, <2>2, <3>1, UpTo
  <2> QED BY <2>3
<1>9. g = Step(g)
  <2>1. \A k \in 0..d : RangeOut(g[k], t, n, k)
    BY <1>7, <1>8
  <2>2. ASSUME NEW k \in 1..d
        PROVE  g[k] = G(g[k - 1])
    <3>1. k - 1 \in 0..d
      OBVIOUS
    <3>2. G(g[k - 1]) \in V
      BY <1>4, <2>1, <3>1
    <3> QED BY <1>7, <3>2
  <2>3. \A k \in 0..d : g[k] = IF k = 0 THEN e ELSE G(g[k - 1])
    BY <1>7, <2>2
  <2> QED BY <2>3
<1>10. after = Step(after)
  <2> HIDE DEF Step
  <2> QED BY <1>9
<1>11. \A k \in 0..d : after[k] = IF k = 0 THEN e ELSE G(after[k - 1])
  <2>1. \A k \in 0..d : after[k] = Step(after)[k]
    <3> HIDE DEF Step, after
    <3> QED BY <1>10
  <2> HIDE DEF after
  <2> QED BY <2>1
<1> HIDE DEF after
<1>12. after[0] = e /\ \A k \in 1..d : after[k] = G(after[k - 1])
  BY <1>11
<1> QED BY <1>1, <1>2, <1>8, <1>12

\* erase(f, l) of iterators, and erase(it).
LEMMA EraseItersErases ==
  ASSUME NEW h, Good(h), NEW n \in 1..size(h), NEW d \in Nat, n + d =< size(h) + 1
  PROVE  Erased(erase_iters(h, Walk(h.table)[n], d), h,
                {Elements(h.table)[j] : j \in n..(n + d - 1)})
<1> DEFINE t == h.table
           u == erase_range(t, Walk(t)[n], d).table
           g == AfterErase(h, u, d)
<1>1. Sound(t) /\ size(h) = t.num_buckets /\ size(h) \in Nat /\ h.num_deleted \in Nat
  BY GoodFacts DEF Good
<1>2. RangeOut(erase_range(t, Walk(t)[n], d), t, n, d)
  BY <1>1, EraseRangeOut
<1>3. /\ Sound(u) /\ u.table_size = t.table_size /\ u.num_buckets = t.num_buckets - d
      /\ Cardinality(Marks(u)) = Cardinality(Marks(t)) + d
      /\ Keys(u) = Keys(t) \ {Elements(t)[j] : j \in n..(n + d - 1)}
  BY <1>2 DEF RangeOut
<1>4. size(h) - u.num_buckets = d
  BY <1>1, <1>3
<1>5. erase_iters(h, Walk(t)[n], d) = g
  BY <1>4 DEF erase_iters
<1> HIDE DEF u
<1>6. Good(g) /\ g.table = u /\ size(g) + g.num_deleted = size(h) + h.num_deleted
  BY <1>3, AfterEraseIs
<1> HIDE DEF g
<1>7. Erased(g, h, {Elements(t)[j] : j \in n..(n + d - 1)})
  BY <1>1, <1>3, <1>6 DEF Erased
<1> QED BY <1>5, <1>7

LEMMA EraseIterErases ==
  ASSUME NEW h, Good(h), NEW n \in 1..size(h)
  PROVE  Erased(erase_iter(h, Walk(h.table)[n]), h, {Elements(h.table)[n]})
<1> DEFINE t == h.table
           it == Walk(t)[n]
           u == erase_at(t, it).table
           g == AfterErase(h, u, 1)
<1>1. Sound(t) /\ size(h) = t.num_buckets /\ size(h) \in Nat /\ h.num_deleted \in Nat
      /\ Shaped(t)
  BY GoodFacts DEF Good, Sound
<1>2. PICK b \in Full(t) : Rank(t, b) + 1 = n /\ u = erase_bucket(t, b)
  BY <1>1, EraseGoesOn
<1>3. unsafe_get(t, b) = Elements(t)[n]
  BY <1>1, <1>2, ElementsAre
<1>4. erase_iter(h, it) = g
  BY DEF erase_iter
<1> HIDE DEF u
<1>5. Lost(t, b, u)
  BY <1>1, <1>2, EraseLoses
<1>6. /\ Sound(u) /\ u.table_size = t.table_size
      /\ Keys(u) = Keys(t) \ {Elements(t)[n]} /\ u.num_buckets = t.num_buckets - 1
      /\ Cardinality(Marks(u)) = Cardinality(Marks(t)) + 1
  BY <1>3, <1>5 DEF Lost
<1>7. Good(g) /\ g.table = u /\ size(g) + g.num_deleted = size(h) + h.num_deleted
  BY <1>6, AfterEraseIs
<1> HIDE DEF g
<1>8. Erased(g, h, {Elements(t)[n]})
  BY <1>1, <1>6, <1>7 DEF Erased
<1> QED BY <1>4, <1>8

-----------------------------------------------------------------------------
(* Whole tables                                                            *)

LEMMA PreparedIsGood ==
  ASSUME NEW h, NEW sz \in PowersOfTwo, Prepared(h, sz)
  PROVE  Good(h) /\ Keys(h.table) = {} /\ size(h) = 0 /\ h.num_deleted = 0
<1>1. /\ Fields(h) /\ Knobs(h.settings) /\ h.table = NewTable(sz) /\ h.num_deleted = 0
      /\ h.settings.enlarge_threshold = enlarge_size(h.settings, sz)
  BY DEF Prepared
<1> DEFINE t == NewTable(sz)
<1>2. Sound(t) /\ Keys(t) = {} /\ t.num_buckets = 0 /\ Marks(t) = {} /\ t.table_size = sz
      /\ sz \in Nat /\ sz >= 1
  BY NewTableSound, NewTableEmpty, PowersArePositive
<1> HIDE DEF t
<1>3. h.table = t
  BY <1>1 DEF t
<1>4. Cardinality(Marks(t)) = 0
  BY <1>2, FS_EmptySet
<1>5. Roomy(t)
  BY <1>2, <1>4 DEF Roomy
<1> QED BY <1>1, <1>2, <1>3, <1>4, <1>5 DEF Good, size

LEMMA ConstructIsGood ==
  ASSUME NEW n, Room(n)
  PROVE  Good(Construct(n)) /\ Keys(Construct(n).table) = {}
         /\ size(Construct(n)) = 0 /\ Construct(n).num_deleted = 0
<1> DEFINE m == min_buckets(NewSettings, n, 0)
           sz == IF n = 0 THEN HT_DEFAULT_STARTING_BUCKETS ELSE m
<1>1. Knobs(NewSettings)
  BY DEF Knobs, NewSettings, Factors
<1>2. sz \in PowersOfTwo
  <2>1. m \in PowersOfTwo
    BY <1>1, MinBucketsFound, LargestIs
  <2> QED BY <2>1, HashtableAssumption
<1>3. Construct(n) = NewHashtable(sz, NewSettings)
  BY DEF Construct
<1> HIDE DEF sz
<1> QED BY <1>1, <1>2, <1>3, NewIsPrepared, PreparedIsGood

\* The factors change and the thresholds are set anew.
LEMMA ResetIsGood ==
  ASSUME NEW h, Good(h), NEW s, Knobs(s)
  PROVE  LET g == [h EXCEPT !.settings = reset_thresholds(s, bucket_count(h))]
         IN  Good(g) /\ g.table = h.table /\ g.num_deleted = h.num_deleted
<1> DEFINE r == reset_thresholds(s, bucket_count(h))
           g == [h EXCEPT !.settings = r]
<1>1. h = [settings |-> h.settings, num_deleted |-> h.num_deleted, table |-> h.table]
  BY DEF Good, Fields
<1>2. Knobs(r) /\ r.enlarge_threshold = enlarge_size(r, h.table.table_size)
  BY ResetKnobs DEF bucket_count
<1>3. g = [h EXCEPT !.settings = r]
  OBVIOUS
<1> HIDE DEF r, g
<1>4. g = [settings |-> r, num_deleted |-> h.num_deleted, table |-> h.table]
  BY <1>1, <1>3
<1>5. Good(g)
  BY <1>2, <1>4 DEF Good, Fields
<1> QED BY <1>4, <1>5 DEF g, r

LEMMA SwappedIsGood ==
  ASSUME NEW h, Good(h)
  PROVE  Good(swapped(h)) /\ swapped(h).table = h.table /\ swapped(h).num_deleted = h.num_deleted
<1>1. Knobs(h.settings) /\ Fields(h)
  BY DEF Good
<1>2. swapped(h) = [h EXCEPT !.settings = reset_thresholds(h.settings, bucket_count(h))]
  BY <1>1 DEF swapped, Fields
<1> QED BY <1>1, <1>2, ResetIsGood

LEMMA ParametersKeep ==
  ASSUME NEW h, Good(h), NEW p \in ResizingParams
  PROVE  LET g == set_table_parameters(h, p[1], p[2])
         IN  Good(g) /\ g.table = h.table /\ g.num_deleted = h.num_deleted
<1> DEFINE s == h.settings
           f == IF 2 * p[1] > p[2] THEN p[2] \div 2 ELSE p[1]
           r == set_resizing_parameters(s, p[1], p[2])
<1>1. Knobs(s) /\ Fields(h)
  BY DEF Good
<1>2. p[2] \in Factors
  BY DEF Factors
<1>3. r = [s EXCEPT !.shrink_factor = f, !.enlarge_factor = p[2]]
  BY DEF set_resizing_parameters
<1>4. set_table_parameters(h, p[1], p[2])
        = [h EXCEPT !.settings = reset_thresholds(r, bucket_count(h))]
  BY <1>1 DEF set_table_parameters, Fields
<1> HIDE DEF f, r, s
<1>5. r = [enlarge_threshold |-> s.enlarge_threshold, shrink_threshold |-> s.shrink_threshold,
           enlarge_factor |-> p[2], shrink_factor |-> f, consider_shrink |-> s.consider_shrink]
  BY <1>1, <1>3 DEF Knobs
<1>6. Knobs(r)
  BY <1>2, <1>5 DEF Knobs
<1> QED BY <1>4, <1>6, ResetIsGood

\* What clear leaves.
LEMMA ClearIsGood ==
  ASSUME NEW h, Good(h)
  PROVE  Good(clear(h)) /\ Keys(clear(h).table) = {} /\ size(clear(h)) = 0
         /\ clear(h).num_deleted = 0
<1>1. Knobs(h.settings) /\ Fields(h) /\ Sound(h.table)
  BY DEF Good
<1>2. CASE size(h) # 0 \/ h.num_deleted # 0
  <2>1. clear(h) = NewHashtable(HT_DEFAULT_STARTING_BUCKETS, h.settings)
    BY <1>2 DEF clear
  <2>2. HT_DEFAULT_STARTING_BUCKETS \in PowersOfTwo
    BY HashtableAssumption
  <2> QED BY <1>1, <2>1, <2>2, NewIsPrepared, PreparedIsGood
<1>3. CASE ~(size(h) # 0 \/ h.num_deleted # 0)
  <2>1. clear(h) = [h EXCEPT !.settings = reset_thresholds(h.settings, bucket_count(h))]
    BY <1>1, <1>3 DEF clear, Fields
  <2>2. Good(clear(h)) /\ clear(h).table = h.table /\ clear(h).num_deleted = h.num_deleted
    BY <1>1, <2>1, ResetIsGood
  <2>3. Keys(h.table) = {}
    <3>1. Cardinality(Keys(h.table)) = 0 /\ IsFiniteSet(Keys(h.table))
      BY <1>1, <1>3, KeysCount DEF size
    <3> QED BY <3>1, FS_EmptySet
  <2> QED BY <1>3, <2>2, <2>3 DEF size
<1> QED BY <1>2, <1>3

LEMMA CopyConstructIsGood ==
  ASSUME NEW h, Good(h), Room(size(h))
  PROVE  Rebuilt(CopyConstruct(h), h.table)
<1> DEFINE n == NewHashtable(0, h.settings)
<1>1. Prepared(n, 0)
  BY NewIsPrepared DEF Good
<1>2. HT_DEFAULT_STARTING_BUCKETS \in PowersOfTwo
  BY HashtableAssumption
<1> HIDE DEF n
<1>3. Rebuilt(copy_from(n, h, HT_DEFAULT_STARTING_BUCKETS), h.table)
  BY <1>1, <1>2, CopyFromRebuilds DEF Prepared, Good
<1> QED BY <1>3 DEF CopyConstruct, n

\* The marks of an empty table must not be kept.
LEMMA CopyAssignIsGood ==
  ASSUME NEW h, Good(h), Room(size(h)), NEW g, Good(g),
         size(g) # 0 \/ g.num_deleted = 0 \/ h.num_deleted # 0
  PROVE  Rebuilt(copy_assign(g, h), h.table)
<1> DEFINE s == h.settings
           d == h.num_deleted
           self == [g EXCEPT !.settings = s, !.num_deleted = d]
<1>1. g = [settings |-> g.settings, num_deleted |-> g.num_deleted, table |-> g.table]
      /\ Sound(g.table) /\ g.num_deleted = Cardinality(Marks(g.table))
  BY DEF Good, Fields
<1>2. self = [g EXCEPT !.settings = s, !.num_deleted = d]
  OBVIOUS
<1>3. Knobs(s) /\ Sound(h.table)
  BY DEF Good
<1> HIDE DEF self, s, d
<1>4. self = [settings |-> s, num_deleted |-> d, table |-> g.table]
  BY <1>1, <1>2
<1>5. Fields(self) /\ Knobs(self.settings) /\ size(self) = size(g)
  BY <1>3, <1>4 DEF Fields, size
<1>6. g.table.table_size \in PowersOfTwo
  BY <1>1 DEF Sound
<1>7. self.table = NewTable(g.table.table_size) \/ size(self) # 0 \/ self.num_deleted # 0
  <2>1. SUFFICES ASSUME size(g) = 0, d = 0
                 PROVE  g.table = NewTable(g.table.table_size)
    BY <1>4, <1>5
  <2>2. Cardinality(Marks(g.table)) = 0 /\ Cardinality(Full(g.table)) = 0
    BY <1>1, <2>1, KeysCount DEF size, d
  <2>3. Full(g.table) = {} /\ Marks(g.table) = {} /\ Shaped(g.table)
    BY <1>1, <2>2, FullFinite, FS_EmptySet DEF Sound
  <2> QED BY <2>3, CleanIsNew
<1>8. HT_MIN_BUCKETS \in PowersOfTwo
  BY HashtableAssumption
<1>9. Rebuilt(copy_from(self, h, HT_MIN_BUCKETS), h.table)
  BY <1>3, <1>5, <1>6, <1>7, <1>8, CopyFromRebuilds
<1> QED BY <1>9 DEF copy_assign, self, s, d

-----------------------------------------------------------------------------
(* Streams                                                                 *)

\* The number v takes the words from at to before next.
NumberAt(fp, at, v, next) ==
  IF v < FIRST4 THEN fp[at] = v /\ next = at + 1
  ELSE fp[at] = FIRST4 /\ fp[at + 1] = v /\ next = at + 2

\* Where the words of a stream are: the counts begin at 2 and at p, the
\* groups at q, the values follow.
Layout(fp, t, p, q) ==
  /\ p \in Nat /\ q \in Nat /\ 2 < p /\ p < q
  /\ fp[1] = MAGIC_NUMBER
  /\ NumberAt(fp, 2, t.table_size, p) /\ NumberAt(fp, p, t.num_buckets, q)
  /\ \A r \in 1..Len(t.groups) : fp[q + r - 1] = t.groups[r].bitmap
  /\ \A n \in 1..t.num_buckets : fp[q + Len(t.groups) + n - 1] = Elements(t)[n]
  /\ Len(fp) = q + Len(t.groups) + t.num_buckets - 1

\* The words a stream is made of.
Words == Nat \cup (SUBSET Buckets) \cup Value

LEMMA NumberWritten ==
  ASSUME NEW v \in Nat
  PROVE  LET w == write_32_or_64(v)
         IN  /\ w \in Seq(Words) /\ Len(w) \in {1, 2}
             /\ v < FIRST4 => Len(w) = 1 /\ w[1] = v
             /\ ~(v < FIRST4) => Len(w) = 2 /\ w[1] = FIRST4 /\ w[2] = v
<1> DEFINE w == write_32_or_64(v)
<1>1. v \in Words /\ FIRST4 \in Words
  BY StreamAssumption DEF Words
<1>2. CASE v < FIRST4
  <2>1. w = <<v>>
    BY <1>2 DEF write_32_or_64
  <2> QED BY <1>1, <1>2, <2>1
<1>3. CASE ~(v < FIRST4)
  <2>1. w = <<FIRST4, v>>
    BY <1>3 DEF write_32_or_64
  <2> QED BY <1>1, <1>3, <2>1
<1> QED BY <1>2, <1>3

\* One sequence after another.
Joined(c, a, b, V) ==
  /\ c \in Seq(V) /\ Len(c) = Len(a) + Len(b)
  /\ \A i \in 1..Len(a) : c[i] = a[i]
  /\ \A i \in 1..Len(b) : c[Len(a) + i] = b[i]

LEMMA Joining ==
  ASSUME NEW V, NEW a \in Seq(V), NEW b \in Seq(V)
  PROVE  Joined(a \o b, a, b, V)
<1> DEFINE c == a \o b
<1>1. /\ c \in Seq(V) /\ Len(c) = Len(a) + Len(b)
      /\ \A i \in 1..(Len(a) + Len(b)) : c[i] = IF i =< Len(a) THEN a[i] ELSE b[i - Len(a)]
  BY ConcatProperties
<1>2. Len(a) \in Nat /\ Len(b) \in Nat
  OBVIOUS
<1> HIDE DEF c
<1>3. \A i \in 1..Len(a) : c[i] = a[i]
  BY <1>1, <1>2
<1>4. ASSUME NEW i \in 1..Len(b)
      PROVE  c[Len(a) + i] = b[i]
  <2>1. Len(a) + i \in 1..(Len(a) + Len(b)) /\ ~(Len(a) + i =< Len(a))
        /\ (Len(a) + i) - Len(a) = i
    BY <1>2
  <2> QED BY <1>1, <2>1
<1> QED BY <1>1, <1>3, <1>4 DEF Joined, c

\* A number in the middle of a sequence.
LEMMA NumberInside ==
  ASSUME NEW a \in Seq(Words), NEW b \in Seq(Words), NEW v \in Nat
  PROVE  LET w == write_32_or_64(v)
             fp == (a \o w) \o b
         IN  /\ fp \in Seq(Words) /\ Len(fp) = Len(a) + Len(w) + Len(b)
             /\ NumberAt(fp, Len(a) + 1, v, Len(a) + 1 + Len(w))
             /\ \A i \in 1..Len(a) : fp[i] = a[i]
             /\ \A i \in 1..Len(b) : fp[Len(a) + Len(w) + i] = b[i]
<1> DEFINE w == write_32_or_64(v)
           c == a \o w
           fp == c \o b
<1>1. /\ w \in Seq(Words) /\ Len(w) \in {1, 2}
      /\ v < FIRST4 => Len(w) = 1 /\ w[1] = v
      /\ ~(v < FIRST4) => Len(w) = 2 /\ w[1] = FIRST4 /\ w[2] = v
  BY NumberWritten
<1>2. Len(a) \in Nat /\ Len(b) \in Nat /\ Len(w) \in Nat
  BY <1>1
<1> HIDE DEF w
<1>3. /\ c \in Seq(Words) /\ Len(c) = Len(a) + Len(w)
      /\ \A i \in 1..Len(a) : c[i] = a[i]
      /\ \A i \in 1..Len(w) : c[Len(a) + i] = w[i]
  BY <1>1, <1>2, Joining DEF Joined
<1> HIDE DEF c
<1>4. /\ fp \in Seq(Words) /\ Len(fp) = Len(c) + Len(b)
      /\ \A i \in 1..Len(c) : fp[i] = c[i]
      /\ \A i \in 1..Len(b) : fp[Len(c) + i] = b[i]
  <2>1. Joined(fp, c, b, Words)
    BY <1>3, Joining
  <2> HIDE DEF fp
  <2> QED BY <2>1 DEF Joined
<1> HIDE DEF fp
<1>5. \A i \in 1..Len(a) : fp[i] = a[i]
  BY <1>2, <1>3, <1>4
<1>6. \A i \in 1..Len(w) : fp[Len(a) + i] = w[i]
  <2>1. ASSUME NEW i \in 1..Len(w)
        PROVE  fp[Len(a) + i] = w[i]
    <3>1. Len(a) + i \in 1..Len(c)
      BY <1>2, <1>3
    <3> QED BY <1>3, <1>4, <3>1
  <2> QED BY <2>1
<1>7. NumberAt(fp, Len(a) + 1, v, Len(a) + 1 + Len(w))
  <2>1. CASE v < FIRST4
    <3>1. w[1] = v /\ Len(w) = 1
      BY <1>1, <2>1
    <3>2. fp[Len(a) + 1] = w[1]
      BY <1>6, <3>1
    <3> QED BY <2>1, <3>1, <3>2 DEF NumberAt
  <2>2. CASE ~(v < FIRST4)
    <3>1. w[1] = FIRST4 /\ w[2] = v /\ Len(w) = 2
      BY <1>1, <2>2
    <3>2. fp[Len(a) + 1] = w[1] /\ fp[Len(a) + 2] = w[2] /\ (Len(a) + 1) + 1 = Len(a) + 2
      BY <1>2, <1>6, <3>1
    <3>3. (Len(a) + 1) + 2 = Len(a) + 1 + Len(w)
      BY <1>2, <3>1
    <3> QED BY <2>2, <3>1, <3>2, <3>3 DEF NumberAt
  <2> QED BY <2>1, <2>2
<1> QED BY <1>3, <1>4, <1>5, <1>7 DEF fp, c, w

\* The same, as a fact with a name.
NumberIn(fp, a, w, b, v) ==
  /\ fp \in Seq(Words) /\ Len(fp) = Len(a) + Len(w) + Len(b)
  /\ NumberAt(fp, Len(a) + 1, v, Len(a) + 1 + Len(w))
  /\ \A i \in 1..Len(a) : fp[i] = a[i]

LEMMA NumberWithin ==
  ASSUME NEW a \in Seq(Words), NEW b \in Seq(Words), NEW v \in Nat
  PROVE  NumberIn((a \o write_32_or_64(v)) \o b, a, write_32_or_64(v), b, v)
BY NumberInside DEF NumberIn

LEMMA SerializeLays ==
  ASSUME NEW t, Sound(t)
  PROVE  /\ serialize(t) \in Seq(Words)
         /\ \E p, q \in Nat : Layout(serialize(t), t, p, q)
<1> DEFINE R == Len(t.groups)
           N == t.num_buckets
           m == write_32_or_64(MAGIC_NUMBER)
           x == write_32_or_64(t.table_size)
           y == write_32_or_64(N)
           gs == [r \in DOMAIN t.groups |-> write_group_metadata(t.groups[r])]
           E == Elements(t)
           p == 2 + Len(x)
           q == p + Len(y)
           s1 == m \o x
           s2 == s1 \o y
           s3 == s2 \o gs
           fp == s3 \o E
<1>1. /\ Shaped(t) /\ R \in Nat /\ N \in Nat /\ t.table_size \in Nat
      /\ t.groups \in Seq(GroupType)
  BY DEF Sound, Shaped, TableType
<1>2. /\ m \in Seq(Words) /\ Len(m) = 1 /\ m[1] = MAGIC_NUMBER
      /\ x \in Seq(Words) /\ Len(x) \in {1, 2} /\ y \in Seq(Words) /\ Len(y) \in {1, 2}
  <2>1. MAGIC_NUMBER \in Nat /\ MAGIC_NUMBER < FIRST4
    BY StreamAssumption
  <2> QED BY <1>1, <2>1, NumberWritten
<1>3. gs \in Seq(Words) /\ Len(gs) = R /\ \A r \in 1..R : gs[r] = t.groups[r].bitmap
  <2>1. ASSUME NEW r \in 1..R
        PROVE  t.groups[r].bitmap \in Words
    <3>1. t.groups[r] \in GroupType
      BY <1>1
    <3>2. t.groups[r].bitmap \in SUBSET Buckets
      BY <3>1 DEF GroupType
    <3> QED BY <3>2 DEF Words
  <2>2. gs = [r \in 1..R |-> t.groups[r].bitmap]
    BY <1>1 DEF write_group_metadata
  <2> HIDE DEF gs
  <2> QED BY <1>1, <2>1, <2>2
<1>4. E \in Seq(Words) /\ Len(E) = N
  <2>1. E \in Seq(Key) /\ Len(E) = N
    BY ElementsAreKeys
  <2>2. Key \subseteq Words
    BY DEF Words, Value
  <2> HIDE DEF E
  <2> QED BY <2>1, <2>2
<1>5. serialize(t) = fp
  BY DEF serialize, write_metadata
<1> HIDE DEF m, x, y, gs, E
<1>6. /\ s2 \in Seq(Words) /\ Len(s2) = 1 + Len(x) + Len(y)
      /\ NumberAt(s2, 2, t.table_size, p)
      /\ s2[1] = MAGIC_NUMBER
  <2>1. NumberIn(s2, m, x, y, t.table_size)
    <3>1. x = write_32_or_64(t.table_size)
      BY DEF x
    <3> QED BY <1>1, <1>2, <3>1, NumberWithin
  <2>2. Len(m) + 1 = 2 /\ 1 \in 1..Len(m)
    BY <1>2
  <2> HIDE DEF s2
  <2>3. /\ s2 \in Seq(Words) /\ Len(s2) = Len(m) + Len(x) + Len(y)
        /\ NumberAt(s2, Len(m) + 1, t.table_size, Len(m) + 1 + Len(x))
        /\ \A i \in 1..Len(m) : s2[i] = m[i]
    BY <2>1 DEF NumberIn
  <2> QED BY <1>2, <2>2, <2>3
<1>7. /\ s3 \in Seq(Words) /\ Len(s3) = Len(s2) + R
      /\ \A i \in 1..Len(s2) : s3[i] = s2[i]
      /\ \A r \in 1..R : s3[Len(s2) + r] = gs[r]
      /\ NumberAt(s3, p, N, q)
  <2>1. /\ s3 \in Seq(Words)
        /\ NumberAt(s3, Len(s1) + 1, N, Len(s1) + 1 + Len(y))
    <3>1. s1 \in Seq(Words)
      BY <1>2, Joining DEF Joined
    <3> HIDE DEF s1
    <3> QED BY <1>1, <1>2, <1>3, <3>1, NumberInside DEF y
  <2>2. Len(s1) = 1 + Len(x)
    BY <1>2, Joining DEF Joined
  <2>3. /\ Len(s3) = Len(s2) + R
        /\ \A i \in 1..Len(s2) : s3[i] = s2[i]
        /\ \A r \in 1..R : s3[Len(s2) + r] = gs[r]
    <3> HIDE DEF s2
    <3>1. Joined(s3, s2, gs, Words)
      BY <1>3, <1>6, Joining
    <3> HIDE DEF s3
    <3> QED BY <1>3, <3>1 DEF Joined
  <2>4. Len(s1) + 1 = p /\ Len(s1) + 1 + Len(y) = q
    BY <1>2, <2>2
  <2> HIDE DEF s1, s2, s3
  <2> QED BY <2>1, <2>3, <2>4
<1> HIDE DEF s1, s2, s3
<1>8. /\ fp \in Seq(Words) /\ Len(fp) = Len(s3) + N
      /\ \A i \in 1..Len(s3) : fp[i] = s3[i]
      /\ \A n \in 1..N : fp[Len(s3) + n] = E[n]
  <2>1. Joined(fp, s3, E, Words)
    BY <1>4, <1>7, Joining
  <2> HIDE DEF fp
  <2> QED BY <1>4, <2>1 DEF Joined
<1> HIDE DEF fp
<1>9. p \in Nat /\ q \in Nat /\ 2 < p /\ p < q /\ Len(s2) = q - 1 /\ Len(s3) = q - 1 + R
      /\ p =< 4 /\ Len(s2) \in Nat /\ Len(s3) \in Nat
  <2>1. Len(s2) = 1 + Len(x) + Len(y) /\ Len(s3) = Len(s2) + R
    BY <1>6, <1>7
  <2>2. Len(x) \in {1, 2} /\ Len(y) \in {1, 2} /\ R \in Nat
    BY <1>1, <1>2
  <2>3. p = 2 + Len(x) /\ q = p + Len(y)
    OBVIOUS
  <2> DEFINE i == Len(x)
             j == Len(y)
             k == Len(s2)
             m3 == Len(s3)
  <2> HIDE DEF p, q, i, j, k, m3, R
  <2>4. i \in Nat /\ j \in Nat /\ i >= 1 /\ i =< 2 /\ j >= 1 /\ p = 2 + i /\ q = p + j
        /\ k = 1 + i + j /\ m3 = k + R /\ R \in Nat
    <3>0. i \in {1, 2}
      BY <2>2 DEF i
    <3>1. i \in Nat /\ i >= 1 /\ i =< 2
      BY <3>0
    <3>2. Len(y) \in Nat /\ Len(y) >= 1
      BY <2>2
    <3>3. p = 2 + i
      BY <2>3 DEF i
    <3>4. q = p + j
      BY <2>3 DEF j
    <3>5. k = 1 + i + j
      BY <2>1 DEF i, j, k
    <3>6. m3 = k + R
      BY <2>1 DEF k, m3
    <3>7. R \in Nat
      BY <2>2
    <3> QED BY <3>1, <3>2, <3>3, <3>4, <3>5, <3>6, <3>7 DEF j
  <2>5. p \in Nat /\ q \in Nat /\ 2 < p /\ p < q /\ k = q - 1 /\ m3 = (q - 1) + R
        /\ p =< 4 /\ k \in Nat /\ m3 \in Nat
    BY <2>4
  <2> QED BY <2>5 DEF k, m3
<1> HIDE DEF p, q
<1>10. fp[1] = MAGIC_NUMBER
  <2>1. 1 \in 1..Len(s2) /\ 1 \in 1..Len(s3)
    BY <1>1, <1>9
  <2>2. fp[1] = s3[1] /\ s3[1] = s2[1]
    BY <1>7, <1>8, <2>1, Zenon
  <2> QED BY <1>6, <2>2
<1>11. NumberAt(fp, 2, t.table_size, p)
  <2>1. \A i \in 2..(p - 1) : fp[i] = s2[i]
    <3>1. ASSUME NEW i \in 2..(p - 1)
          PROVE  fp[i] = s2[i]
      <4>1. i \in 1..Len(s2) /\ i \in 1..Len(s3)
        BY <1>1, <1>9
      <4> QED BY <1>7, <1>8, <4>1
    <3> QED BY <3>1
  <2>2. 2 \in 2..(p - 1) /\ (p = 4 => 3 \in 2..(p - 1))
    BY <1>9
  <2> HIDE DEF p
  <2> QED BY <1>6, <2>1, <2>2 DEF NumberAt
<1>12. NumberAt(fp, p, N, q)
  <2>1. \A i \in p..(q - 1) : fp[i] = s3[i]
    <3>1. ASSUME NEW i \in p..(q - 1)
          PROVE  fp[i] = s3[i]
      <4>1. i \in 1..Len(s3)
        BY <1>1, <1>9
      <4> QED BY <1>8, <4>1
    <3> QED BY <3>1
  <2>2. p \in p..(q - 1) /\ (q = p + 2 => p + 1 \in p..(q - 1))
    BY <1>9
  <2> HIDE DEF p, q
  <2> QED BY <1>7, <2>1, <2>2 DEF NumberAt
<1>13. \A r \in 1..R : fp[q + r - 1] = t.groups[r].bitmap
  <2>1. ASSUME NEW r \in 1..R
        PROVE  fp[q + r - 1] = t.groups[r].bitmap
    <3>1. Len(s2) + r \in 1..Len(s3) /\ Len(s2) + r = q + r - 1
      BY <1>1, <1>9
    <3> HIDE DEF q
    <3> QED BY <1>3, <1>7, <1>8, <3>1
  <2> QED BY <2>1
<1>14. \A n \in 1..N : fp[q + R + n - 1] = E[n]
  <2>1. ASSUME NEW n \in 1..N
        PROVE  fp[q + R + n - 1] = E[n]
    <3>1. Len(s3) + n = q + R + n - 1
      BY <1>1, <1>9
    <3> HIDE DEF q
    <3> QED BY <1>8, <3>1
  <2> QED BY <2>1
<1>15. Len(fp) = q + R + N - 1
  <2> DEFINE l3 == Len(s3)
             l == Len(fp)
  <2>1. l = l3 + N /\ l3 = q - 1 + R /\ q \in Nat /\ R \in Nat /\ N \in Nat
    BY <1>1, <1>8, <1>9
  <2> HIDE DEF l3, l, R, N
  <2>2. l = q + R + N - 1
    BY <2>1
  <2> QED BY <2>2 DEF l
<1>16. Layout(fp, t, p, q)
  BY <1>9, <1>10, <1>11, <1>12, <1>13, <1>14, <1>15 DEF Layout, E
<1> QED BY <1>5, <1>8, <1>9, <1>16

\* The words of a stream up to some length, which may be all of it.
Prefix(fp, D) == fp \in Seq(Words) /\ \A i \in 1..Len(fp) : fp[i] = D[i]

LEMMA ReadsNumber ==
  ASSUME NEW D, NEW fp, Prefix(fp, D), NEW at \in Nat, 1 =< at, NEW v \in Nat,
         NEW next, NumberAt(D, at, v, next)
  PROVE  LET m == read_32_or_64(fp, at)
         IN  /\ m.ok \in BOOLEAN
             /\ m.ok <=> next - 1 =< Len(fp)
             /\ m.ok => m.value = v /\ m.at = next
<1>1. FIRST4 \in Nat
  BY StreamAssumption
<1>2. Len(fp) \in Nat /\ \A i \in 1..Len(fp) : fp[i] = D[i]
  BY DEF Prefix
<1>3. CASE at > Len(fp)
  <2>1. next - 1 > Len(fp)
    BY <1>2, <1>3 DEF NumberAt
  <2>2. next \in Nat
    BY DEF NumberAt
  <2> QED BY <1>2, <1>3, <2>1, <2>2 DEF read_32_or_64
<1>4. CASE ~(at > Len(fp))
  <2>1. fp[at] = D[at]
    BY <1>2, <1>4
  <2>2. CASE v < FIRST4
    BY <1>1, <1>2, <1>4, <2>1, <2>2 DEF NumberAt, read_32_or_64
  <2>3. CASE ~(v < FIRST4)
    <3>1. D[at] = FIRST4 /\ D[at + 1] = v /\ next = at + 2
      BY <2>3 DEF NumberAt
    <3>2. ~(FIRST4 < FIRST4)
      BY <1>1
    <3>3. CASE at = Len(fp)
      BY <1>2, <1>4, <2>1, <3>1, <3>2, <3>3 DEF read_32_or_64
    <3>4. CASE at # Len(fp)
      <4>1. at + 1 \in 1..Len(fp)
        BY <1>2, <1>4, <3>4
      <4>2. fp[at + 1] = v
        BY <1>2, <3>1, <4>1
      <4> QED BY <1>2, <1>4, <2>1, <3>1, <3>2, <3>4, <4>2 DEF read_32_or_64
    <3> QED BY <3>3, <3>4
  <2> QED BY <2>2, <2>3
<1> QED BY <1>3, <1>4

\* A table whose groups have been read, but none of its values.
Bare(t) ==
  [t EXCEPT !.groups = [r \in 1..Len(t.groups) |->
                          read_group_metadata(t.groups[r].bitmap, Raw)]]

\* What reading the counts and the bitmaps gives.
MetaIs(meta, fp, t, q) ==
  /\ meta.ok \in BOOLEAN
  /\ meta.ok <=> q + Len(t.groups) - 1 =< Len(fp)
  /\ meta.ok => meta.at = q + Len(t.groups) /\ meta.table = Bare(t)

LEMMA MetadataRead ==
  ASSUME NEW t, Sound(t), NEW D, NEW p \in Nat, NEW q \in Nat, Layout(D, t, p, q),
         NEW fp, Prefix(fp, D)
  PROVE  MetaIs(read_metadata(fp, Raw), fp, t, q)
<1> DEFINE R == Len(t.groups)
           n == Len(fp)
           magic == read_32_or_64(fp, 1)
           sz == read_32_or_64(fp, magic.at)
           cnt == read_32_or_64(fp, sz.at)
           none == NewTable(0)
           sized == [resize_table(none, sz.value) EXCEPT !.num_buckets = cnt.value]
           rows  == Len(sized.groups)
           here  == IF n - cnt.at + 1 < rows THEN n - cnt.at + 1 ELSE rows
           read  == [sized EXCEPT !.groups = [r \in DOMAIN @ |->
                       IF r =< here
                       THEN read_group_metadata(fp[cnt.at + r - 1], Raw)
                       ELSE @[r]]]
           meta == read_metadata(fp, Raw)
<1>1. /\ t \in TableType /\ R \in Nat /\ t.table_size \in Nat /\ t.num_buckets \in Nat
      /\ R = num_groups(t.table_size) /\ n \in Nat
  BY DEF Sound, Shaped, TableType, Prefix
<1>2. meta = IF ~magic.ok \/ magic.value # MAGIC_NUMBER
             THEN [ok |-> FALSE, table |-> none, at |-> 0]
             ELSE IF ~sz.ok
             THEN [ok |-> FALSE, table |-> none, at |-> 0]
             ELSE IF ~cnt.ok
             THEN [ok |-> FALSE, table |-> [none EXCEPT !.table_size = sz.value], at |-> 0]
             ELSE [ok |-> here = rows, table |-> read, at |-> cnt.at + rows]
  BY DEF read_metadata
<1>3. 2 < p /\ p < q
  BY DEF Layout
<1> SUFFICES MetaIs(meta, fp, t, q)
  OBVIOUS
<1> HIDE DEF meta
<1>4. /\ magic.ok \in BOOLEAN
      /\ magic.ok <=> 1 =< n
      /\ magic.ok => magic.value = MAGIC_NUMBER /\ magic.at = 2
  <2>1. NumberAt(D, 1, MAGIC_NUMBER, 2) /\ MAGIC_NUMBER \in Nat
    BY StreamAssumption DEF NumberAt, Layout
  <2> QED BY <1>1, <2>1, ReadsNumber
<1>0. ~meta.ok /\ meta.ok \in BOOLEAN /\ ~(q + R - 1 =< n) => MetaIs(meta, fp, t, q)
  BY DEF MetaIs
<1>5. CASE ~magic.ok
  <2>1. ~(1 =< n)
    BY <1>4, <1>5
  <2>2. ~meta.ok /\ meta.ok \in BOOLEAN
    BY <1>2, <1>5
  <2> HIDE DEF magic, n, R
  <2>3. ~(q + R - 1 =< n)
    BY <1>1, <1>3, <2>1
  <2> QED BY <1>0, <2>2, <2>3
<1>6. CASE magic.ok
  <2>1. /\ sz.ok \in BOOLEAN
        /\ sz.ok <=> p - 1 =< n
        /\ sz.ok => sz.value = t.table_size /\ sz.at = p
    <3>1. magic.at = 2 /\ NumberAt(D, 2, t.table_size, p)
      BY <1>4, <1>6 DEF Layout
    <3> HIDE DEF magic
    <3> QED BY <1>1, <3>1, ReadsNumber
  <2> HIDE DEF magic
  <2>2. CASE ~sz.ok
    <3>1. ~(p - 1 =< n)
      BY <2>1, <2>2
    <3>2. ~meta.ok /\ meta.ok \in BOOLEAN
      BY <1>2, <1>4, <1>6, <2>2
    <3> HIDE DEF magic, n, R
    <3>3. ~(q + R - 1 =< n)
      BY <1>1, <1>3, <3>1
    <3> QED BY <1>0, <3>2, <3>3
  <2>3. CASE sz.ok
    <3>1. /\ cnt.ok \in BOOLEAN
          /\ cnt.ok <=> q - 1 =< n
          /\ cnt.ok => cnt.value = t.num_buckets /\ cnt.at = q
      <4>1. sz.at = p /\ NumberAt(D, p, t.num_buckets, q) /\ 1 =< p
        BY <1>3, <2>1, <2>3 DEF Layout
      <4> HIDE DEF sz
      <4> QED BY <1>1, <4>1, ReadsNumber
    <3>2. CASE ~cnt.ok
      <4> HIDE DEF sz, cnt, none
      <4>1. ~(q - 1 =< n)
        BY <3>1, <3>2
      <4>2. ~meta.ok /\ meta.ok \in BOOLEAN
        BY <1>2, <1>4, <1>6, <2>3, <3>2
      <4> HIDE DEF magic, n, R
      <4>3. ~(q + R - 1 =< n)
        BY <1>1, <1>3, <4>1
      <4> QED BY <1>0, <4>2, <4>3
    <3>3. CASE cnt.ok
      <4>1. cnt.at = q /\ cnt.value = t.num_buckets /\ sz.value = t.table_size
        BY <2>1, <2>3, <3>1, <3>3
      <4> HIDE DEF sz, cnt
      <4>2. resize_table(none, sz.value) = NewTable(t.table_size)
        <5>1. num_groups(0) = 0
          BY DEF num_groups
        <5>2. none = [groups |-> [r \in {} |-> NewGroup], table_size |-> 0, num_buckets |-> 0]
          BY <5>1 DEF NewTable
        <5> HIDE DEF none
        <5>3. resize_table(none, sz.value)
                = [groups |-> [r \in 1..num_groups(t.table_size) |->
                                 IF r \in DOMAIN none.groups THEN none.groups[r] ELSE NewGroup],
                   table_size |-> t.table_size, num_buckets |-> 0]
          <6> DEFINE gs == [r \in 1..num_groups(t.table_size) |->
                              IF r \in DOMAIN none.groups THEN none.groups[r] ELSE NewGroup]
          <6>1. resize_table(none, sz.value)
                  = [none EXCEPT !.table_size = t.table_size, !.groups = gs]
            BY <4>1 DEF resize_table
          <6> HIDE DEF gs
          <6>2. resize_table(none, sz.value)
                  = [groups |-> gs, table_size |-> t.table_size, num_buckets |-> 0]
            BY <5>2, <6>1
          <6> QED BY <6>2 DEF gs
        <5>4. DOMAIN none.groups = {}
          BY <5>2
        <5> QED BY <5>3, <5>4 DEF NewTable
      <4>3. sized = [groups |-> [r \in 1..R |-> NewGroup], table_size |-> t.table_size,
                     num_buckets |-> t.num_buckets]
        <5> DEFINE nt == NewTable(t.table_size)
        <5>1. nt = [groups |-> [r \in 1..R |-> NewGroup], table_size |-> t.table_size,
                    num_buckets |-> 0]
          BY <1>1 DEF NewTable
        <5>2. sized = [nt EXCEPT !.num_buckets = t.num_buckets]
          BY <4>1, <4>2
        <5> HIDE DEF nt, R, sized
        <5> QED BY <5>1, <5>2
      <4> HIDE DEF sized
      <4>4. rows = R
        BY <1>1, <4>3
      <4> HIDE DEF rows
      <4>5. (here = rows) <=> q + R - 1 =< n
        <5> HIDE DEF R, n
        <5> QED BY <1>1, <4>1, <4>4
      <4>6. meta = [ok |-> here = rows, table |-> read, at |-> cnt.at + rows]
        BY <1>2, <1>4, <1>6, <2>3, <3>3
      <4>7. ASSUME here = rows
            PROVE  read = Bare(t)
        <5>1. ASSUME NEW r \in 1..R
              PROVE  fp[q + r - 1] = t.groups[r].bitmap
          <6>1. q + R - 1 =< n
            BY <4>5, <4>7
          <6>2. q + r - 1 \in 1..n
            <7> HIDE DEF R, n
            <7> QED BY <1>1, <6>1, <1>3
          <6> QED BY <6>2 DEF Prefix, Layout
        <5>2. t = [groups |-> t.groups, table_size |-> t.table_size,
                   num_buckets |-> t.num_buckets]
          BY <1>1 DEF TableType
        <5>3. read = [groups |-> [r \in 1..R |-> read_group_metadata(fp[q + r - 1], Raw)],
                      table_size |-> t.table_size, num_buckets |-> t.num_buckets]
          <6>1. here = R
            BY <4>4, <4>7
          <6> HIDE DEF here, R
          <6>2. \A r \in 1..R : r =< here
            BY <1>1, <6>1
          <6>3. DOMAIN sized.groups = 1..R
            BY <4>3
          <6>4. read = [groups |-> [r \in 1..R |->
                           IF r =< here THEN read_group_metadata(fp[cnt.at + r - 1], Raw)
                           ELSE sized.groups[r]],
                        table_size |-> t.table_size, num_buckets |-> t.num_buckets]
            <7> DEFINE gs == [r \in DOMAIN sized.groups |->
                           IF r =< here THEN read_group_metadata(fp[cnt.at + r - 1], Raw)
                           ELSE sized.groups[r]]
            <7>1. read = [sized EXCEPT !.groups = gs]
              BY DEF read
            <7> HIDE DEF gs, read
            <7>2. read = [groups |-> gs, table_size |-> t.table_size,
                          num_buckets |-> t.num_buckets]
              BY <4>3, <7>1
            <7> QED BY <6>3, <7>2 DEF gs
          <6> QED BY <4>1, <6>2, <6>4
        <5>4. Bare(t) = [groups |-> [r \in 1..R |-> read_group_metadata(t.groups[r].bitmap, Raw)],
                         table_size |-> t.table_size, num_buckets |-> t.num_buckets]
          BY <5>2 DEF Bare
        <5> HIDE DEF read, R
        <5> QED BY <5>1, <5>3, <5>4
      <4> HIDE DEF here, read, R
      <4>8. meta.ok = (here = rows) /\ meta.ok \in BOOLEAN
        BY <4>6
      <4>9. meta.ok <=> q + R - 1 =< n
        BY <4>5, <4>8
      <4>10. meta.ok => meta.at = q + R /\ meta.table = Bare(t)
        BY <4>1, <4>4, <4>6, <4>7, <4>8
      <4> QED BY <4>8, <4>9, <4>10 DEF MetaIs, R
    <3> QED BY <3>1, <3>2, <3>3
  <2> QED BY <2>1, <2>2, <2>3
<1> QED BY <1>4, <1>5, <1>6

\* A walk meets every place once.
LEMMA WalkOnce ==
  ASSUME NEW t, Shaped(t), NEW n \in 1..t.num_buckets, NEW r \in Nat, NEW c \in Nat,
         Walk(t)[n] = [row |-> r, col |-> c - 1]
  PROVE  n = Before(t, r - 1) + c
<1>1. PICK b \in Full(t) : Rank(t, b) + 1 = n
  BY WalkOnto
<1> DEFINE s == group_num(b) + 1
           d == pos_to_offset(which_group(t, b).bitmap, pos_in_group(b)) + 1
<1>2. s \in 1..Len(t.groups) /\ d \in 1..t.groups[s].num_buckets
      /\ n = Before(t, s - 1) + d
      /\ Walk(t)[n] = [row |-> s, col |-> d - 1]
  BY <1>1, WalkBuckets
<1> HIDE DEF s, d
<1>3. [row |-> s, col |-> d - 1] = [row |-> r, col |-> c - 1]
  BY <1>2
<1>4. s = [row |-> s, col |-> d - 1].row /\ d - 1 = [row |-> s, col |-> d - 1].col
  OBVIOUS
<1>5. s = r /\ d - 1 = c - 1
  BY <1>3, <1>4
<1>6. d \in Nat
  BY <1>2
<1>7. d = c
  BY <1>5, <1>6
<1> QED BY <1>2, <1>5, <1>7

LEMMA BareIs ==
  ASSUME NEW t, Shaped(t), Marks(t) = {}
  PROVE  /\ Walk(Bare(t)) = Walk(t)
         /\ DOMAIN Bare(t).groups = 1..Len(t.groups)
         /\ \A r \in 1..Len(t.groups) :
              /\ DOMAIN Bare(t).groups[r].group = 1..t.groups[r].num_buckets
              /\ [Bare(t).groups[r] EXCEPT !.group = t.groups[r].group] = t.groups[r]
<1> DEFINE R == Len(t.groups)
           bg == [r \in 1..R |-> read_group_metadata(t.groups[r].bitmap, Raw)]
           u == Bare(t)
<1>1. t = [groups |-> t.groups, table_size |-> t.table_size, num_buckets |-> t.num_buckets]
      /\ t.groups \in Seq(GroupType) /\ R \in Nat
  BY DEF Shaped, TableType
<1>2. u.groups = bg
  <2> HIDE DEF bg
  <2>1. u = [t EXCEPT !.groups = bg]
    BY DEF Bare, bg
  <2> HIDE DEF u
  <2> QED BY <1>1, <2>1
<1> HIDE DEF u
<1>3. ASSUME NEW r \in 1..R
      PROVE  /\ bg[r].num_buckets = t.groups[r].num_buckets
             /\ DOMAIN bg[r].group = 1..t.groups[r].num_buckets
             /\ [bg[r] EXCEPT !.group = t.groups[r].group] = t.groups[r]
  <2> DEFINE g == t.groups[r]
             e == bg[r]
  <2>1. Packed(g) /\ g.bitmap \in SUBSET Buckets
    BY PackedFacts DEF Shaped
  <2>2. Packed(e) /\ e.bitmap = g.bitmap /\ e.bm_erased = {}
    BY <2>1, ReadPacks
  <2>3. g.bm_erased = {}
    <3>1. ASSUME NEW i \in g.bm_erased
          PROVE  FALSE
      <4> DEFINE b == (r - 1) * GROUP_SIZE + i
      <4>1. i \in g.bitmap \cup g.bm_erased
        OBVIOUS
      <4>2. b \in Probes(t) /\ which_group(t, b) = g /\ pos_in_group(b) = i
        BY <4>1, BucketOfGroup
      <4> HIDE DEF b, g
      <4>3. b \in Marks(t)
        BY <4>2, BucketFacts
      <4> QED BY <4>3
    <3> QED BY <3>1
  <2> HIDE DEF g, e
  <2>4. /\ e \in GroupType /\ g \in GroupType
        /\ e.num_buckets = g.num_buckets /\ e.capacity = g.capacity
        /\ e.num_allocated = g.num_allocated /\ Len(e.group) = g.num_buckets
    BY <2>1, <2>2 DEF Packed
  <2>5. DOMAIN e.group = 1..g.num_buckets
    BY <2>4 DEF GroupType
  <2>6. [e EXCEPT !.group = g.group] = g
    <3>1. g = [group |-> g.group, bitmap |-> g.bitmap, bm_erased |-> g.bm_erased,
               num_buckets |-> g.num_buckets, num_allocated |-> g.num_allocated,
               capacity |-> g.capacity]
      BY <2>4 DEF GroupType
    <3>2. e = [group |-> e.group, bitmap |-> e.bitmap, bm_erased |-> e.bm_erased,
               num_buckets |-> e.num_buckets, num_allocated |-> e.num_allocated,
               capacity |-> e.capacity]
      BY <2>4 DEF GroupType
    <3>3. [e EXCEPT !.group = g.group]
            = [group |-> g.group, bitmap |-> e.bitmap, bm_erased |-> e.bm_erased,
               num_buckets |-> e.num_buckets, num_allocated |-> e.num_allocated,
               capacity |-> e.capacity]
      BY <3>2
    <3> QED BY <2>2, <2>3, <2>4, <3>1, <3>3
  <2> QED BY <2>4, <2>5, <2>6 DEF g, e
<1> HIDE DEF bg
<1>4. DOMAIN u.groups = 1..R
  BY <1>2 DEF bg
<1>5. Walk(u) = Walk(t)
  <2>1. DOMAIN t.groups = 1..R
    BY <1>1
  <2>2. [r \in 1..R |-> [c \in 1..bg[r].num_buckets |-> [row |-> r, col |-> c - 1]]]
          = [r \in 1..R |-> [c \in 1..t.groups[r].num_buckets |-> [row |-> r, col |-> c - 1]]]
    BY <1>3
  <2> QED BY <1>2, <1>4, <2>1, <2>2 DEF Walk
<1> QED BY <1>2, <1>3, <1>4, <1>5 DEF u

\* A stream that is read to its end gives the table that was written, a shorter
\* one is refused.
LEMMA StreamRead ==
  ASSUME NEW t, Sound(t), Marks(t) = {}, NEW D, NEW p \in Nat, NEW q \in Nat,
         Layout(D, t, p, q), NEW fp, Prefix(fp, D)
  PROVE  /\ unserialize(fp, Raw).ok \in BOOLEAN
         /\ unserialize(fp, Raw).ok <=> Len(D) =< Len(fp)
         /\ unserialize(fp, Raw).ok => unserialize(fp, Raw).table = t
<1> DEFINE R == Len(t.groups)
           N == t.num_buckets
           n == Len(fp)
           meta == read_metadata(fp, Raw)
           w == Walk(meta.table)
           word(r, c) == meta.at + (CHOOSE k \in DOMAIN w : w[k] = [row |-> r, col |-> c - 1]) - 1
           filled(r) == [c \in DOMAIN meta.table.groups[r].group |->
                           IF word(r, c) =< Len(fp) THEN fp[word(r, c)] ELSE Raw]
           read == [meta.table EXCEPT !.groups =
                      [r \in DOMAIN @ |-> [@[r] EXCEPT !.group = filled(r)]]]
           un == unserialize(fp, Raw)
<1>1. /\ Shaped(t) /\ R \in Nat /\ N \in Nat /\ n \in Nat
      /\ t = [groups |-> t.groups, table_size |-> t.table_size, num_buckets |-> N]
      /\ t.groups \in Seq(GroupType)
  BY DEF Sound, Shaped, TableType, Prefix
<1>2. un = IF ~meta.ok THEN [ok |-> FALSE, table |-> meta.table]
           ELSE [ok |-> meta.at + Len(w) - 1 =< n, table |-> read]
  BY DEF unserialize
<1>3. /\ meta.ok \in BOOLEAN
      /\ meta.ok <=> q + R - 1 =< n
      /\ meta.ok => meta.at = q + R /\ meta.table = Bare(t)
  <2>1. MetaIs(meta, fp, t, q)
    BY MetadataRead
  <2> HIDE DEF meta
  <2> QED BY <2>1 DEF MetaIs
<1>4. Len(D) = q + R + N - 1 /\ \A i \in 1..N : D[q + R + i - 1] = Elements(t)[i]
  BY DEF Layout
<1> SUFFICES /\ un.ok \in BOOLEAN
             /\ un.ok <=> Len(D) =< n
             /\ un.ok => un.table = t
  OBVIOUS
<1> HIDE DEF un, meta
<1>5. CASE ~meta.ok
  <2>1. ~un.ok /\ un.ok \in BOOLEAN
    BY <1>2, <1>5
  <2>2. ~(q + R - 1 =< n)
    BY <1>3, <1>5
  <2> HIDE DEF R, N, n
  <2> QED BY <1>1, <1>4, <2>1, <2>2
<1>6. CASE meta.ok
  <2>1. w = Walk(t) /\ Len(w) = N /\ DOMAIN w = 1..N
    <3>1. w = Walk(t)
      BY <1>1, <1>3, <1>6, BareIs
    <3>2. Walk(t) \in Seq(Iterators) /\ Len(Walk(t)) = N
      BY <1>1, WalkAt
    <3> HIDE DEF w
    <3> QED BY <3>1, <3>2
  <2> HIDE DEF w
  <2>2. un = [ok |-> q + R + N - 1 =< n, table |-> read]
    <3>1. meta.at + Len(w) - 1 = q + R + N - 1
      BY <1>3, <1>6, <2>1
    <3> HIDE DEF read, n, R, N
    <3> QED BY <1>2, <1>6, <3>1
  <2>3. un.ok \in BOOLEAN /\ (un.ok <=> Len(D) =< n) /\ un.table = read
    <3>1. un.ok = (q + R + N - 1 =< n) /\ un.table = read
      BY <2>2
    <3>2. (q + R + N - 1 =< n) \in BOOLEAN
      OBVIOUS
    <3>3. un.ok \in BOOLEAN
      BY <3>1, <3>2, Zenon
    <3> HIDE DEF read, R, N, n
    <3> QED BY <1>4, <3>1, <3>3
  <2>4. ASSUME Len(D) =< n
        PROVE  read = t
    <3>1. ASSUME NEW r \in 1..R, NEW c \in 1..t.groups[r].num_buckets
          PROVE  word(r, c) =< n /\ fp[word(r, c)] = t.groups[r].group[c]
      <4> DEFINE k == Before(t, r - 1) + c
      <4>1. /\ k \in 1..N /\ Walk(t)[k] = [row |-> r, col |-> c - 1]
            /\ destructive_elements(t)[k] = t.groups[r].group[c]
        BY <1>1, WalkAt
      <4> HIDE DEF k
      <4>2. \A j \in DOMAIN w : w[j] = [row |-> r, col |-> c - 1] => j = k
        <5>1. ASSUME NEW j \in DOMAIN w, w[j] = [row |-> r, col |-> c - 1]
              PROVE  j = k
          <6>1. r \in Nat /\ c \in Nat /\ j \in 1..N /\ Walk(t)[j] = [row |-> r, col |-> c - 1]
            <7>1. t.groups[r].num_buckets \in Nat
              <8>1. t.groups[r] \in GroupType
                BY <1>1
              <8> QED BY <8>1 DEF GroupType
            <7> QED BY <1>1, <2>1, <5>1, <7>1
          <6> QED BY <1>1, <6>1, WalkOnce DEF k
        <5> QED BY <5>1
      <4>3. (CHOOSE j \in DOMAIN w : w[j] = [row |-> r, col |-> c - 1]) = k
        <5>1. k \in DOMAIN w /\ w[k] = [row |-> r, col |-> c - 1]
          BY <2>1, <4>1
        <5> QED BY <4>2, <5>1
      <4>4. word(r, c) = q + R + k - 1
        BY <1>3, <1>6, <4>3
      <4>5. q + R + k - 1 =< n /\ q + R + k - 1 \in 1..n
        <5>1. q >= 1 /\ q \in Nat
          BY DEF Layout
        <5> HIDE DEF R, N, n
        <5> QED BY <1>1, <1>4, <2>4, <4>1, <5>1
      <4>6. fp[q + R + k - 1] = D[q + R + k - 1]
        BY <4>5 DEF Prefix
      <4>7. D[q + R + k - 1] = Elements(t)[k]
        BY <1>4, <4>1
      <4>8. Elements(t) = destructive_elements(t)
        BY <1>1, ElementsAre
      <4> HIDE DEF word
      <4> QED BY <4>1, <4>4, <4>5, <4>6, <4>7, <4>8
    <3> HIDE DEF word
    <3>2. ASSUME NEW r \in 1..R
          PROVE  filled(r) = t.groups[r].group
      <4>1. DOMAIN Bare(t).groups[r].group = 1..t.groups[r].num_buckets
        BY <1>1, BareIs
      <4>2. t.groups[r].group \in Seq(Value) /\ Len(t.groups[r].group) = t.groups[r].num_buckets
        BY <1>1, PackedFacts DEF Shaped
      <4> DEFINE s == t.groups[r].group
                 f == filled(r)
                 k == t.groups[r].num_buckets
      <4>3. f = [c \in 1..k |-> s[c]]
        BY <1>3, <1>6, <3>1, <4>1
      <4>4. s \in Seq(Value) /\ Len(s) = k
        BY <4>2
      <4> HIDE DEF s, f, k
      <4>5. s = [c \in 1..Len(s) |-> s[c]]
        BY <4>4
      <4>6. f = s
        BY <4>3, <4>4, <4>5
      <4> QED BY <4>6 DEF f, s
    <3> HIDE DEF filled
    <3> DEFINE v == Bare(t)
               gs == [r \in DOMAIN v.groups |-> [v.groups[r] EXCEPT !.group = filled(r)]]
    <3>3. DOMAIN v.groups = 1..R
          /\ \A r \in 1..R : [v.groups[r] EXCEPT !.group = t.groups[r].group] = t.groups[r]
      BY <1>1, BareIs
    <3>4. read = [v EXCEPT !.groups = gs]
      BY <1>3, <1>6
    <3>5. v = [t EXCEPT !.groups = [r \in 1..R |-> read_group_metadata(t.groups[r].bitmap, Raw)]]
      BY DEF Bare
    <3>6. gs = [r \in 1..R |-> t.groups[r]]
      BY <3>2, <3>3
    <3> HIDE DEF read, gs, v
    <3>7. read = [t EXCEPT !.groups = gs]
      <4> DEFINE bg == [r \in 1..R |-> read_group_metadata(t.groups[r].bitmap, Raw)]
      <4>1. v = [t EXCEPT !.groups = bg]
        BY <3>5
      <4> HIDE DEF bg
      <4> QED BY <1>1, <3>4, <4>1
    <3>8. gs = t.groups
      BY <1>1, <3>6
    <3> QED BY <1>1, <3>7, <3>8
  <2> QED BY <2>3, <2>4
<1> QED BY <1>3, <1>5, <1>6

\* A stream in full gives back the table; one that ends early, or that begins
\* with another number, is refused.
GivesBack(D, t) ==
  /\ D # <<>>
  /\ unserialize(D, Raw).ok = TRUE /\ unserialize(D, Raw).table = t
  /\ \A n \in 0..(Len(D) - 1) : unserialize(SubSeq(D, 1, n), Raw).ok = FALSE
  /\ unserialize(<<MAGIC_NUMBER + 1>> \o Tail(D), Raw).ok = FALSE

LEMMA StreamsTold ==
  ASSUME NEW t, Sound(t), Marks(t) = {}, NEW D, D = serialize(t)
  PROVE  GivesBack(D, t)
<1>1. D \in Seq(Words) /\ \E p, q \in Nat : Layout(D, t, p, q)
  BY SerializeLays
<1>2. PICK p, q \in Nat : Layout(D, t, p, q)
  BY <1>1
<1>3. Len(D) \in Nat
  BY <1>1
<1>4. Len(D) >= 1 /\ D # <<>>
  <2>1. /\ Len(D) = q + Len(t.groups) + t.num_buckets - 1 /\ q > 2
        /\ Len(t.groups) \in Nat /\ t.num_buckets \in Nat
    <3>1. Len(t.groups) \in Nat /\ t.num_buckets \in Nat
      BY DEF Sound, Shaped, TableType
    <3>2. Len(D) = q + Len(t.groups) + t.num_buckets - 1 /\ 2 < p /\ p < q
      BY <1>2 DEF Layout
    <3>3. q > 2
      BY <3>2
    <3> QED BY <3>1, <3>2, <3>3
  <2>2. Len(D) >= 1
    BY <2>1
  <2> QED BY <2>2
<1>5. unserialize(D, Raw).ok = TRUE /\ unserialize(D, Raw).table = t
  <2>1. Prefix(D, D)
    BY <1>1 DEF Prefix
  <2>2. /\ unserialize(D, Raw).ok \in BOOLEAN
        /\ unserialize(D, Raw).ok <=> Len(D) =< Len(D)
        /\ unserialize(D, Raw).ok => unserialize(D, Raw).table = t
    BY <1>2, <2>1, StreamRead
  <2>3. Len(D) =< Len(D)
    BY <1>3
  <2> QED BY <2>2, <2>3, Zenon
<1>6. ASSUME NEW n \in 0..(Len(D) - 1)
      PROVE  unserialize(SubSeq(D, 1, n), Raw).ok = FALSE
  <2> DEFINE fp == SubSeq(D, 1, n)
  <2>1. fp \in Seq(Words) /\ Len(fp) = n /\ \A i \in 1..n : fp[i] = D[i]
    BY <1>1, <1>3
  <2> HIDE DEF fp
  <2>2. Prefix(fp, D)
    BY <2>1 DEF Prefix
  <2>3. /\ unserialize(fp, Raw).ok \in BOOLEAN
        /\ unserialize(fp, Raw).ok <=> Len(D) =< Len(fp)
    BY <1>2, <2>2, StreamRead
  <2>4. ~(Len(D) =< Len(fp))
    BY <1>3, <2>1
  <2>5. unserialize(fp, Raw).ok = FALSE
    BY <2>3, <2>4, Zenon
  <2> QED BY <2>5 DEF fp
<1>7. unserialize(<<MAGIC_NUMBER + 1>> \o Tail(D), Raw).ok = FALSE
  <2> DEFINE a == <<MAGIC_NUMBER + 1>>
             fp == a \o Tail(D)
             magic == read_32_or_64(fp, 1)
  <2>1. MAGIC_NUMBER \in Nat /\ FIRST4 \in Nat /\ MAGIC_NUMBER + 1 < FIRST4
    BY StreamAssumption
  <2>2. a \in Seq(Words) /\ Len(a) = 1 /\ a[1] = MAGIC_NUMBER + 1
    BY <2>1 DEF Words
  <2>3. Tail(D) \in Seq(Words)
    BY <1>1, <1>4
  <2> HIDE DEF a
  <2>4. Joined(fp, a, Tail(D), Words)
    BY <2>2, <2>3, Joining
  <2> HIDE DEF fp
  <2>5. Len(fp) >= 1 /\ fp[1] = MAGIC_NUMBER + 1
    <3>1. Len(Tail(D)) \in Nat
      BY <2>3
    <3> QED BY <2>2, <2>4, <3>1 DEF Joined
  <2>6. ~(1 > Len(fp)) /\ fp \in Seq(Words) /\ Len(fp) \in Nat
    BY <2>4, <2>5 DEF Joined
  <2>7. magic.value = MAGIC_NUMBER + 1
    BY <2>1, <2>5, <2>6 DEF read_32_or_64
  <2> HIDE DEF magic
  <2>8. magic.value # MAGIC_NUMBER
    BY <2>1, <2>7
  <2>9. read_metadata(fp, Raw).ok = FALSE
    BY <2>8 DEF read_metadata, magic
  <2>10. unserialize(fp, Raw).ok = FALSE
    BY <2>9 DEF unserialize
  <2> QED BY <2>10 DEF fp, a
<1> QED BY <1>4, <1>5, <1>6, <1>7 DEF GivesBack

\* Whatever was read, the fields and the settings are what they should be.
LEMMA UnserializeKeeps ==
  ASSUME NEW h, Fields(h), Knobs(h.settings), NEW fp
  PROVE  LET g == unserialize_into(h, fp, Raw)
         IN  Fields(g) /\ Knobs(g.settings)
<1> DEFINE table == unserialize(fp, Raw).table
           s == reset_thresholds(h.settings, table.table_size)
           g == unserialize_into(h, fp, Raw)
<1>1. Knobs(s)
  BY ResetKnobs
<1>2. g = [settings |-> s, num_deleted |-> 0, table |-> table]
  BY DEF unserialize_into
<1> HIDE DEF table, s, g
<1>3. g.settings = s /\ Fields(g)
  BY <1>2 DEF Fields
<1> QED BY <1>1, <1>3 DEF g

\* What was read whole is a good hash table over the table that was written.
LEMMA UnserializeIsGood ==
  ASSUME NEW h, Fields(h), Knobs(h.settings), NEW t, Sound(t), Roomy(t), Marks(t) = {},
         NEW fp, unserialize(fp, Raw).table = t
  PROVE  Good(unserialize_into(h, fp, Raw)) /\ unserialize_into(h, fp, Raw).table = t
         /\ unserialize_into(h, fp, Raw).num_deleted = 0
<1> DEFINE s == reset_thresholds(h.settings, t.table_size)
           g == unserialize_into(h, fp, Raw)
<1>1. Knobs(s) /\ s.enlarge_threshold = enlarge_size(s, t.table_size)
  BY ResetKnobs
<1>2. g = [settings |-> s, num_deleted |-> 0, table |-> t]
  BY DEF unserialize_into
<1>3. Cardinality(Marks(t)) = 0
  BY FS_EmptySet
<1> HIDE DEF s, g
<1>4. g.settings = s /\ g.num_deleted = 0 /\ g.table = t /\ Fields(g)
  BY <1>2 DEF Fields
<1>5. Good(g)
  BY <1>1, <1>3, <1>4 DEF Good, bucket_count
<1> QED BY <1>4, <1>5 DEF g

-----------------------------------------------------------------------------
(* The sets                                                                *)

\* A number of keys that bounds what a call brings, and that the largest
\* table has room for as often as there are calls.
Measure(n) ==
  /\ n \in Nat /\ 1 =< n /\ Room((MaxOps + 1) * n)
  /\ \A keys \in Ranges \cup FirstRanges : Len(keys) =< n
  /\ \A m \in Expected \cup Requests : m =< n

\* The hash table holds the keys, and no more of its buckets than room are
\* full or erased.
Holds(h, keys, room) ==
  Good(h) /\ keys = Keys(h.table) /\ size(h) + h.num_deleted =< room

\* What the stream is of: nothing, or a table without erased buckets.
Streamed(stream, keys, room) ==
  \/ stream = <<>> /\ keys = {}
  \/ \E t : /\ Sound(t) /\ Roomy(t) /\ Marks(t) = {} /\ t.num_buckets =< room
            /\ stream = serialize(t) /\ keys = {Keys(t)}

SetsInv(n) ==
  /\ ops \in 0..MaxOps /\ ok \in [Set -> BOOLEAN]
  /\ ht = [s \in Set |-> ht[s]] /\ contents = [s \in Set |-> contents[s]]
  /\ \A s \in Set \ spoilt : Fields(ht[s]) /\ Knobs(ht[s].settings)
  /\ \A s \in Set \ spoilt : ok[s] => Holds(ht[s], contents[s], (ops + 1) * n)
  /\ Streamed(disk, stored, (ops + 1) * n)

LEMMA MeasureExists == \E n : Measure(n)
<1>1. PICK n \in 1..Largest :
        /\ \A keys \in Ranges \cup FirstRanges : Len(keys) =< n
        /\ \A m \in Expected \cup Requests : m =< n
        /\ \A grow \in Factors : (MaxOps + 1) * n < (Largest * grow) \div 100
  BY RoomAssumption DEF Largest, Factors
<1>2. n \in Nat /\ 1 =< n /\ MaxOps \in Nat
  BY LargestIs, SetAssumption
<1>3. (MaxOps + 1) * n \in Nat
  BY <1>2
<1> QED BY <1>1, <1>2, <1>3 DEF Measure, Room

\* The room that is left while there are calls to come.
LEMMA RoomLeft ==
  ASSUME NEW n, Measure(n), NEW k \in Nat, k < MaxOps
  PROVE  /\ n \in Nat /\ (k + 1) * n \in Nat /\ (k + 2) * n = (k + 1) * n + n
         /\ \A a \in Nat : a =< (k + 2) * n => Room(a)
<1>1. MaxOps \in Nat /\ n \in Nat /\ Room((MaxOps + 1) * n)
  BY SetAssumption DEF Measure
<1>2. (k + 1) * n \in Nat /\ (k + 2) * n \in Nat /\ (k + 2) * n = (k + 1) * n + n
  BY <1>1
<1>3. (k + 2) * n =< (MaxOps + 1) * n
  <2>1. PICK d \in Nat : MaxOps + 1 = (k + 2) + d
    <3>1. (MaxOps + 1) - (k + 2) \in Nat /\ MaxOps + 1 = (k + 2) + ((MaxOps + 1) - (k + 2))
      BY <1>1
    <3> QED BY <3>1
  <2>2. ((k + 2) + d) * n = (k + 2) * n + d * n /\ d * n \in Nat
    BY <1>1
  <2> QED BY <1>2, <2>1, <2>2
<1>4. (MaxOps + 1) * n \in Nat
  BY <1>1
<1>5. ASSUME NEW a \in Nat, a =< (k + 2) * n
      PROVE  Room(a)
  <2>1. a =< (MaxOps + 1) * n
    <3> DEFINE x == (k + 2) * n
               y == (MaxOps + 1) * n
    <3>1. x \in Nat /\ y \in Nat /\ a =< x /\ x =< y
      BY <1>2, <1>3, <1>4, <1>5
    <3> HIDE DEF x, y
    <3>2. a =< y
      BY <3>1
    <3> QED BY <3>2 DEF y
  <2> QED BY <1>1, <2>1, RoomBelow
<1> QED BY <1>1, <1>2, <1>5

LEMMA HoldsMore ==
  ASSUME NEW h, NEW keys, NEW r \in Nat, NEW q \in Nat, r =< q, Holds(h, keys, r)
  PROVE  Holds(h, keys, q)
<1>1. size(h) \in Nat /\ h.num_deleted \in Nat
  BY GoodFacts DEF Holds
<1> QED BY <1>1 DEF Holds

LEMMA StreamedMore ==
  ASSUME NEW stream, NEW keys, NEW r \in Nat, NEW q \in Nat, r =< q,
         Streamed(stream, keys, r)
  PROVE  Streamed(stream, keys, q)
<1>1. CASE stream = <<>> /\ keys = {}
  BY <1>1 DEF Streamed
<1>2. ASSUME NEW t, Sound(t), Roomy(t), Marks(t) = {}, t.num_buckets =< r,
             stream = serialize(t), keys = {Keys(t)}
      PROVE  Streamed(stream, keys, q)
  <2>1. t.num_buckets =< q
    BY <1>2, KeysCount
  <2> QED BY <1>2, <2>1 DEF Streamed
<1> QED BY <1>1, <1>2 DEF Streamed

LEMMA InitHolds ==
  ASSUME NEW n, Measure(n), Init
  PROVE  SetsInv(n)
<1>1. PICK made \in [Set -> Expected \X FirstRanges] :
        /\ ht = [s \in Set |-> NewSet(made[s][1], made[s][2])]
        /\ Abstract!AInit([s \in Set |-> ToSet(made[s][2])])
        /\ disk = <<>> /\ ops = 0
  BY DEF Init
<1>2. /\ contents = [s \in Set |-> ToSet(made[s][2])]
      /\ ok = [s \in Set |-> TRUE] /\ stored = {}
  BY <1>1 DEF Abstract!AInit
<1>3. n \in Nat /\ MaxOps \in Nat /\ (ops + 1) * n = n /\ (MaxOps + 1) * n >= n
      /\ Room((MaxOps + 1) * n)
  <2>1. n \in Nat /\ MaxOps \in Nat /\ ops = 0 /\ Room((MaxOps + 1) * n)
    BY <1>1, SetAssumption DEF Measure
  <2>2. (MaxOps + 1) * n = MaxOps * n + n /\ MaxOps * n \in Nat
    BY <2>1
  <2> QED BY <2>1, <2>2
<1>4. ASSUME NEW s \in Set
      PROVE  Holds(ht[s], contents[s], n)
  <2>1. PICK m \in Expected, keys \in FirstRanges :
          ht[s] = NewSet(m, keys) /\ contents[s] = ToSet(keys)
    <3>1. made[s][1] \in Expected /\ made[s][2] \in FirstRanges
      OBVIOUS
    <3> QED BY <1>1, <1>2, <3>1
  <2>2. m \in Nat /\ keys \in Seq(Key) /\ m =< n /\ Len(keys) =< n /\ Len(keys) \in Nat
    BY SetAssumption DEF Measure
  <2>3. Room(m) /\ Room(Len(keys))
    <3>1. m =< (MaxOps + 1) * n /\ Len(keys) =< (MaxOps + 1) * n /\ (MaxOps + 1) * n \in Nat
      BY <1>3, <2>2
    <3> QED BY <1>3, <2>2, <3>1, RoomBelow
  <2> DEFINE h == Construct(m)
             g == insert_range(h, keys)
  <2>4. Good(h) /\ Keys(h.table) = {} /\ size(h) = 0 /\ h.num_deleted = 0
    BY <2>3, ConstructIsGood
  <2> HIDE DEF h
  <2>5. Grown(g, h, ToSet(keys), Len(keys))
    <3>1. size(h) + h.num_deleted + Len(keys) = Len(keys)
      BY <2>2, <2>4
    <3> QED BY <2>2, <2>3, <2>4, <3>1, RangeGrows
  <2>6. ht[s] = g
    BY <2>1 DEF NewSet, h
  <2> HIDE DEF g
  <2>7. Good(g) /\ Keys(g.table) = ToSet(keys) /\ size(g) + g.num_deleted =< Len(keys)
    BY <2>2, <2>4, <2>5 DEF Grown
  <2>8. size(g) \in Nat /\ g.num_deleted \in Nat
    BY <2>7, GoodFacts
  <2> QED BY <1>3, <2>1, <2>2, <2>6, <2>7, <2>8 DEF Holds
<1>5. \A s \in Set : Fields(ht[s]) /\ Knobs(ht[s].settings)
  BY <1>4 DEF Holds, Good
<1>6. ops \in 0..MaxOps /\ ok \in [Set -> BOOLEAN]
  BY <1>1, <1>2, <1>3
<1>7. ht = [s \in Set |-> ht[s]] /\ contents = [s \in Set |-> contents[s]]
  BY <1>1, <1>2, Zenon
<1>8. Streamed(disk, stored, (ops + 1) * n)
  BY <1>1, <1>2 DEF Streamed
<1> QED BY <1>3, <1>4, <1>5, <1>6, <1>7, <1>8 DEF SetsInv

\* A call leaves the other sets as spoilt as they are.
OthersStay(changed) == \A x \in Set \ changed : x \in spoilt' <=> x \in spoilt

LEMMA BecomesIs ==
  ASSUME NEW s, NEW new, Becomes(s, new)
  PROVE  Changes(s, new) /\ spoilt' = spoilt /\ OthersStay({s})
BY DEF Becomes, OthersStay

\* A call after which one set holds other keys, or may not be used.
LEMMA OneChanges ==
  ASSUME NEW n, Measure(n), SetsInv(n), NEW s \in Set, NEW new, NEW keys,
         NEW usable \in BOOLEAN, OthersStay({s}),
         Changes(s, new), contents' = [contents EXCEPT ![s] = keys],
         ok' = [ok EXCEPT ![s] = usable], stored' = stored,
         s \notin spoilt' => /\ Fields(new) /\ Knobs(new.settings)
                             /\ usable => Holds(new, keys, (ops + 2) * n)
  PROVE  SetsInv(n)'
<1>1. /\ ops \in 0..MaxOps /\ ops < MaxOps /\ ops' = ops + 1
      /\ ht' = [ht EXCEPT ![s] = new] /\ disk' = disk
  BY DEF Changes, Call, SetsInv
<1>2. /\ (ops + 1) * n \in Nat /\ (ops + 2) * n \in Nat
      /\ (ops + 1) * n =< (ops + 2) * n /\ ops' + 1 = ops + 2
  <2>1. ops \in Nat
    BY <1>1
  <2>2. n \in Nat /\ (ops + 1) * n \in Nat /\ (ops + 2) * n = (ops + 1) * n + n
    <3>1. PICK k : k = ops
      OBVIOUS
    <3>2. n \in Nat /\ (k + 1) * n \in Nat /\ (k + 2) * n = (k + 1) * n + n
      BY <1>1, <2>1, <3>1, RoomLeft
    <3> QED BY <3>1, <3>2
  <2> QED BY <1>1, <2>1, <2>2
<1>3. ASSUME NEW x \in Set
      PROVE  /\ ht'[x] = (IF x = s THEN new ELSE ht[x])
             /\ contents'[x] = (IF x = s THEN keys ELSE contents[x])
             /\ ok'[x] = (IF x = s THEN usable ELSE ok[x])
             /\ x # s => (x \in spoilt' <=> x \in spoilt)
  BY <1>1 DEF SetsInv, OthersStay
<1>4. ht' = [x \in Set |-> ht'[x]] /\ contents' = [x \in Set |-> contents'[x]]
  BY <1>1 DEF SetsInv
<1>5. ASSUME NEW x \in Set \ spoilt'
      PROVE  Fields(ht'[x]) /\ Knobs(ht'[x].settings)
  <2>1. CASE x = s
    BY <1>3, <1>5, <2>1
  <2>2. CASE x # s
    <3>1. Fields(ht[x]) /\ Knobs(ht[x].settings)
      BY <1>3, <2>2 DEF SetsInv
    <3> QED BY <1>3, <2>2, <3>1
  <2> QED BY <2>1, <2>2
<1>6. ASSUME NEW x \in Set \ spoilt', ok'[x]
      PROVE  Holds(ht'[x], contents'[x], (ops' + 1) * n)
  <2>1. CASE x = s
    <3>1. x \notin spoilt' /\ ok'[x] = usable /\ ht'[x] = new /\ contents'[x] = keys
      BY <1>3, <1>6, <2>1
    <3>2. Holds(new, keys, (ops + 2) * n)
      BY <1>6, <2>1, <3>1
    <3> QED BY <1>2, <3>1, <3>2
  <2>2. CASE x # s
    <3>1. Holds(ht[x], contents[x], (ops + 1) * n)
      BY <1>3, <1>6, <2>2 DEF SetsInv
    <3>2. Holds(ht[x], contents[x], (ops + 2) * n)
      <4>1. PICK h, c, p, q : h = ht[x] /\ c = contents[x] /\ p = (ops + 1) * n /\ q = (ops + 2) * n
        OBVIOUS
      <4>2. Holds(h, c, q)
        BY <1>2, <3>1, <4>1, HoldsMore
      <4> QED BY <4>1, <4>2
    <3> QED BY <1>2, <1>3, <2>2, <3>2
  <2> QED BY <2>1, <2>2
<1>7. Streamed(disk', stored', (ops' + 1) * n)
  <2>1. PICK d, k, p, q : d = disk /\ k = stored /\ p = (ops + 1) * n /\ q = (ops + 2) * n
    OBVIOUS
  <2>2. Streamed(d, k, p)
    BY <2>1 DEF SetsInv
  <2>3. Streamed(d, k, q)
    BY <1>2, <2>1, <2>2, StreamedMore
  <2> QED BY <1>1, <1>2, <2>1, <2>3
<1>8. ops' \in 0..MaxOps /\ ok' \in [Set -> BOOLEAN]
  BY <1>1, SetAssumption DEF SetsInv
<1> QED BY <1>4, <1>5, <1>6, <1>7, <1>8 DEF SetsInv

LEMMA OneBecomes ==
  ASSUME NEW n, Measure(n), SetsInv(n), NEW s \in Set, NEW new, NEW keys,
         OthersStay({s}), Changes(s, new), contents' = [contents EXCEPT ![s] = keys],
         UNCHANGED <<ok, stored>>, s \notin spoilt' => Holds(new, keys, (ops + 2) * n)
  PROVE  SetsInv(n)'
<1>1. PICK usable : usable = ok[s]
  OBVIOUS
<1>2. usable \in BOOLEAN /\ ok' = [ok EXCEPT ![s] = usable]
  BY <1>1 DEF SetsInv
<1>3. s \notin spoilt' => Fields(new) /\ Knobs(new.settings)
  BY DEF Holds, Good
<1> QED BY <1>2, <1>3, OneChanges

\* A usable set, and what is left of room for the keys of one more call.
SetFacts(h, keys, k, n) ==
  /\ Good(h) /\ keys = Keys(h.table) /\ k \in Nat /\ k < MaxOps
  /\ size(h) \in Nat /\ h.num_deleted \in Nat
  /\ size(h) + h.num_deleted =< (k + 1) * n
  /\ n \in Nat /\ (k + 1) * n \in Nat /\ (k + 2) * n = (k + 1) * n + n
  /\ \A a \in Nat : a =< (k + 2) * n => Room(a)

LEMMA SetFactsHold ==
  ASSUME NEW n, Measure(n), SetsInv(n), NEW s \in Set \ spoilt, ok[s], ops < MaxOps
  PROVE  SetFacts(ht[s], contents[s], ops, n)
<1>1. PICK h, keys, k : h = ht[s] /\ keys = contents[s] /\ k = ops
  OBVIOUS
<1>2. Holds(h, keys, (k + 1) * n) /\ k \in Nat /\ k < MaxOps
  BY <1>1 DEF SetsInv
<1>3. size(h) \in Nat /\ h.num_deleted \in Nat
  BY <1>2, GoodFacts DEF Holds
<1>4. /\ n \in Nat /\ (k + 1) * n \in Nat /\ (k + 2) * n = (k + 1) * n + n
      /\ \A a \in Nat : a =< (k + 2) * n => Room(a)
  BY <1>2, RoomLeft
<1>5. SetFacts(h, keys, k, n)
  BY <1>2, <1>3, <1>4 DEF SetFacts, Holds
<1> QED BY <1>1, <1>5

\* What the operations make of the table of a usable set.
LEMMA GrownHolds ==
  ASSUME NEW h, NEW keys, NEW k, NEW n, SetFacts(h, keys, k, n),
         NEW g, NEW more, NEW m \in Nat, m =< n, Grown(g, h, more, m)
  PROVE  Holds(g, keys \cup more, (k + 2) * n)
<1>1. size(g) \in Nat /\ g.num_deleted \in Nat
  BY GoodFacts DEF Grown
<1> DEFINE p == (k + 1) * n
           q == (k + 2) * n
<1>2. /\ p \in Nat /\ q = p + n /\ n \in Nat /\ size(h) \in Nat /\ h.num_deleted \in Nat
      /\ size(h) + h.num_deleted =< p
      /\ size(g) + g.num_deleted =< size(h) + h.num_deleted + m
  BY DEF SetFacts, Grown
<1> HIDE DEF p, q
<1>3. size(g) + g.num_deleted =< q
  BY <1>1, <1>2
<1> QED BY <1>3 DEF Grown, Holds, SetFacts, q

LEMMA ErasedHolds ==
  ASSUME NEW h, NEW keys, NEW k, NEW n, SetFacts(h, keys, k, n),
         NEW g, NEW less, Erased(g, h, less)
  PROVE  Holds(g, keys \ less, (k + 2) * n)
<1>1. size(g) \in Nat /\ g.num_deleted \in Nat
  BY GoodFacts DEF Erased
<1> DEFINE p == (k + 1) * n
           q == (k + 2) * n
<1>2. /\ p \in Nat /\ q = p + n /\ n \in Nat /\ size(h) \in Nat /\ h.num_deleted \in Nat
      /\ size(h) + h.num_deleted =< p
      /\ size(g) + g.num_deleted =< size(h) + h.num_deleted
  BY DEF SetFacts, Erased
<1> HIDE DEF p, q
<1>3. size(g) + g.num_deleted =< q
  BY <1>1, <1>2
<1> QED BY <1>3 DEF Erased, Holds, SetFacts, q

\* A table with the keys and the size of another, and no more marks.
LEMMA SameHolds ==
  ASSUME NEW h, NEW keys, NEW k, NEW n, SetFacts(h, keys, k, n), NEW g, Good(g),
         Keys(g.table) = Keys(h.table), size(g) = size(h), g.num_deleted =< h.num_deleted
  PROVE  Holds(g, keys, (k + 2) * n)
<1>1. g.num_deleted \in Nat
  BY GoodFacts
<1> DEFINE p == (k + 1) * n
           q == (k + 2) * n
<1>2. /\ p \in Nat /\ q = p + n /\ n \in Nat /\ size(h) \in Nat /\ h.num_deleted \in Nat
      /\ size(h) + h.num_deleted =< p
  BY DEF SetFacts
<1> HIDE DEF p, q
<1>3. size(g) + g.num_deleted =< q
  BY <1>1, <1>2
<1> QED BY <1>3 DEF Holds, SetFacts, q

LEMMA InsertKeeps ==
  ASSUME NEW n, Measure(n), SetsInv(n), NEW s \in Set, NEW key \in Key,
         Insert(s, key) \/ FindOrInsert(s, key)
  PROVE  SetsInv(n)'
<1>1. PICK new : /\ Becomes(s, new) /\ Abstract!AAdd(s, {key})
                 /\ new = insert(ht[s], key) \/ new = find_or_insert(ht[s], key)
  BY DEF Insert, FindOrInsert
<1>2. PICK h, keys, k : h = ht[s] /\ keys = contents[s] /\ k = ops
  OBVIOUS
<1>3. ok[s] /\ ops < MaxOps /\ contents' = [contents EXCEPT ![s] = keys \cup {key}]
      /\ UNCHANGED <<ok, stored>>
  BY <1>1, <1>2 DEF Becomes, Changes, Call, Abstract!AAdd
<1>a. CASE s \in spoilt
  BY <1>1, <1>2, <1>3, <1>a, BecomesIs, OneBecomes
<1> SUFFICES ASSUME s \notin spoilt
             PROVE  SetsInv(n)'
  BY <1>a
<1>4. SetFacts(h, keys, k, n)
  BY <1>2, <1>3, SetFactsHold
<1>5. Room(size(h) + h.num_deleted + 1)
  <2> DEFINE p == (k + 1) * n
             q == (k + 2) * n
  <2>1. /\ p \in Nat /\ q = p + n /\ n \in Nat /\ 1 =< n
        /\ size(h) \in Nat /\ h.num_deleted \in Nat /\ size(h) + h.num_deleted =< p
        /\ \A a \in Nat : a =< q => Room(a)
    BY <1>4 DEF SetFacts, Measure
  <2> HIDE DEF p, q
  <2>2. size(h) + h.num_deleted + 1 \in Nat /\ size(h) + h.num_deleted + 1 =< q
    BY <2>1
  <2> QED BY <2>1, <2>2
<1>6. Grown(new, h, {key}, 1)
  <2>1. Good(h)
    BY <1>4 DEF SetFacts
  <2> QED BY <1>1, <1>2, <1>5, <2>1, InsertGrows, FindOrInsertGrows
<1>7. Holds(new, keys \cup {key}, (k + 2) * n)
  BY <1>4, <1>6, GrownHolds DEF Measure
<1> QED BY <1>1, <1>2, <1>3, <1>7, BecomesIs, OneBecomes

LEMMA InsertRangeKeeps ==
  ASSUME NEW n, Measure(n), SetsInv(n), NEW s \in Set, NEW seq \in Ranges,
         InsertRange(s, seq)
  PROVE  SetsInv(n)'
<1>1. PICK h, keys, k, new : h = ht[s] /\ keys = contents[s] /\ k = ops
                             /\ new = insert_range(h, seq)
  OBVIOUS
<1>2. ok[s] /\ ops < MaxOps /\ contents' = [contents EXCEPT ![s] = keys \cup ToSet(seq)]
      /\ UNCHANGED <<ok, stored>> /\ Becomes(s, new)
  BY <1>1 DEF InsertRange, Becomes, Changes, Call, Abstract!AAdd
<1>a. CASE s \in spoilt
  BY <1>1, <1>2, <1>a, BecomesIs, OneBecomes
<1> SUFFICES ASSUME s \notin spoilt
             PROVE  SetsInv(n)'
  BY <1>a
<1>3. SetFacts(h, keys, k, n)
  BY <1>1, <1>2, SetFactsHold
<1>4. seq \in Seq(Key) /\ Len(seq) \in Nat /\ Len(seq) =< n
  BY SetAssumption DEF Measure
<1>5. Room(size(h) + h.num_deleted + Len(seq))
  <2> DEFINE p == (k + 1) * n
             q == (k + 2) * n
  <2>1. /\ p \in Nat /\ q = p + n /\ n \in Nat
        /\ size(h) \in Nat /\ h.num_deleted \in Nat /\ size(h) + h.num_deleted =< p
        /\ \A a \in Nat : a =< q => Room(a)
    BY <1>3 DEF SetFacts
  <2> HIDE DEF p, q
  <2>2. size(h) + h.num_deleted + Len(seq) \in Nat /\ size(h) + h.num_deleted + Len(seq) =< q
    BY <1>4, <2>1
  <2> QED BY <2>1, <2>2
<1>6. Grown(new, h, ToSet(seq), Len(seq))
  <2>1. Good(h)
    BY <1>3 DEF SetFacts
  <2> QED BY <1>1, <1>4, <1>5, <2>1, RangeGrows
<1>7. Holds(new, keys \cup ToSet(seq), (k + 2) * n)
  BY <1>3, <1>4, <1>6, GrownHolds
<1> QED BY <1>1, <1>2, <1>7, BecomesIs, OneBecomes

LEMMA EraseKeyKeeps ==
  ASSUME NEW n, Measure(n), SetsInv(n), NEW s \in Set, NEW key \in Key, EraseKey(s, key)
  PROVE  SetsInv(n)'
<1>1. PICK h, keys, k, new : h = ht[s] /\ keys = contents[s] /\ k = ops
                             /\ new = erase_key(h, key)
  OBVIOUS
<1>2. ok[s] /\ ops < MaxOps /\ contents' = [contents EXCEPT ![s] = keys \ {key}]
      /\ UNCHANGED <<ok, stored>> /\ Becomes(s, new)
  BY <1>1 DEF EraseKey, Becomes, Changes, Call, Abstract!ARemove
<1>a. CASE s \in spoilt
  BY <1>1, <1>2, <1>a, BecomesIs, OneBecomes
<1> SUFFICES ASSUME s \notin spoilt
             PROVE  SetsInv(n)'
  BY <1>a
<1>3. SetFacts(h, keys, k, n)
  BY <1>1, <1>2, SetFactsHold
<1>4. Erased(new, h, {key})
  BY <1>1, <1>3, EraseKeyErases DEF SetFacts
<1>5. Holds(new, keys \ {key}, (k + 2) * n)
  BY <1>3, <1>4, ErasedHolds
<1> QED BY <1>1, <1>2, <1>5, BecomesIs, OneBecomes

\* The n-th value that a loop meets is the n-th of the elements.
LEMMA WalkMeets ==
  ASSUME NEW h, Good(h)
  PROVE  /\ DOMAIN Walk(h.table) = 1..size(h) /\ Len(Walk(h.table)) = size(h)
         /\ size(h) \in Nat
         /\ \A m \in 1..size(h) : deref(h.table, Walk(h.table)[m]) = Elements(h.table)[m]
<1>1. Shaped(h.table) /\ size(h) = h.table.num_buckets /\ size(h) \in Nat
  BY GoodFacts DEF Good, Sound
<1>2. Walk(h.table) \in Seq(Iterators) /\ Len(Walk(h.table)) = size(h)
  BY <1>1, WalkAt
<1>3. DOMAIN Walk(h.table) = 1..size(h)
  BY <1>2
<1> QED BY <1>1, <1>2, <1>3 DEF Elements

LEMMA EraseAtKeeps ==
  ASSUME NEW n, Measure(n), SetsInv(n), NEW s \in Set, NEW m, EraseAt(s, m)
  PROVE  SetsInv(n)'
<1>1. PICK h, keys, k, new : h = ht[s] /\ keys = contents[s] /\ k = ops
                             /\ new = erase_iter(h, Walk(h.table)[m])
  OBVIOUS
<1>2. /\ m \in DOMAIN Walk(h.table)
      /\ Abstract!ARemove(s, {deref(h.table, Walk(h.table)[m])}) /\ Becomes(s, new)
  BY <1>1 DEF EraseAt
<1>3. ok[s] /\ ops < MaxOps /\ UNCHANGED <<ok, stored>>
      /\ contents' = [contents EXCEPT ![s] = keys \ {deref(h.table, Walk(h.table)[m])}]
  BY <1>1, <1>2 DEF Becomes, Changes, Call, Abstract!ARemove
<1>a. CASE s \in spoilt
  BY <1>1, <1>2, <1>3, <1>a, BecomesIs, OneBecomes
<1> SUFFICES ASSUME s \notin spoilt
             PROVE  SetsInv(n)'
  BY <1>a
<1>4. SetFacts(h, keys, k, n)
  BY <1>1, <1>3, SetFactsHold
<1>5. m \in 1..size(h) /\ deref(h.table, Walk(h.table)[m]) = Elements(h.table)[m]
  BY <1>2, <1>4, WalkMeets DEF SetFacts
<1>6. Erased(new, h, {Elements(h.table)[m]})
  BY <1>1, <1>4, <1>5, EraseIterErases DEF SetFacts
<1>7. Holds(new, keys \ {Elements(h.table)[m]}, (k + 2) * n)
  BY <1>4, <1>6, ErasedHolds
<1> QED BY <1>1, <1>2, <1>3, <1>5, <1>7, BecomesIs, OneBecomes

LEMMA EraseRangeKeeps ==
  ASSUME NEW n, Measure(n), SetsInv(n), NEW s \in Set, NEW m, NEW last,
         EraseRange(s, m, last)
  PROVE  SetsInv(n)'
<1>1. PICK h, keys, k, new, gone :
        /\ h = ht[s] /\ keys = contents[s] /\ k = ops
        /\ new = erase_iters(h, Walk(h.table)[m], last - m)
        /\ gone = {deref(h.table, Walk(h.table)[j]) : j \in m..(last - 1)}
  OBVIOUS
<1>2. /\ m \in DOMAIN Walk(h.table) /\ last \in m..(Len(Walk(h.table)) + 1)
      /\ Abstract!ARemove(s, gone) /\ Becomes(s, new)
  BY <1>1 DEF EraseRange
<1>3. ok[s] /\ ops < MaxOps /\ UNCHANGED <<ok, stored>>
      /\ contents' = [contents EXCEPT ![s] = keys \ gone]
  BY <1>1, <1>2 DEF Becomes, Changes, Call, Abstract!ARemove
<1>a. CASE s \in spoilt
  BY <1>1, <1>2, <1>3, <1>a, BecomesIs, OneBecomes
<1> SUFFICES ASSUME s \notin spoilt
             PROVE  SetsInv(n)'
  BY <1>a
<1>4. SetFacts(h, keys, k, n)
  BY <1>1, <1>3, SetFactsHold
<1>5. /\ DOMAIN Walk(h.table) = 1..size(h) /\ Len(Walk(h.table)) = size(h) /\ size(h) \in Nat
      /\ \A j \in 1..size(h) : deref(h.table, Walk(h.table)[j]) = Elements(h.table)[j]
  BY <1>4, WalkMeets DEF SetFacts
<1>6. /\ m \in 1..size(h) /\ last - m \in Nat /\ m + (last - m) =< size(h) + 1
      /\ m + (last - m) - 1 = last - 1 /\ \A j \in m..(last - 1) : j \in 1..size(h)
  BY <1>2, <1>5
<1>7. gone = {Elements(h.table)[j] : j \in m..(last - 1)}
  BY <1>1, <1>5, <1>6
<1>8. Erased(new, h, gone)
  <2>1. Erased(erase_iters(h, Walk(h.table)[m], last - m), h,
               {Elements(h.table)[j] : j \in m..(m + (last - m) - 1)})
    BY <1>4, <1>6, EraseItersErases DEF SetFacts
  <2> QED BY <1>1, <1>6, <1>7, <2>1
<1>9. Holds(new, keys \ gone, (k + 2) * n)
  BY <1>4, <1>8, ErasedHolds
<1> QED BY <1>1, <1>2, <1>3, <1>9, BecomesIs, OneBecomes

LEMMA ClearKeeps ==
  ASSUME NEW n, Measure(n), SetsInv(n), NEW s \in Set, Clear(s)
  PROVE  SetsInv(n)'
<1>1. PICK h, keys, k, new : h = ht[s] /\ keys = contents[s] /\ k = ops /\ new = clear(h)
  OBVIOUS
<1>2. ok[s] /\ ops < MaxOps /\ contents' = [contents EXCEPT ![s] = keys \ Key]
      /\ UNCHANGED <<ok, stored>> /\ Becomes(s, new)
  BY <1>1 DEF Clear, Becomes, Changes, Call, Abstract!ARemove
<1>a. CASE s \in spoilt
  BY <1>1, <1>2, <1>a, BecomesIs, OneBecomes
<1> SUFFICES ASSUME s \notin spoilt
             PROVE  SetsInv(n)'
  BY <1>a
<1>3. SetFacts(h, keys, k, n)
  BY <1>1, <1>2, SetFactsHold
<1>4. Good(new) /\ Keys(new.table) = {} /\ size(new) = 0 /\ new.num_deleted = 0
  BY <1>1, <1>3, ClearIsGood DEF SetFacts
<1>5. keys \ Key = {}
  <2>1. keys \in SUBSET Key
    BY <1>3, KeysCount DEF SetFacts, Good
  <2> QED BY <2>1
<1>6. Erased(new, h, Key)
  <2>1. Keys(h.table) \ Key = {}
    BY <1>3, <1>5 DEF SetFacts
  <2> QED BY <1>3, <1>4, <2>1 DEF Erased, SetFacts
<1>7. Holds(new, keys \ Key, (k + 2) * n)
  BY <1>3, <1>6, ErasedHolds
<1> QED BY <1>1, <1>2, <1>7, BecomesIs, OneBecomes

LEMMA ResizeCallKeeps ==
  ASSUME NEW n, Measure(n), SetsInv(n), NEW s \in Set, NEW m \in Requests, Resize(s, m)
  PROVE  SetsInv(n)'
<1>1. PICK h, keys, k, new : h = ht[s] /\ keys = contents[s] /\ k = ops /\ new = resize(h, m)
  OBVIOUS
<1>2. ok[s] /\ ops < MaxOps /\ contents' = [contents EXCEPT ![s] = keys]
      /\ UNCHANGED <<ok, stored>> /\ Becomes(s, new)
  <2>1. keys \ {} = keys
    OBVIOUS
  <2> QED BY <1>1, <2>1 DEF Resize, Becomes, Changes, Call, Abstract!ARemove
<1>a. CASE s \in spoilt
  BY <1>1, <1>2, <1>a, BecomesIs, OneBecomes
<1> SUFFICES ASSUME s \notin spoilt
             PROVE  SetsInv(n)'
  BY <1>a
<1>3. SetFacts(h, keys, k, n)
  BY <1>1, <1>2, SetFactsHold
<1>4. m \in Nat /\ m =< n
  BY SetAssumption DEF Measure
<1>5. Room(size(h) + h.num_deleted + m)
  <2> DEFINE p == (k + 1) * n
             q == (k + 2) * n
  <2>1. /\ p \in Nat /\ q = p + n /\ n \in Nat
        /\ size(h) \in Nat /\ h.num_deleted \in Nat /\ size(h) + h.num_deleted =< p
        /\ \A a \in Nat : a =< q => Room(a)
    BY <1>3 DEF SetFacts
  <2> HIDE DEF p, q
  <2>2. size(h) + h.num_deleted + m \in Nat /\ size(h) + h.num_deleted + m =< q
    BY <1>4, <2>1
  <2> QED BY <2>1, <2>2
<1>6. Keeps(new, h)
  BY <1>1, <1>3, <1>4, <1>5, ResizeKeeps DEF SetFacts
<1>7. Holds(new, keys, (k + 2) * n)
  BY <1>3, <1>6, SameHolds DEF Keeps
<1> QED BY <1>1, <1>2, <1>7, BecomesIs, OneBecomes

LEMMA ParametersCallKeeps ==
  ASSUME NEW n, Measure(n), SetsInv(n), NEW s \in Set, NEW p \in ResizingParams,
         SetResizingParameters(s, p)
  PROVE  SetsInv(n)'
<1>1. PICK h, keys, k, new : h = ht[s] /\ keys = contents[s] /\ k = ops
                             /\ new = set_table_parameters(h, p[1], p[2])
  OBVIOUS
<1>2. ok[s] /\ ops < MaxOps /\ contents' = [contents EXCEPT ![s] = keys]
      /\ UNCHANGED <<ok, stored>> /\ Becomes(s, new)
  <2>1. keys \ {} = keys
    OBVIOUS
  <2> QED BY <1>1, <2>1 DEF SetResizingParameters, Becomes, Changes, Call, Abstract!ARemove
<1>a. CASE s \in spoilt
  BY <1>1, <1>2, <1>a, BecomesIs, OneBecomes
<1> SUFFICES ASSUME s \notin spoilt
             PROVE  SetsInv(n)'
  BY <1>a
<1>3. SetFacts(h, keys, k, n)
  BY <1>1, <1>2, SetFactsHold
<1>4. Good(new) /\ new.table = h.table /\ new.num_deleted = h.num_deleted
  BY <1>1, <1>3, ParametersKeep DEF SetFacts
<1>5. Holds(new, keys, (k + 2) * n)
  <2>1. size(new) = size(h) /\ h.num_deleted \in Nat
    BY <1>3, <1>4 DEF SetFacts, size
  <2> QED BY <1>3, <1>4, <2>1, SameHolds
<1> QED BY <1>1, <1>2, <1>5, BecomesIs, OneBecomes

\* Both copies rebuild the table of the other set.
LEMMA RebuiltHolds ==
  ASSUME NEW h, NEW keys, NEW k, NEW n, SetFacts(h, keys, k, n), NEW g, Rebuilt(g, h.table)
  PROVE  Holds(g, keys, (k + 2) * n)
<1>1. Good(g) /\ g.num_deleted = 0 /\ Keys(g.table) = Keys(h.table) /\ size(g) = size(h)
  BY DEF Rebuilt, size
<1>2. g.num_deleted =< h.num_deleted
  BY <1>1 DEF SetFacts
<1> QED BY <1>1, <1>2, SameHolds

LEMMA RoomForAll ==
  ASSUME NEW h, NEW keys, NEW k, NEW n, SetFacts(h, keys, k, n)
  PROVE  Room(size(h))
<1> DEFINE p == (k + 1) * n
           q == (k + 2) * n
<1>1. /\ p \in Nat /\ q = p + n /\ n \in Nat
      /\ size(h) \in Nat /\ h.num_deleted \in Nat /\ size(h) + h.num_deleted =< p
      /\ \A a \in Nat : a =< q => Room(a)
  BY DEF SetFacts
<1> HIDE DEF p, q
<1>2. size(h) =< q
  BY <1>1
<1> QED BY <1>1, <1>2

LEMMA MakeCopyKeeps ==
  ASSUME NEW n, Measure(n), SetsInv(n), NEW s \in Set, NEW u \in Set, MakeCopy(s, u)
  PROVE  SetsInv(n)'
<1>1. PICK h, keys, k, new : h = ht[u] /\ keys = contents[u] /\ k = ops
                             /\ new = CopyConstruct(h)
  OBVIOUS
<1>2. ok[u] /\ ops < MaxOps /\ contents' = [contents EXCEPT ![s] = keys]
      /\ UNCHANGED <<ok, stored>> /\ Changes(s, new)
  BY <1>1 DEF MakeCopy, Changes, Call, Abstract!ACopy
<1>3. OthersStay({s}) /\ (s \in spoilt' <=> u \in spoilt)
  BY DEF MakeCopy, MadeOf, OthersStay
<1>4. CASE u \in spoilt
  BY <1>2, <1>3, <1>4, OneBecomes
<1>5. CASE u \notin spoilt
  <2>1. SetFacts(h, keys, k, n)
    BY <1>1, <1>2, <1>5, SetFactsHold
  <2>2. Rebuilt(new, h.table)
    BY <1>1, <2>1, RoomForAll, CopyConstructIsGood DEF SetFacts
  <2>3. Holds(new, keys, (k + 2) * n)
    BY <2>1, <2>2, RebuiltHolds
  <2> QED BY <1>1, <1>2, <1>3, <2>3, OneBecomes
<1> QED BY <1>4, <1>5

\* A set that keeps the marks of its erased buckets is spoilt: any other is
\* cleared, or has none.
LEMMA AssignKeeps ==
  ASSUME NEW n, Measure(n), SetsInv(n), NEW s \in Set, NEW u \in Set, Assign(s, u)
  PROVE  SetsInv(n)'
<1>1. PICK h, keys, k, old, own, new :
        /\ h = ht[u] /\ keys = contents[u] /\ k = ops /\ old = ht[s] /\ own = contents[s]
        /\ new = copy_assign(old, h)
  OBVIOUS
<1>2. ok[s] /\ ok[u] /\ ops < MaxOps /\ contents' = [contents EXCEPT ![s] = keys]
      /\ UNCHANGED <<ok, stored>> /\ Changes(s, new)
  BY <1>1 DEF Assign, Changes, Call, Abstract!ACopy
<1>3. /\ OthersStay({s})
      /\ s \in spoilt' <=> s \in spoilt \/ u \in spoilt \/ KeepsMarks(s, u)
  BY DEF Assign, MadeOf, OthersStay
<1>4. CASE s \in spoilt'
  BY <1>2, <1>3, <1>4, OneBecomes
<1>5. CASE s \notin spoilt'
  <2>1. SetFacts(h, keys, k, n) /\ SetFacts(old, own, k, n)
    BY <1>1, <1>2, <1>3, <1>5, SetFactsHold
  <2>2. size(old) # 0 \/ old.num_deleted = 0 \/ h.num_deleted # 0
    BY <1>1, <1>3, <1>5 DEF KeepsMarks
  <2>3. Rebuilt(new, h.table)
    BY <1>1, <2>1, <2>2, RoomForAll, CopyAssignIsGood DEF SetFacts
  <2>4. Holds(new, keys, (k + 2) * n)
    BY <2>1, <2>3, RebuiltHolds
  <2> QED BY <1>1, <1>2, <1>3, <2>4, OneBecomes
<1> QED BY <1>4, <1>5

\* A call after which two sets hold other keys.
LEMMA TwoBecome ==
  ASSUME NEW n, Measure(n), SetsInv(n), Call, NEW s \in Set, NEW u \in Set, s # u,
         NEW new, NEW left, NEW keys, NEW kept,
         ht' = [ht EXCEPT ![s] = new, ![u] = left],
         contents' = [contents EXCEPT ![s] = keys, ![u] = kept],
         UNCHANGED <<ok, stored, disk>>, OthersStay({s, u}),
         s \notin spoilt' => Holds(new, keys, (ops + 2) * n),
         u \notin spoilt' => Holds(left, kept, (ops + 2) * n)
  PROVE  SetsInv(n)'
<1>1. /\ ops \in 0..MaxOps /\ ops < MaxOps /\ ops' = ops + 1
      /\ disk' = disk /\ ok' = ok /\ stored' = stored
  BY DEF Call, SetsInv
<1>2. /\ (ops + 1) * n \in Nat /\ (ops + 2) * n \in Nat
      /\ (ops + 1) * n =< (ops + 2) * n /\ ops' + 1 = ops + 2
  <2>1. ops \in Nat
    BY <1>1
  <2>2. n \in Nat /\ (ops + 1) * n \in Nat /\ (ops + 2) * n = (ops + 1) * n + n
    <3>1. PICK k : k = ops
      OBVIOUS
    <3>2. n \in Nat /\ (k + 1) * n \in Nat /\ (k + 2) * n = (k + 1) * n + n
      BY <1>1, <2>1, <3>1, RoomLeft
    <3> QED BY <3>1, <3>2
  <2> QED BY <1>1, <2>1, <2>2
<1>3. ASSUME NEW x \in Set
      PROVE  /\ ht'[x] = (IF x = u THEN left ELSE IF x = s THEN new ELSE ht[x])
             /\ contents'[x] = (IF x = u THEN kept ELSE IF x = s THEN keys ELSE contents[x])
             /\ x \notin {s, u} => (x \in spoilt' <=> x \in spoilt)
  BY DEF SetsInv, OthersStay
<1>4. ht' = [x \in Set |-> ht'[x]] /\ contents' = [x \in Set |-> contents'[x]]
  BY DEF SetsInv
<1>5. ASSUME NEW x \in Set \ spoilt'
      PROVE  Fields(ht'[x]) /\ Knobs(ht'[x].settings)
  <2>1. CASE x \in {s, u}
    <3>1. /\ s \notin spoilt' => Fields(new) /\ Knobs(new.settings)
          /\ u \notin spoilt' => Fields(left) /\ Knobs(left.settings)
      BY DEF Holds, Good
    <3> QED BY <1>3, <2>1, <3>1
  <2>2. CASE x \notin {s, u}
    <3>1. Fields(ht[x]) /\ Knobs(ht[x].settings)
      BY <1>3, <2>2 DEF SetsInv
    <3> QED BY <1>3, <2>2, <3>1
  <2> QED BY <2>1, <2>2
<1>6. ASSUME NEW x \in Set \ spoilt', ok'[x]
      PROVE  Holds(ht'[x], contents'[x], (ops' + 1) * n)
  <2>1. CASE x \in {s, u}
    BY <1>2, <1>3, <2>1
  <2>2. CASE x \notin {s, u}
    <3>1. Holds(ht[x], contents[x], (ops + 1) * n)
      BY <1>1, <1>3, <1>6, <2>2 DEF SetsInv
    <3>2. Holds(ht[x], contents[x], (ops + 2) * n)
      <4>1. PICK h, c, p, q : h = ht[x] /\ c = contents[x] /\ p = (ops + 1) * n /\ q = (ops + 2) * n
        OBVIOUS
      <4>2. Holds(h, c, q)
        BY <1>2, <3>1, <4>1, HoldsMore
      <4> QED BY <4>1, <4>2
    <3> QED BY <1>2, <1>3, <2>2, <3>2
  <2> QED BY <2>1, <2>2
<1>7. Streamed(disk', stored', (ops' + 1) * n)
  <2>1. PICK d, k, p, q : d = disk /\ k = stored /\ p = (ops + 1) * n /\ q = (ops + 2) * n
    OBVIOUS
  <2>2. Streamed(d, k, p)
    BY <2>1 DEF SetsInv
  <2>3. Streamed(d, k, q)
    BY <1>2, <2>1, <2>2, StreamedMore
  <2> QED BY <1>1, <1>2, <2>1, <2>3
<1>8. ops' \in 0..MaxOps /\ ok' \in [Set -> BOOLEAN]
  BY <1>1, SetAssumption DEF SetsInv
<1> QED BY <1>4, <1>5, <1>6, <1>7, <1>8 DEF SetsInv

LEMMA SwapKeeps ==
  ASSUME NEW n, Measure(n), SetsInv(n), NEW s \in Set, NEW u \in Set, Swap(s, u)
  PROVE  SetsInv(n)'
<1>1. PICK h, keys, g, own, k :
        h = ht[u] /\ keys = contents[u] /\ g = ht[s] /\ own = contents[s] /\ k = ops
  OBVIOUS
<1>2. PICK new, left : new = swapped(h) /\ left = swapped(g)
  OBVIOUS
<1>3. /\ s # u /\ ok[s] /\ ok[u] /\ ops < MaxOps /\ Call /\ UNCHANGED <<ok, stored, disk>>
      /\ ht' = [ht EXCEPT ![s] = new, ![u] = left]
      /\ contents' = [contents EXCEPT ![s] = keys, ![u] = own]
  BY <1>1, <1>2 DEF Swap, Call, Abstract!AExchange
<1>4. /\ OthersStay({s, u})
      /\ (s \in spoilt' <=> u \in spoilt) /\ (u \in spoilt' <=> s \in spoilt)
  BY <1>3 DEF Swap, OthersStay
<1>5. ASSUME s \notin spoilt'
      PROVE  Holds(new, keys, (k + 2) * n)
  <2>1. SetFacts(h, keys, k, n)
    BY <1>1, <1>3, <1>4, <1>5, SetFactsHold
  <2>2. Good(new) /\ new.table = h.table /\ new.num_deleted = h.num_deleted
    BY <1>2, <2>1, SwappedIsGood DEF SetFacts
  <2>3. size(new) = size(h) /\ h.num_deleted \in Nat
    BY <2>1, <2>2 DEF SetFacts, size
  <2> QED BY <2>1, <2>2, <2>3, SameHolds
<1>6. ASSUME u \notin spoilt'
      PROVE  Holds(left, own, (k + 2) * n)
  <2>1. SetFacts(g, own, k, n)
    BY <1>1, <1>3, <1>4, <1>6, SetFactsHold
  <2>2. Good(left) /\ left.table = g.table /\ left.num_deleted = g.num_deleted
    BY <1>2, <2>1, SwappedIsGood DEF SetFacts
  <2>3. size(left) = size(g) /\ g.num_deleted \in Nat
    BY <2>1, <2>2 DEF SetFacts, size
  <2> QED BY <2>1, <2>2, <2>3, SameHolds
<1> QED BY <1>1, <1>3, <1>4, <1>5, <1>6, TwoBecome

LEMMA MakeMovedKeeps ==
  ASSUME NEW n, Measure(n), SetsInv(n), NEW s \in Set, NEW u \in Set, MakeMoved(s, u)
  PROVE  SetsInv(n)'
<1>1. PICK h, keys, k : h = ht[u] /\ keys = contents[u] /\ k = ops
  OBVIOUS
<1>2. PICK new, left : new = swapped(h) /\ left = moved_from(h)
  OBVIOUS
<1>3. /\ s # u /\ ok[u] /\ ops < MaxOps /\ Call /\ UNCHANGED <<ok, stored, disk>>
      /\ ht' = [ht EXCEPT ![s] = new, ![u] = left]
      /\ contents' = [contents EXCEPT ![s] = keys, ![u] = {}]
  BY <1>1, <1>2 DEF MakeMoved, Call, Abstract!ATake
<1>a. /\ OthersStay({s, u})
      /\ (s \in spoilt' <=> u \in spoilt) /\ (u \in spoilt' <=> u \in spoilt)
  BY <1>3 DEF MakeMoved, MadeOf, OthersStay
<1>b. CASE u \in spoilt
  BY <1>3, <1>a, <1>b, TwoBecome
<1> SUFFICES ASSUME u \notin spoilt
             PROVE  SetsInv(n)'
  BY <1>b
<1>4. SetFacts(h, keys, k, n)
  BY <1>1, <1>3, SetFactsHold
<1>5. Good(new) /\ new.table = h.table /\ new.num_deleted = h.num_deleted
  BY <1>2, <1>4, SwappedIsGood DEF SetFacts
<1>6. Holds(new, keys, (k + 2) * n)
  <2>1. size(new) = size(h) /\ h.num_deleted \in Nat
    BY <1>4, <1>5 DEF SetFacts, size
  <2> QED BY <1>4, <1>5, <2>1, SameHolds
<1>7. Good(left) /\ Keys(left.table) = {} /\ size(left) = 0 /\ left.num_deleted = 0
  <2>1. Prepared(left, HT_DEFAULT_STARTING_BUCKETS)
    BY <1>2, <1>4, NewIsPrepared DEF moved_from, SetFacts, Good
  <2> QED BY <2>1, PreparedIsGood, HashtableAssumption
<1>8. Holds(left, {}, (k + 2) * n)
  <2>1. (k + 2) * n \in Nat
    <3> DEFINE p == (k + 1) * n
               q == (k + 2) * n
    <3>1. p \in Nat /\ n \in Nat /\ q = p + n
      BY <1>4 DEF SetFacts
    <3> HIDE DEF p, q
    <3>2. q \in Nat
      BY <3>1
    <3> QED BY <3>2 DEF q
  <2> QED BY <1>7, <2>1 DEF Holds
<1> QED BY <1>1, <1>3, <1>6, <1>8, <1>a, TwoBecome

\* Without the erased buckets, which a stream does not keep: this is what
\* the assumption excludes.
LEMMA SerializeKeeps ==
  ASSUME ~SerializeErased,
         NEW n, Measure(n), SetsInv(n), NEW s \in Set, Serialize(s)
  PROVE  SetsInv(n)'
<1>1. PICK h, keys, k : h = ht[s] /\ keys = contents[s] /\ k = ops
  OBVIOUS
<1>2. /\ ok[s] /\ k < MaxOps /\ ops' = k + 1 /\ h.num_deleted = 0
      /\ disk' = serialize(h.table) /\ stored' = {keys}
      /\ ht' = ht /\ contents' = contents /\ ok' = ok /\ spoilt' = spoilt /\ s \notin spoilt
  BY <1>1 DEF Serialize, Call, Abstract!AStore
<1>3. SetFacts(h, keys, k, n)
  BY <1>1, <1>2, SetFactsHold
<1> DEFINE p == (k + 1) * n
           q == (k + 2) * n
<1>4. /\ p \in Nat /\ q = p + n /\ n \in Nat /\ size(h) \in Nat
      /\ size(h) + h.num_deleted =< p
  BY <1>3 DEF SetFacts
<1>5. (ops' + 1) * n = q
  <2>1. (k + 1) + 1 = k + 2
    BY <1>3 DEF SetFacts
  <2> QED BY <1>2, <2>1
<1> HIDE DEF p, q
<1>6. q \in Nat /\ p =< q /\ size(h) =< q
  BY <1>2, <1>4
<1>7. ASSUME NEW x \in Set \ spoilt', ok'[x]
      PROVE  Holds(ht'[x], contents'[x], (ops' + 1) * n)
  <2>1. PICK g, c : g = ht[x] /\ c = contents[x]
    OBVIOUS
  <2>2. Holds(g, c, p)
    BY <1>1, <1>2, <1>7, <2>1 DEF SetsInv, p
  <2>3. Holds(g, c, q)
    BY <1>4, <1>6, <2>2, HoldsMore
  <2> QED BY <1>2, <1>5, <2>1, <2>3
<1>8. Streamed(disk', stored', (ops' + 1) * n)
  <2>1. Marks(h.table) = {}
    <3>1. IsFiniteSet(Marks(h.table)) /\ Cardinality(Marks(h.table)) = 0
      BY <1>2, <1>3, FullFinite DEF SetFacts, Good, Sound
    <3> QED BY <3>1, FS_EmptySet
  <2>2. Sound(h.table) /\ Roomy(h.table) /\ h.table.num_buckets =< q /\ keys = Keys(h.table)
    BY <1>3, <1>6 DEF SetFacts, Good, size
  <2> QED BY <1>2, <1>5, <2>1, <2>2 DEF Streamed
<1>9. \A x \in Set \ spoilt' : Fields(ht'[x]) /\ Knobs(ht'[x].settings)
  BY <1>2 DEF SetsInv
<1>10. /\ ops' \in 0..MaxOps /\ ok' \in [Set -> BOOLEAN]
       /\ ht' = [x \in Set |-> ht'[x]] /\ contents' = [x \in Set |-> contents'[x]]
  <2>1. ops' \in 0..MaxOps
    BY <1>2, <1>3, SetAssumption DEF SetFacts
  <2> QED BY <1>2, <2>1 DEF SetsInv
<1> QED BY <1>7, <1>8, <1>9, <1>10 DEF SetsInv

\* A reading that succeeds is of the whole stream.
LEMMA UnserializeCallKeeps ==
  ASSUME NEW n, Measure(n), SetsInv(n), NEW s \in Set, disk # <<>>,
         NEW fp \in {disk} \cup BadStreams, Unserialize(s, fp)
  PROVE  SetsInv(n)'
<1>1. PICK d, k, r : d = disk /\ k = ops /\ r = stored
  OBVIOUS
<1>2. PICK t : /\ Sound(t) /\ Roomy(t) /\ Marks(t) = {} /\ t.num_buckets =< (k + 1) * n
               /\ d = serialize(t) /\ r = {Keys(t)}
  BY <1>1 DEF SetsInv, Streamed
<1>3. unserialize(fp, Raw).ok => unserialize(fp, Raw).table = t
  <2>1. /\ unserialize(d, Raw).table = t
        /\ \A m \in 0..(Len(d) - 1) : unserialize(SubSeq(d, 1, m), Raw).ok = FALSE
        /\ unserialize(<<MAGIC_NUMBER + 1>> \o Tail(d), Raw).ok = FALSE
    <3>1. GivesBack(d, t)
      BY <1>2, StreamsTold
    <3> QED BY <3>1 DEF GivesBack
  <2>2. \/ fp = d \/ \E m \in 0..(Len(d) - 1) : fp = SubSeq(d, 1, m)
        \/ fp = <<MAGIC_NUMBER + 1>> \o Tail(d)
    BY <1>1 DEF BadStreams
  <2> QED BY <2>1, <2>2
<1>4. PICK h, new, bytes : h = ht[s] /\ new = unserialize_into(h, fp, Raw) /\ bytes = fp
  OBVIOUS
<1>5. /\ Changes(s, new) /\ OthersStay({s}) /\ ops < MaxOps
      /\ s \notin spoilt' => Fields(h) /\ Knobs(h.settings)
  BY <1>4 DEF Unserialize, Becomes, Changes, Call, SetsInv, OthersStay
<1>6. s \notin spoilt' => Fields(new) /\ Knobs(new.settings)
  BY <1>4, <1>5, UnserializeKeeps
<1>7. CASE unserialize(fp, Raw).ok
  <2>1. s \notin spoilt' => Good(new) /\ new.table = t /\ new.num_deleted = 0
    BY <1>2, <1>3, <1>4, <1>5, <1>7, UnserializeIsGood
  <2>2. ASSUME s \notin spoilt'
        PROVE  Holds(new, Keys(t), (k + 2) * n)
    <3> DEFINE p == (k + 1) * n
               q == (k + 2) * n
    <3>1. p \in Nat /\ q = p + n /\ n \in Nat
      BY <1>1, <1>5, RoomLeft DEF SetsInv
    <3>2. t.num_buckets \in Nat /\ t.num_buckets =< p
      BY <1>2, KeysCount
    <3> HIDE DEF p, q
    <3>3. size(new) + new.num_deleted =< q
      BY <2>1, <2>2, <3>1, <3>2 DEF size
    <3> QED BY <2>1, <2>2, <3>3 DEF Holds, q
  <2>3. Abstract!ALoad(s)
    BY <1>7 DEF Unserialize
  <2>4. /\ contents' = [contents EXCEPT ![s] = Keys(t)]
        /\ ok' = [ok EXCEPT ![s] = TRUE] /\ stored' = stored
    BY <1>1, <1>2, <2>3 DEF Abstract!ALoad
  <2> QED BY <1>1, <1>5, <1>6, <2>2, <2>4, OneChanges
<1>8. CASE ~unserialize(fp, Raw).ok
  <2>1. Abstract!AFailToLoad(s)
    BY <1>8 DEF Unserialize
  <2>2. /\ contents' = [contents EXCEPT ![s] = {}]
        /\ ok' = [ok EXCEPT ![s] = FALSE] /\ stored' = stored
    BY <2>1 DEF Abstract!AFailToLoad
  <2> QED BY <1>5, <1>6, <2>2, OneChanges
<1> QED BY <1>7, <1>8

LEMMA SetsStep ==
  ASSUME ~SerializeErased, NEW n, Measure(n), SetsInv(n), [Next]_vars
  PROVE  SetsInv(n)'
<1>1. CASE UNCHANGED vars
  BY <1>1 DEF vars, SetsInv
<1>2. ASSUME NEW s \in Set, NEW key \in Key, Insert(s, key) \/ FindOrInsert(s, key)
      PROVE  SetsInv(n)'
  BY <1>2, InsertKeeps
<1>3. ASSUME NEW s \in Set, NEW key \in Key, EraseKey(s, key)
      PROVE  SetsInv(n)'
  BY <1>3, EraseKeyKeeps
<1>4. ASSUME NEW s \in Set, NEW keys \in Ranges, InsertRange(s, keys)
      PROVE  SetsInv(n)'
  BY <1>4, InsertRangeKeeps
<1>5. ASSUME NEW s \in Set, NEW m, EraseAt(s, m)
      PROVE  SetsInv(n)'
  BY <1>5, EraseAtKeeps
<1>6. ASSUME NEW s \in Set, NEW m, NEW last, EraseRange(s, m, last)
      PROVE  SetsInv(n)'
  BY <1>6, EraseRangeKeeps
<1>7. ASSUME NEW s \in Set, Clear(s)
      PROVE  SetsInv(n)'
  BY <1>7, ClearKeeps
<1>8. ASSUME NEW s \in Set, NEW m \in Requests, Resize(s, m)
      PROVE  SetsInv(n)'
  BY <1>8, ResizeCallKeeps
<1>9. ASSUME NEW s \in Set, NEW p \in ResizingParams, SetResizingParameters(s, p)
      PROVE  SetsInv(n)'
  BY <1>9, ParametersCallKeeps
<1>10. ASSUME NEW s \in Set, NEW u \in Set, MakeCopy(s, u)
       PROVE  SetsInv(n)'
  BY <1>10, MakeCopyKeeps
<1>11. ASSUME NEW s \in Set, NEW u \in Set, Assign(s, u)
       PROVE  SetsInv(n)'
  BY <1>11, AssignKeeps
<1>12. ASSUME NEW s \in Set, NEW u \in Set, Swap(s, u)
       PROVE  SetsInv(n)'
  BY <1>12, SwapKeeps
<1>13. ASSUME NEW s \in Set, NEW u \in Set, MakeMoved(s, u)
       PROVE  SetsInv(n)'
  BY <1>13, MakeMovedKeeps
<1>14. ASSUME NEW s \in Set, Serialize(s)
       PROVE  SetsInv(n)'
  BY <1>14, SerializeKeeps
<1>15. ASSUME NEW s \in Set, disk # <<>>, NEW fp \in {disk} \cup BadStreams, Unserialize(s, fp)
       PROVE  SetsInv(n)'
  BY <1>15, UnserializeCallKeeps
<1>16. CASE Next
  BY <1>2, <1>3, <1>4, <1>5, <1>6, <1>7, <1>8, <1>9, <1>10, <1>11, <1>12, <1>13,
     <1>14, <1>15, <1>16 DEF Next
<1> QED BY <1>1, <1>16

\* What the invariant says of one set.
LEMMA UsableIsGood ==
  ASSUME NEW n, SetsInv(n), NEW s \in Whole
  PROVE  Good(ht[s]) /\ contents[s] = Keys(ht[s].table)
BY DEF SetsInv, Whole, Usable, Holds

LEMMA TypesFollow ==
  ASSUME NEW n, SetsInv(n)
  PROVE  SparseTypeOK
<1>1. ASSUME NEW s \in Whole
      PROVE  TableOK(ht[s].table)
  BY UsableIsGood, TableIsOK DEF Good, Sound
<1> QED BY <1>1 DEF SparseTypeOK, SetsInv

LEMMA CountFollows ==
  ASSUME NEW n, SetsInv(n)
  PROVE  ErasedCounted
<1>1. ASSUME NEW s \in Whole
      PROVE  ht[s].num_deleted
               = Cardinality(Marks(ht[s].table))
  <2>1. Good(ht[s])
    BY UsableIsGood
  <2> QED BY <2>1 DEF Good
<1> QED BY <1>1 DEF ErasedCounted

LEMMA SearchesFollow ==
  ASSUME NEW n, SetsInv(n)
  PROVE  SearchesEnd
<1>1. ASSUME NEW s \in Whole, NEW key \in Key
      PROVE  Lands(ht[s].table, key, Free(ht[s].table))
  <2>1. PICK t : t = ht[s].table
    OBVIOUS
  <2>2. Sound(t) /\ Roomy(t)
    BY <2>1, UsableIsGood DEF Good
  <2> QED BY <2>1, <2>2, SearchEnds
<1> QED BY <1>1 DEF SearchesEnd

LEMMA ContentsFollow ==
  ASSUME NEW n, SetsInv(n)
  PROVE  HoldsContents
<1>1. ASSUME NEW s \in Whole
      PROVE  ToSet(Elements(ht[s].table)) = contents[s] /\ size(ht[s]) = Cardinality(contents[s])
  <2>1. PICK h, keys : h = ht[s] /\ keys = contents[s]
    OBVIOUS
  <2>2. Sound(h.table) /\ keys = Keys(h.table)
    BY <2>1, UsableIsGood DEF Good
  <2>3. size(h) = Cardinality(keys)
    BY <2>2, KeysCount DEF size
  <2>4. ToSet(Elements(h.table)) = keys
    <3> DEFINE w == Elements(h.table)
    <3>1. w \in Seq(Key) /\ keys = {w[j] : j \in 1..Len(w)}
      BY <2>2, ElementsAreKeys
    <3> HIDE DEF w
    <3>2. DOMAIN w = 1..Len(w)
      BY <3>1
    <3>3. ToSet(w) = keys
      BY <3>1, <3>2 DEF ToSet
    <3> QED BY <3>3 DEF w
  <2> QED BY <2>1, <2>3, <2>4
<1> QED BY <1>1 DEF HoldsContents

LEMMA LookupsFollow ==
  ASSUME NEW n, SetsInv(n)
  PROVE  LookupsAgree
<1>1. ASSUME NEW s \in Whole, NEW key \in Key
      PROVE  LET it == find(ht[s], key)
             IN  /\ IF key \in contents[s]
                    THEN it # EndOf(ht[s].table) /\ deref(ht[s].table, it) = key
                    ELSE it = EndOf(ht[s].table)
                 /\ count(ht[s], key) = IF key \in contents[s] THEN 1 ELSE 0
  <2>1. PICK h, keys : h = ht[s] /\ keys = contents[s]
    OBVIOUS
  <2>2. Sound(h.table) /\ Roomy(h.table) /\ keys = Keys(h.table)
    BY <2>1, UsableIsGood DEF Good
  <2>3. /\ IF key \in Keys(h.table)
           THEN find(h, key) # EndOf(h.table) /\ deref(h.table, find(h, key)) = key
           ELSE find(h, key) = EndOf(h.table)
        /\ count(h, key) = IF key \in Keys(h.table) THEN 1 ELSE 0
    BY <2>2, LookupRight
  <2> QED BY <2>1, <2>2, <2>3
<1> QED BY <1>1 DEF LookupsAgree

LEMMA ErasureFollows ==
  ASSUME NEW n, SetsInv(n)
  PROVE  EraseContinues
<1>1. ASSUME NEW s \in Whole
      PROVE  LET table == ht[s].table
                 all   == Elements(table)
             IN  \A m \in DOMAIN all :
                   LET left == erase_at(table, Walk(table)[m])
                   IN  /\ Elements(left.table) = RemoveAt(all, m)
                       /\ left.it = IF m = Len(all) THEN EndOf(left.table)
                                    ELSE Walk(left.table)[m]
  <2>1. PICK t : t = ht[s].table
    OBVIOUS
  <2>2. Sound(t) /\ Shaped(t)
    BY <2>1, UsableIsGood DEF Good, Sound
  <2>3. Elements(t) \in Seq(Value) /\ Len(Elements(t)) = t.num_buckets
    BY <2>2, ElementsAre
  <2>4. DOMAIN Elements(t) = 1..t.num_buckets
    BY <2>3
  <2>5. ASSUME NEW m \in DOMAIN Elements(t)
        PROVE  LET left == erase_at(t, Walk(t)[m])
               IN  /\ Elements(left.table) = RemoveAt(Elements(t), m)
                   /\ left.it = IF m = Len(Elements(t)) THEN EndOf(left.table)
                                ELSE Walk(left.table)[m]
    BY <2>2, <2>3, <2>4, EraseGoesOn
  <2> QED BY <2>1, <2>5
<1> QED BY <1>1 DEF EraseContinues

LEMMA EqualityFollows ==
  ASSUME NEW n, SetsInv(n)
  PROVE  EqualityIsOfContents
<1>1. ASSUME NEW s \in Whole, NEW u \in Whole
      PROVE  EqualTables(ht[s], ht[u]) = (contents[s] = contents[u])
  <2>1. PICK g, h, c, d : g = ht[s] /\ h = ht[u] /\ c = contents[s] /\ d = contents[u]
    OBVIOUS
  <2>2. /\ Sound(g.table) /\ Sound(h.table) /\ Roomy(h.table)
        /\ c = Keys(g.table) /\ d = Keys(h.table)
    BY <2>1, UsableIsGood DEF Good
  <2>3. EqualTables(g, h) <=> c = d
    BY <2>2, EqualsRight
  <2>4. EqualTables(g, h) = (c = d)
    BY <2>3 DEF EqualTables
  <2> QED BY <2>1, <2>4
<1> QED BY <1>1 DEF EqualityIsOfContents

\* The last stream written is read back whole, cut short it is refused.
StreamsGiveBack ==
  disk # <<>> => \E t : /\ stored = {Keys(t)} /\ Marks(t) = {} /\ disk = serialize(t)
                        /\ GivesBack(disk, t)

LEMMA StreamsFollow ==
  ASSUME NEW n, SetsInv(n)
  PROVE  StreamsGiveBack
<1>1. ASSUME disk # <<>>
      PROVE  \E t : /\ stored = {Keys(t)} /\ Marks(t) = {} /\ disk = serialize(t)
                    /\ GivesBack(disk, t)
  <2>1. PICK t : Sound(t) /\ Marks(t) = {} /\ disk = serialize(t) /\ stored = {Keys(t)}
    BY <1>1 DEF SetsInv, Streamed
  <2>2. PICK d : d = disk
    OBVIOUS
  <2>3. GivesBack(d, t)
    BY <2>1, <2>2, StreamsTold
  <2> QED BY <2>1, <2>2, <2>3
<1> QED BY <1>1 DEF StreamsGiveBack

-----------------------------------------------------------------------------
(* The theorems                                                            *)

\* The calls leave room for the keys of those that follow.
SetsOK == \E n : Measure(n) /\ SetsInv(n)

LEMMA SetsAreOK ==
  ASSUME ~SerializeErased
  PROVE  Spec => []SetsOK
<1>1. PICK n : Measure(n)
  BY MeasureExists
<1>2. Init => SetsInv(n)
  BY <1>1, InitHolds
<1>3. SetsInv(n) /\ [Next]_vars => SetsInv(n)'
  BY <1>1, SetsStep
<1>4. SetsInv(n) => SetsOK
  BY <1>1 DEF SetsOK
<1> QED BY <1>2, <1>3, <1>4, PTL DEF Spec

\* Whatever calls are made, the sets that may be used, but for those assigned
\* to over marks and what was made of them, are in order: their
\* groups are packed, no key is twice in a table or out of the way of its own
\* probes, a bucket is free, and the marks of erased buckets are counted.
SetsGood ==
  \A s \in Whole : Good(ht[s]) /\ contents[s] = Keys(ht[s].table)

\* The sets are in that order in every state.
THEOREM SetsStayGood ==
  ASSUME ~SerializeErased
  PROVE  Spec => []SetsGood
<1>1. Spec => []SetsOK
  BY SetsAreOK
<1>2. SetsOK => SetsGood
  BY UsableIsGood DEF SetsOK, SetsGood
<1> QED BY <1>1, <1>2, PTL

\* Groups stay packed and of the size _sizing gives, counts and iterators
\* agree with the bitmaps.
THEOREM TypesHold ==
  ASSUME ~SerializeErased
  PROVE  Spec => []SparseTypeOK
<1>1. Spec => []SetsOK
  BY SetsAreOK
<1>2. SetsOK => SparseTypeOK
  BY TypesFollow DEF SetsOK
<1> QED BY <1>1, <1>2, PTL

\* An assignment to a set that was emptied by erasing, and what is made of such
\* a set, are the only way to marks that num_deleted does not count: otherwise
\* the assertion in _insert_at holds.
THEOREM MarksAreCounted ==
  ASSUME ~SerializeErased
  PROVE  Spec => []ErasedCounted
<1>1. Spec => []SetsOK
  BY SetsAreOK
<1>2. SetsOK => ErasedCounted
  BY CountFollows DEF SetsOK
<1> QED BY <1>1, <1>2, PTL

\* As long as the marks are counted, they never fill a table: no probe runs
\* through one without meeting a free bucket, and the assertion that the
\* hashtable is not full holds.  Only sets assigned to over their marks, and
\* what is made of them, can come to where EverySearchEnds fails.
THEOREM SearchesAlwaysEnd ==
  ASSUME ~SerializeErased
  PROVE  Spec => []SearchesEnd
<1>1. Spec => []SetsOK
  BY SetsAreOK
<1>2. SetsOK => SearchesEnd
  BY SearchesFollow DEF SetsOK
<1> QED BY <1>1, <1>2, PTL

\* The elements of a set are at any time the keys its calls put there and did
\* not take out again, each of them once.
THEOREM KeysAreKept ==
  ASSUME ~SerializeErased
  PROVE  Spec => []HoldsContents
<1>1. Spec => []SetsOK
  BY SetsAreOK
<1>2. SetsOK => HoldsContents
  BY ContentsFollow DEF SetsOK
<1> QED BY <1>1, <1>2, PTL

\* find and count see every key of a set, and no other.
THEOREM LookupsAreRight ==
  ASSUME ~SerializeErased
  PROVE  Spec => []LookupsAgree
<1>1. Spec => []SetsOK
  BY SetsAreOK
<1>2. SetsOK => LookupsAgree
  BY LookupsFollow DEF SetsOK
<1> QED BY <1>1, <1>2, PTL

\* A loop that erases while it iterates goes on with the element that followed.
THEOREM ErasingGoesOn ==
  ASSUME ~SerializeErased
  PROVE  Spec => []EraseContinues
<1>1. Spec => []SetsOK
  BY SetsAreOK
<1>2. SetsOK => EraseContinues
  BY ErasureFollows DEF SetsOK
<1> QED BY <1>1, <1>2, PTL

\* operator== tells whether two sets hold the same keys.
THEOREM EqualityIsRight ==
  ASSUME ~SerializeErased
  PROVE  Spec => []EqualityIsOfContents
<1>1. Spec => []SetsOK
  BY SetsAreOK
<1>2. SetsOK => EqualityIsOfContents
  BY EqualityFollows DEF SetsOK
<1> QED BY <1>1, <1>2, PTL

\* What serialize wrote, unserialize gives back as it was, and it refuses every
\* shorter stream and one that does not begin with the magic number.
THEOREM StreamsAreReadBack ==
  ASSUME ~SerializeErased
  PROVE  Spec => []StreamsGiveBack
<1>1. Spec => []SetsOK
  BY SetsAreOK
<1>2. SetsOK => StreamsGiveBack
  BY StreamsFollow DEF SetsOK
<1> QED BY <1>1, <1>2, PTL
=============================================================================
