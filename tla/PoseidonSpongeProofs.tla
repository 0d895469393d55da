------------------------ MODULE PoseidonSpongeProofs ------------------------
(***************************************************************************)
(* The three sponges of PoseidonGoldilocks compute the one sponge of the   *)
(* definition, for every rate, capacity and permutation and every length   *)
(* of the input, and what a call returns is its result.                    *)
(***************************************************************************)
EXTENDS PoseidonSponge, SequenceTheorems, WellFoundedInduction, TLAPS

-----------------------------------------------------------------------------
(* The sponge by its definition                                            *)

\* A set of naturals has a least element: the induction on the blocks.
LEMMA LeastNatural ==
  ASSUME NEW T \in SUBSET Nat, T # {}
  PROVE  \E x \in T : \A y \in T : x <= y
<1> DEFINE R == OpToRel(<, Nat)
<1>1. IsWellFoundedOn(R, Nat)
  BY NatLessThanWellFounded
<1>2. \A x, y \in Nat : y < x => <<y, x>> \in R
  BY DEF OpToRel
<1> HIDE DEF R
<1>3. PICK x \in T : \A y \in T : ~ (<<y, x>> \in R)
  <2>1. \E x \in T : \A y \in T : ~ (<<y, x>> \in R)
    BY <1>1, WFMin
  <2> QED BY <2>1
<1>4. ASSUME NEW y \in T
      PROVE  x <= y
  <2>1. x \in Nat /\ y \in Nat
    OBVIOUS
  <2>2. ~(y < x)
    BY <1>2, <1>3, <2>1
  <2> QED BY <2>1, <2>2
<1> QED BY <1>4

\* The array before the first block.
Zeros == [i \in Places |-> 0]

\* The array after the k-th block, from the array before it.
AfterBlock(input, k, before) ==
  Permute([i \in Places |->
             IF i >= RATE THEN before[i - RATE]
             ELSE LET place == (k - 1) * RATE + i + 1
                  IN  IF place <= Len(input) THEN input[place] ELSE 0])

\* f holds the arrays after the first m blocks.
AreArrays(f, m, input) ==
  \A k \in 0 .. m : f[k] = IF k = 0 THEN Zeros ELSE AfterBlock(input, k, f[k - 1])

\* Such arrays exist.
LEMMA ArraysExist ==
  ASSUME NEW input, NEW m \in Nat
  PROVE  \E f : AreArrays(f, m, input)
<1> DEFINE T == {j \in Nat : ~ \E f : AreArrays(f, j, input)}
<1>1. SUFFICES T = {}
  OBVIOUS
<1>2. SUFFICES ASSUME T # {}
               PROVE  FALSE
  OBVIOUS
<1>3. PICK j \in T : \A y \in T : j <= y
  <2>1. T \in SUBSET Nat
    OBVIOUS
  <2> HIDE DEF T
  <2> QED BY <1>2, <2>1, LeastNatural
<1>4. j \in Nat /\ ~ \E f : AreArrays(f, j, input)
  OBVIOUS
<1>5. CASE j = 0
  <2> DEFINE f == [k \in {0} |-> Zeros]
  <2>1. f[0] = Zeros
    OBVIOUS
  <2> HIDE DEF f
  <2>2. AreArrays(f, j, input)
    BY <1>5, <2>1 DEF AreArrays
  <2> QED BY <1>4, <2>2
<1>6. CASE j # 0
  <2>1. j - 1 \in Nat /\ j - 1 \notin T
    <3>1. j - 1 \in Nat /\ ~(j <= j - 1)
      BY <1>4, <1>6
    <3> QED BY <1>3, <3>1
  <2>2. PICK g : AreArrays(g, j - 1, input)
    BY <2>1
  <2> DEFINE f == [k \in 0 .. j |->
                     IF k = j THEN AfterBlock(input, j, g[j - 1]) ELSE g[k]]
  <2>3. \A k \in 0 .. j :
          f[k] = IF k = j THEN AfterBlock(input, j, g[j - 1]) ELSE g[k]
    OBVIOUS
  <2> HIDE DEF f
  <2>4. ASSUME NEW k \in 0 .. j
        PROVE  f[k] = IF k = 0 THEN Zeros ELSE AfterBlock(input, k, f[k - 1])
    <3>1. CASE k = j
      <4>1. f[k - 1] = g[j - 1] /\ f[k] = AfterBlock(input, j, g[j - 1])
        BY <1>4, <1>6, <2>3, <3>1
      <4> QED BY <1>6, <3>1, <4>1
    <3>2. CASE k # j
      <4>1. k \in 0 .. j - 1 /\ f[k] = g[k]
        BY <1>4, <2>3, <3>2
      <4>2. g[k] = IF k = 0 THEN Zeros ELSE AfterBlock(input, k, g[k - 1])
        BY <2>2, <4>1 DEF AreArrays
      <4>3. k # 0 => f[k - 1] = g[k - 1]
        BY <1>4, <2>3, <4>1
      <4> QED BY <4>1, <4>2, <4>3
    <3> QED BY <3>1, <3>2
  <2>5. AreArrays(f, j, input)
    BY <2>4 DEF AreArrays
  <2> QED BY <1>4, <2>5
<1> QED BY <1>5, <1>6

\* And are determined.
LEMMA ArraysAgree ==
  ASSUME NEW input, NEW m \in Nat, NEW f, NEW g,
         AreArrays(f, m, input), AreArrays(g, m, input)
  PROVE  \A k \in 0 .. m : f[k] = g[k]
<1> DEFINE T == {k \in 0 .. m : f[k] # g[k]}
<1>1. SUFFICES ASSUME T # {}
               PROVE  FALSE
  OBVIOUS
<1>2. PICK k \in T : \A y \in T : k <= y
  <2>1. T \in SUBSET Nat
    OBVIOUS
  <2> HIDE DEF T
  <2> QED BY <1>1, <2>1, LeastNatural
<1>3. k \in 0 .. m /\ f[k] # g[k]
  OBVIOUS
<1>4. /\ f[k] = IF k = 0 THEN Zeros ELSE AfterBlock(input, k, f[k - 1])
      /\ g[k] = IF k = 0 THEN Zeros ELSE AfterBlock(input, k, g[k - 1])
  BY <1>3 DEF AreArrays
<1>5. k # 0
  BY <1>3, <1>4
<1>6. k - 1 \in 0 .. m /\ ~(k <= k - 1)
  BY <1>3, <1>5
<1>7. f[k - 1] = g[k - 1]
  BY <1>2, <1>6
<1> QED BY <1>3, <1>4, <1>7

\* The recursive definition of the sponge is one.
LEMMA SpongeIs ==
  ASSUME NEW input
  PROVE  /\ Sponge(input)[0] = Zeros
         /\ \A k \in Nat \ {0} :
              Sponge(input)[k] = AfterBlock(input, k, Sponge(input)[k - 1])
<1> DEFINE arrays(m) == CHOOSE f : AreArrays(f, m, input)
           g == [k \in Nat |-> arrays(k)[k]]
           Step(h) == [k \in Nat |->
                         IF k = 0 THEN [i \in Places |-> 0]
                         ELSE Permute([i \in Places |->
                                IF i >= RATE THEN h[k - 1][i - RATE]
                                ELSE LET place == (k - 1) * RATE + i + 1
                                     IN  IF place <= Len(input) THEN input[place] ELSE 0])]
<1>1. \A m \in Nat : AreArrays(arrays(m), m, input)
  BY ArraysExist
<1> HIDE DEF arrays
<1>2. ASSUME NEW k \in Nat
      PROVE  g[k] = IF k = 0 THEN Zeros ELSE AfterBlock(input, k, g[k - 1])
  <2>1. g[k] = arrays(k)[k]
    OBVIOUS
  <2>2. arrays(k)[k] = IF k = 0 THEN Zeros ELSE AfterBlock(input, k, arrays(k)[k - 1])
    BY <1>1 DEF AreArrays
  <2>3. ASSUME k # 0
        PROVE  arrays(k)[k - 1] = g[k - 1]
    <3>1. k - 1 \in Nat /\ g[k - 1] = arrays(k - 1)[k - 1]
      BY <2>3
    <3>2. AreArrays(arrays(k), k - 1, input)
      BY <1>1, <3>1 DEF AreArrays
    <3>3. AreArrays(arrays(k - 1), k - 1, input)
      BY <1>1, <3>1
    <3>4. k - 1 \in 0 .. k - 1
      BY <3>1
    <3> QED BY <3>1, <3>2, <3>3, <3>4, ArraysAgree
  <2> QED BY <2>1, <2>2, <2>3
<1>3. g = [k \in Nat |-> g[k]]
  OBVIOUS
<1> HIDE DEF g
<1>4. g = Step(g)
  BY <1>2, <1>3 DEF Zeros, AfterBlock
<1>5. Sponge(input) = Step(Sponge(input))
  BY <1>4 DEF Sponge
<1> QED BY <1>5 DEF Zeros, AfterBlock

-----------------------------------------------------------------------------
(* The calls                                                               *)

\* What a call is.
LEMMA CallsAre ==
  ASSUME NEW c \in Calls
  PROVE  /\ c.function \in Sponges \cup Truncations
         /\ \E size \in Nat : c.input \in [1 .. size -> Elements]
         /\ c.function \in Truncations => c.input \in [1 .. SPONGE_WIDTH -> Elements]
         /\ c.function \in Linear \cup Truncations => c.output_size = CAPACITY
         /\ c.output_size \in Nat
<1>1. RATE \in Nat /\ CAPACITY \in Nat /\ SPONGE_WIDTH \in Nat
      /\ MaxSize \in Nat /\ MaxOutputSize \in Nat
  BY SpongeAssumption DEF SPONGE_WIDTH
<1>2. /\ \A x \in Inputs(0 .. MaxSize) : \E size \in Nat : x \in [1 .. size -> Elements]
      /\ \A x \in Inputs({SPONGE_WIDTH}) : x \in [1 .. SPONGE_WIDTH -> Elements]
  BY <1>1 DEF Inputs
<1>3. \/ /\ c.function = "hash_n_to_m_no_pad"
         /\ c.input \in Inputs(0 .. MaxSize) /\ c.output_size \in 0 .. MaxOutputSize
      \/ /\ c.function \in Linear
         /\ c.input \in Inputs(0 .. MaxSize) /\ c.output_size = CAPACITY
      \/ /\ c.function \in Truncations
         /\ c.input \in Inputs({SPONGE_WIDTH}) /\ c.output_size = CAPACITY
  BY DEF Calls
<1>4. CASE c.function = "hash_n_to_m_no_pad"
  BY <1>1, <1>2, <1>3, <1>4 DEF Sponges, Linear, Truncations
<1>5. CASE c.function \in Linear
  BY <1>1, <1>2, <1>3, <1>5 DEF Sponges, Linear, Truncations
<1>6. CASE c.function \in Truncations
  BY <1>1, <1>2, <1>3, <1>6 DEF Sponges, Linear, Truncations
<1> QED BY <1>3, <1>4, <1>5, <1>6

\* The number of blocks is that of the multiples of RATE up to the size.
LEMMA BlocksAre ==
  ASSUME NEW size \in Nat, NEW k \in Nat
  PROVE  /\ size = k * RATE => Blocks(size) = k
         /\ k > 0 /\ (k - 1) * RATE < size /\ size <= k * RATE => Blocks(size) = k
         /\ k * RATE <= size => Blocks(size - k * RATE) = Blocks(size) - k
<1>1. RATE \in Nat \ {0}
  BY SpongeAssumption
<1>2. \A q \in Int : \A r \in 0 .. RATE - 1 : (q * RATE + r) \div RATE = q
  BY <1>1
<1>3. PICK x : x = k * RATE
  OBVIOUS
<1>4. x \in Nat /\ (k - 1) * RATE = x - RATE /\ (k - 1) * RATE \in Int
  BY <1>1, <1>3
<1>5. ASSUME x - RATE < size, size <= x
      PROVE  Blocks(size) = k
  <2>1. size + RATE - 1 = k * RATE + (size + RATE - 1 - x)
    BY <1>1, <1>3, <1>4
  <2>2. size + RATE - 1 - x \in 0 .. RATE - 1
    BY <1>1, <1>4, <1>5
  <2> QED BY <1>2, <2>1, <2>2 DEF Blocks
<1>6. ASSUME x <= size
      PROVE  Blocks(size - x) = Blocks(size) - k
  <2>1. PICK y : y = size - x + RATE - 1
    OBVIOUS
  <2>2. y \in Int
    BY <1>1, <1>4, <2>1
  <2>3. PICK q, r : q = y \div RATE /\ r = y % RATE
    OBVIOUS
  <2>4. q \in Int /\ r \in 0 .. RATE - 1 /\ y = q * RATE + r
    BY <1>1, <2>2, <2>3
  <2>5. size + RATE - 1 = (q + k) * RATE + r
    <3>1. (q + k) * RATE = q * RATE + x
      BY <1>1, <1>3, <2>4
    <3> QED BY <1>1, <1>4, <2>1, <2>4, <3>1
  <2>6. Blocks(size) = q + k
    BY <1>2, <2>4, <2>5 DEF Blocks
  <2>7. Blocks(size - x) = q
    BY <2>1, <2>3 DEF Blocks
  <2> QED BY <2>4, <2>6, <2>7
<1>7. size = x => x - RATE < size /\ size <= x
  BY <1>1, <1>4
<1> QED BY <1>3, <1>4, <1>5, <1>6, <1>7

\* The array of a sponge that has absorbed k blocks of its input.
Absorbed(k) ==
  /\ k = 0 => remaining = Len(call.input)
  /\ k > 0 => /\ call.function \in Sponges
              /\ state = Sponge(call.input)[k]
              /\ (k - 1) * RATE < Len(call.input)
  /\ \/ remaining = Len(call.input) - k * RATE
     \/ remaining = 0 /\ Len(call.input) <= k * RATE

\* What a call that returns has computed.
ResultOK ==
  /\ call.function \in Sponges /\ ~IsShort =>
       remaining = 0 /\ output = [i \in 1 .. call.output_size |->
                                    IF i <= SPONGE_WIDTH THEN state[i - 1] ELSE output[i]]
  /\ IsShort => /\ SubSeq(output, 1, Len(call.input)) = call.input
                /\ call.function = "linear_hash" =>
                     \A i \in 1 .. CAPACITY :
                       output[i] = IF i <= Len(call.input) THEN call.input[i] ELSE 0
  /\ call.function \in Truncations =>
       output = [i \in 1 .. CAPACITY |->
                   Permute([j \in Places |-> call.input[j + 1]])[i - 1]]

\* The invariant: a loop turns until nothing remains, and what was absorbed is
\* a number of whole blocks but for the last.
SpongeOK ==
  /\ phase \in {"called", "running", "returned"}
  /\ call \in Calls
  /\ remaining \in Nat
  /\ \E k \in Nat : Absorbed(k)
  /\ phase = "running" => call.function \in Sponges /\ ~IsShort
  /\ phase = "returned" => ResultOK

\* Facts about the parameters and the input in one place.
LEMMA Typing ==
  ASSUME call \in Calls
  PROVE  /\ RATE \in Nat \ {0} /\ CAPACITY \in Nat \ {0} /\ CAPACITY <= RATE
         /\ SPONGE_WIDTH = RATE + CAPACITY
         /\ Len(call.input) \in Nat
         /\ call.input \in [1 .. Len(call.input) -> Elements]
         /\ call.input \in Seq(Elements)
<1>1. PICK size \in Nat : call.input \in [1 .. size -> Elements]
  BY CallsAre
<1>2. call.input \in Seq(Elements) /\ Len(call.input) = size
  BY <1>1, LenProperties
<1> QED BY <1>1, <1>2, SpongeAssumption DEF SPONGE_WIDTH

\* No block of a call is absorbed yet.
LEMMA SpongeInitOK == SpongeInit => SpongeOK
<1> SUFFICES ASSUME SpongeInit
             PROVE  SpongeOK
  OBVIOUS
<1>1. phase = "called" /\ call \in Calls /\ remaining = Len(call.input)
  BY DEF SpongeInit
<1>2. Len(call.input) \in Nat /\ RATE \in Nat
  BY <1>1, Typing
<1>3. Absorbed(0)
  <2>1. Len(call.input) - 0 * RATE = Len(call.input)
    <3>1. PICK len : len = Len(call.input)
      OBVIOUS
    <3>2. len \in Nat
      BY <1>2, <3>1
    <3>3. len - 0 * RATE = len
      BY <1>2, <3>2
    <3> QED BY <3>1, <3>3
  <2> QED BY <1>1, <2>1 DEF Absorbed
<1> QED BY <1>1, <1>2, <1>3 DEF SpongeOK

\* One turn of the loop absorbs one block.
LEMMA AbsorbStep ==
  ASSUME SpongeOK, absorb
  PROVE  SpongeOK'
<1>1. /\ RATE \in Nat \ {0} /\ CAPACITY \in Nat \ {0} /\ CAPACITY <= RATE
      /\ SPONGE_WIDTH = RATE + CAPACITY
  BY SpongeAssumption DEF SPONGE_WIDTH
<1>2. PICK c, len, left, taken :
        /\ c = call /\ len = Len(call.input) /\ left = remaining /\ taken = n
  OBVIOUS
<1>3. /\ c \in Calls /\ c.function \in Sponges /\ len \in Nat /\ left \in Nat
      /\ left > 0 /\ taken = (IF left < RATE THEN left ELSE RATE)
      /\ phase = "running" /\ ~IsShort
  BY <1>2, Typing DEF SpongeOK, absorb, n
<1>4. PICK k \in Nat : Absorbed(k)
  BY DEF SpongeOK
<1>5. PICK x : x = k * RATE
  OBVIOUS
<1>6. x \in Nat /\ left = len - x
  <2>1. x \in Nat
    BY <1>1, <1>5
  <2> QED BY <1>2, <1>3, <1>4, <1>5, <2>1 DEF Absorbed
<1>7. k = 0 <=> left = len
  BY <1>1, <1>3, <1>5, <1>6
<1>8. state' = AfterBlock(c.input, k + 1, Sponge(c.input)[k])
  <2>1. state' = Permute([i \in Places |->
                            IF i < RATE THEN RatePart(i) ELSE CapacityPart(i - RATE)])
    BY DEF absorb
  <2>2. ASSUME NEW i \in Places
        PROVE  (IF i < RATE THEN RatePart(i) ELSE CapacityPart(i - RATE))
                 = IF i >= RATE THEN Sponge(c.input)[k][i - RATE]
                   ELSE LET place == (k + 1 - 1) * RATE + i + 1
                        IN  IF place <= Len(c.input) THEN c.input[place] ELSE 0
    <3>1. i \in 0 .. RATE + CAPACITY - 1
      BY <1>1 DEF Places
    <3>2. CASE i < RATE
      <4>1. (k + 1 - 1) * RATE + i + 1 = x + i + 1
        BY <1>1, <1>5, <3>1
      <4>2. i < taken <=> x + i + 1 <= len
        BY <1>1, <1>3, <1>6, <3>1, <3>2
      <4>3. RatePart(i) = IF i < taken THEN c.input[x + i + 1] ELSE 0
        <5>1. Len(call.input) - remaining + i + 1 = x + i + 1
          BY <1>2, <1>3, <1>6, <3>1
        <5> QED BY <1>2, <5>1 DEF RatePart, Next_input
      <4> QED BY <1>1, <1>2, <3>1, <3>2, <4>1, <4>2, <4>3
    <3>3. CASE i >= RATE
      <4>1. CapacityPart(i - RATE) = IF left = len THEN 0 ELSE state[i - RATE]
        BY <1>2 DEF CapacityPart
      <4>2. k > 0 => state = Sponge(c.input)[k]
        BY <1>2, <1>4 DEF Absorbed
      <4>3. i - RATE \in Places
        BY <1>1, <3>1, <3>3 DEF Places
      <4>4. Sponge(c.input)[0][i - RATE] = 0
        BY <4>3, SpongeIs DEF Zeros
      <4>5. CapacityPart(i - RATE) = Sponge(c.input)[k][i - RATE]
        BY <1>7, <4>1, <4>2, <4>4
      <4> QED BY <1>1, <3>1, <3>3, <4>5
    <3> QED BY <1>1, <3>1, <3>2, <3>3
  <2> QED BY <2>1, <2>2 DEF AfterBlock
<1>9. state' = Sponge(c.input)[k + 1]
  <2>1. k + 1 \in Nat \ {0} /\ k + 1 - 1 = k
    OBVIOUS
  <2> QED BY <1>8, <2>1, SpongeIs
<1>10. remaining' = left - taken /\ call' = c /\ phase' = "running"
  BY <1>2, <1>3 DEF absorb
<1>11. /\ left - taken \in Nat
       /\ \/ left - taken = len - (x + RATE)
          \/ left - taken = 0 /\ len <= x + RATE
  BY <1>1, <1>3, <1>6
<1>12. Absorbed(k + 1)'
  <2>1. (k + 1) * RATE = x + RATE /\ (k + 1 - 1) * RATE = x /\ k + 1 > 0
    BY <1>1, <1>5
  <2>2. x < len
    BY <1>3, <1>6
  <2>3. Len(call'.input) = len
    BY <1>2, <1>10
  <2> QED BY <1>3, <1>9, <1>10, <1>11, <2>1, <2>2, <2>3 DEF Absorbed
<1>13. ~IsShort'
  BY <1>2, <1>3, <1>10 DEF IsShort
<1> QED BY <1>3, <1>10, <1>11, <1>12, <1>13 DEF SpongeOK

\* A step that leaves the array and what remains leaves what was absorbed.
LEMMA AbsorbedStays ==
  ASSUME SpongeOK, UNCHANGED <<call, remaining, state>>
  PROVE  call' \in Calls /\ remaining' \in Nat /\ \E k \in Nat : Absorbed(k)'
<1>1. PICK k \in Nat : Absorbed(k)
  BY DEF SpongeOK
<1>2. Absorbed(k)'
  BY <1>1 DEF Absorbed
<1> QED BY <1>2 DEF SpongeOK

\* The start of an array that holds a sequence in its first places.
LEMMA StartOfArray ==
  ASSUME NEW S, NEW x \in Seq(S), NEW o, \A i \in 1 .. Len(x) : o[i] = x[i]
  PROVE  SubSeq(o, 1, Len(x)) = x
<1>1. PICK size : size = Len(x)
  OBVIOUS
<1>2. size \in Nat /\ \A i \in 1 .. size : o[i] \in S /\ x[i] \in S
  BY <1>1, LenProperties
<1>3. PICK s : s = SubSeq(o, 1, size)
  OBVIOUS
<1>4. /\ s \in Seq(S)
      /\ Len(s) = IF 1 <= size THEN size - 1 + 1 ELSE 0
      /\ \A i \in 1 .. size - 1 + 1 : s[i] = o[1 + i - 1]
  BY <1>2, <1>3, SubSeqProperties
<1>5. Len(s) = size /\ \A i \in 1 .. size : s[i] = x[i]
  BY <1>1, <1>2, <1>4
<1> QED BY <1>1, <1>3, <1>4, <1>5, SeqEqual

\* Every step of a call keeps the invariant.
LEMMA SpongeStep ==
  ASSUME SpongeOK, [SpongeNext]_vars
  PROVE  SpongeOK'
<1> USE DEF Sponges, Linear, Truncations
<1>1. ASSUME enter
      PROVE  SpongeOK'
  <2>1. UNCHANGED <<call, remaining, state>> /\ phase' = "running"
    BY <1>1 DEF enter
  <2>2. call'.function \in Sponges /\ ~IsShort'
    BY <1>1, <2>1 DEF enter, IsShort
  <2> QED BY <2>1, <2>2, AbsorbedStays DEF SpongeOK
<1>2. ASSUME return_input
      PROVE  SpongeOK'
  <2>1. /\ UNCHANGED <<call, remaining, state>> /\ phase' = "returned"
        /\ IsShort
        /\ output' = [i \in 1 .. CAPACITY |->
                        IF i <= Len(call.input) THEN call.input[i]
                        ELSE IF call.function = "linear_hash" THEN 0 ELSE output[i]]
    BY <1>2 DEF return_input, Return
  <2>2. call \in Calls
    BY DEF SpongeOK
  <2>3. /\ CAPACITY \in Nat /\ Len(call.input) \in Nat /\ Len(call.input) <= CAPACITY
        /\ call.input \in Seq(Elements)
    BY <2>1, <2>2, Typing DEF IsShort
  <2>4. SubSeq(output', 1, Len(call.input)) = call.input
    <3>1. PICK size, x, o : size = Len(call.input) /\ x = call.input /\ o = output'
      OBVIOUS
    <3>2. \A i \in 1 .. size : o[i] = x[i]
      BY <2>1, <2>3, <3>1
    <3>3. x \in Seq(Elements) /\ Len(x) = size
      BY <2>3, <3>1
    <3>4. SubSeq(o, 1, size) = x
      BY <3>2, <3>3, StartOfArray
    <3> QED BY <3>1, <3>4
  <2>5. call.function = "linear_hash" =>
          \A i \in 1 .. CAPACITY :
            output'[i] = IF i <= Len(call.input) THEN call.input[i] ELSE 0
    BY <2>1
  <2>6. ResultOK'
    BY <2>1, <2>4, <2>5 DEF ResultOK, IsShort
  <2> QED BY <2>1, <2>6, AbsorbedStays DEF SpongeOK
<1>3. ASSUME absorb
      PROVE  SpongeOK'
  BY <1>3, AbsorbStep
<1>4. ASSUME squeeze
      PROVE  SpongeOK'
  <2>1. /\ UNCHANGED <<call, remaining, state>> /\ phase' = "returned"
        /\ call.function = "hash_n_to_m_no_pad" /\ remaining = 0
        /\ output' = [i \in 1 .. call.output_size |->
                        IF i <= SPONGE_WIDTH THEN state[i - 1]
                        ELSE IF i \in DOMAIN output THEN output[i] ELSE 0]
    BY <1>4 DEF squeeze, Return
  <2>2. output' = [i \in 1 .. call.output_size |->
                     IF i <= SPONGE_WIDTH THEN state[i - 1] ELSE output'[i]]
    BY <2>1
  <2>3. ResultOK'
    BY <2>1, <2>2 DEF ResultOK, IsShort
  <2> QED BY <2>1, <2>3, AbsorbedStays DEF SpongeOK
<1>5. ASSUME return_digest
      PROVE  SpongeOK'
  <2>1. /\ UNCHANGED <<call, remaining, state>> /\ phase' = "returned"
        /\ call.function \in Linear /\ remaining = 0 /\ phase = "running"
        /\ output' = [i \in 1 .. CAPACITY |-> state[i - 1]]
    BY <1>5 DEF return_digest, Return
  <2>2. call \in Calls /\ ~IsShort
    BY <2>1 DEF SpongeOK
  <2>3. call.output_size = CAPACITY
    BY <2>1, <2>2, CallsAre
  <2>4. \A i \in 1 .. CAPACITY : i <= SPONGE_WIDTH
    BY SpongeAssumption DEF SPONGE_WIDTH
  <2>5. output' = [i \in 1 .. call.output_size |->
                     IF i <= SPONGE_WIDTH THEN state[i - 1] ELSE output'[i]]
    BY <2>1, <2>3, <2>4
  <2>6. ResultOK'
    BY <2>1, <2>2, <2>5 DEF ResultOK, IsShort
  <2> QED BY <2>1, <2>6, AbsorbedStays DEF SpongeOK
<1>6. ASSUME truncate
      PROVE  SpongeOK'
  <2>1. /\ UNCHANGED <<call, remaining, state>> /\ phase' = "returned"
        /\ call.function \in Truncations
        /\ output' = [i \in 1 .. CAPACITY |->
                        Permute([j \in Places |-> call.input[j + 1]])[i - 1]]
    BY <1>6 DEF truncate, Return
  <2>2. ResultOK'
    BY <2>1 DEF ResultOK, IsShort
  <2> QED BY <2>1, <2>2, AbsorbedStays DEF SpongeOK
<1>7. CASE UNCHANGED vars
  <2>1. UNCHANGED <<phase, call, remaining, state, output>>
    BY <1>7 DEF vars
  <2>2. ResultOK => ResultOK'
    BY <2>1 DEF ResultOK, IsShort
  <2>3. ~IsShort => ~IsShort'
    BY <2>1 DEF IsShort
  <2> QED BY <2>1, <2>2, <2>3, AbsorbedStays DEF SpongeOK
<1> QED BY <1>1, <1>2, <1>3, <1>4, <1>5, <1>6, <1>7 DEF SpongeNext

\* The number of blocks absorbed, from what remains.
LEMMA AbsorbedIsBlocks ==
  ASSUME SpongeOK, NEW k \in Nat, Absorbed(k)
  PROVE  Blocks(Len(call.input)) - Blocks(remaining) = k /\ Blocks(remaining) \in Nat
<1>1. PICK len, left : len = Len(call.input) /\ left = remaining
  OBVIOUS
<1>2. len \in Nat /\ left \in Nat /\ RATE \in Nat \ {0}
  BY <1>1, Typing DEF SpongeOK
<1>3. Blocks(0) = 0
  <2>1. 0 = 0 * RATE
    BY <1>2
  <2> QED BY <2>1, BlocksAre
<1>4. \A size \in Nat : Blocks(size) \in Nat
  <2>1. \A size \in Nat : size + RATE - 1 \in Nat
    BY <1>2
  <2>2. \A y \in Nat : y \div RATE \in Nat
    BY <1>2
  <2> QED BY <2>1, <2>2 DEF Blocks
<1>5. CASE left = len - k * RATE
  <2>1. k * RATE \in Nat /\ k * RATE <= len
    BY <1>2, <1>5
  <2>2. Blocks(left) = Blocks(len) - k
    BY <1>2, <1>5, <2>1, BlocksAre
  <2>3. PICK all, rest \in Nat : all = Blocks(len) /\ rest = Blocks(left)
    BY <1>2, <1>4
  <2>4. rest = all - k
    BY <2>2, <2>3
  <2> QED BY <1>1, <2>3, <2>4
<1>6. CASE left = 0 /\ len <= k * RATE
  <2>1. CASE k = 0
    <3>1. left = len
      BY <1>1, <2>1 DEF Absorbed
    <3> QED BY <1>1, <1>3, <1>6, <2>1, <3>1
  <2>2. CASE k > 0
    <3>1. (k - 1) * RATE < len
      BY <1>1, <2>2 DEF Absorbed
    <3>2. Blocks(len) = k
      BY <1>2, <1>6, <2>2, <3>1, BlocksAre
    <3> QED BY <1>1, <1>3, <1>6, <3>2
  <2> QED BY <2>1, <2>2
<1> QED BY <1>1, <1>5, <1>6 DEF Absorbed

\* The invariant has what StateIsSponge says of the blocks absorbed.
LEMMA SpongeOKGivesState == SpongeOK => StateIsSponge
<1> SUFFICES ASSUME SpongeOK
             PROVE  StateIsSponge
  OBVIOUS
<1>1. PICK k \in Nat : Absorbed(k)
  BY DEF SpongeOK
<1>2. Blocks(Len(call.input)) - Blocks(remaining) = k
  BY <1>1, AbsorbedIsBlocks
<1>3. k > 0 => state = Sponge(call.input)[k]
  BY <1>1 DEF Absorbed
<1>4. remaining = Len(call.input) - k * RATE \/ remaining = 0
  BY <1>1 DEF Absorbed
<1> QED BY <1>2, <1>3, <1>4 DEF StateIsSponge

\* When nothing remains of an input that had something, the array is that of
\* all its blocks.
LEMMA FinalArray ==
  ASSUME SpongeOK, remaining = 0, Len(call.input) > 0
  PROVE  state = Sponge(call.input)[Blocks(Len(call.input))]
<1>1. PICK k \in Nat : Absorbed(k)
  BY DEF SpongeOK
<1>2. k # 0
  <2>1. PICK len : len = Len(call.input) /\ len > 0 /\ remaining # len
    OBVIOUS
  <2> QED BY <1>1, <2>1 DEF Absorbed
<1>3. state = Sponge(call.input)[k]
  BY <1>1, <1>2 DEF Absorbed
<1>4. PICK b : b = Blocks(Len(call.input))
  OBVIOUS
<1>5. b - Blocks(0) = k /\ Blocks(0) = 0
  <2>1. 0 = 0 * RATE /\ RATE \in Nat \ {0}
    BY SpongeAssumption
  <2> QED BY <1>1, <1>4, <2>1, AbsorbedIsBlocks, BlocksAre
<1>6. b \in Int
  <2>1. Len(call.input) \in Nat /\ RATE \in Nat \ {0}
    BY Typing DEF SpongeOK
  <2>2. Len(call.input) + RATE - 1 \in Int
    BY <2>1
  <2>3. \A y \in Int : y \div RATE \in Int
    BY <2>1
  <2> QED BY <1>4, <2>2, <2>3 DEF Blocks
<1>7. b = k
  BY <1>5, <1>6
<1> QED BY <1>3, <1>4, <1>7

\* hash and hash_seq of a block and zeros permute the first array of its
\* sponge.
LEMMA TruncationIsDigest ==
  ASSUME call \in Calls, call.function \in Truncations,
         \A i \in RATE + 1 .. SPONGE_WIDTH : call.input[i] = 0
  PROVE  Digest(SubSeq(call.input, 1, RATE))
           = [i \in 1 .. CAPACITY |->
                Permute([j \in Places |-> call.input[j + 1]])[i - 1]]
<1>1. /\ RATE \in Nat \ {0} /\ CAPACITY \in Nat \ {0} /\ CAPACITY <= RATE
      /\ SPONGE_WIDTH = RATE + CAPACITY
  BY SpongeAssumption DEF SPONGE_WIDTH
<1>2. PICK input, block : input = call.input /\ block = SubSeq(input, 1, RATE)
  OBVIOUS
<1>3. input \in [1 .. SPONGE_WIDTH -> Elements]
  BY <1>2, CallsAre
<1>4. Len(block) = RATE /\ \A i \in 1 .. RATE : block[i] = input[i]
  <2>1. \A i \in 1 .. RATE : input[i] \in Elements
    BY <1>1, <1>3
  <2>2. /\ Len(block) = IF 1 <= RATE THEN RATE - 1 + 1 ELSE 0
        /\ \A i \in 1 .. RATE - 1 + 1 : block[i] = input[1 + i - 1]
    BY <1>1, <1>2, <2>1, SubSeqProperties
  <2> QED BY <1>1, <2>2
<1>5. Blocks(Len(block)) = 1
  <2>1. RATE = 1 * RATE
    BY <1>1
  <2> QED BY <1>1, <1>4, <2>1, BlocksAre
<1>6. Sponge(block)[1] = AfterBlock(block, 1, Zeros)
  BY SpongeIs
<1>7. AfterBlock(block, 1, Zeros) = Permute([j \in Places |-> input[j + 1]])
  <2>1. ASSUME NEW i \in Places
        PROVE  (IF i >= RATE THEN Zeros[i - RATE]
                ELSE LET place == (1 - 1) * RATE + i + 1
                     IN  IF place <= Len(block) THEN block[place] ELSE 0)
                 = input[i + 1]
    <3>1. i \in 0 .. RATE + CAPACITY - 1
      BY <1>1 DEF Places
    <3>2. CASE i >= RATE
      <4>1. i - RATE \in Places
        BY <1>1, <3>1, <3>2 DEF Places
      <4>2. i + 1 \in RATE + 1 .. SPONGE_WIDTH
        BY <1>1, <3>1, <3>2
      <4> QED BY <1>2, <3>2, <4>1, <4>2 DEF Zeros
    <3>3. CASE ~(i >= RATE)
      <4>1. (1 - 1) * RATE + i + 1 = i + 1 /\ i + 1 \in 1 .. RATE
        BY <1>1, <3>1, <3>3
      <4> QED BY <1>1, <1>4, <3>3, <4>1
    <3> QED BY <3>2, <3>3
  <2> QED BY <2>1 DEF AfterBlock
<1> QED BY <1>2, <1>5, <1>6, <1>7 DEF Digest

\* The invariant has what ReturnsHash says of the result.
LEMMA SpongeOKGivesResult == SpongeOK => ReturnsHash
<1> SUFFICES ASSUME SpongeOK, phase = "returned"
             PROVE  ReturnsHash
  BY DEF ReturnsHash
<1> USE DEF Sponges, Linear, Truncations
<1>1. call \in Calls /\ ResultOK
  BY DEF SpongeOK
<1>2. /\ RATE \in Nat \ {0} /\ CAPACITY \in Nat \ {0} /\ CAPACITY <= RATE
      /\ SPONGE_WIDTH = RATE + CAPACITY
      /\ Len(call.input) \in Nat /\ call.input \in Seq(Elements)
  BY <1>1, Typing
<1>3. CASE call.function = "hash_n_to_m_no_pad"
  <2>1. /\ remaining = 0
        /\ output = [i \in 1 .. call.output_size |->
                       IF i <= SPONGE_WIDTH THEN state[i - 1] ELSE output[i]]
    BY <1>1, <1>3 DEF ResultOK, IsShort
  <2>2. ASSUME call.input # <<>>, NEW i \in DOMAIN output, i <= SPONGE_WIDTH
        PROVE  output[i] = Sponge(call.input)[Blocks(Len(call.input))][i - 1]
    <3>1. Len(call.input) > 0
      <4>1. PICK len : len = Len(call.input)
        OBVIOUS
      <4>2. len # 0
        BY <1>2, <2>2, <4>1, EmptySeq
      <4>3. len \in Nat
        BY <1>2, <4>1
      <4> QED BY <4>1, <4>2, <4>3
    <3>2. output[i] = state[i - 1]
      BY <2>1, <2>2
    <3>3. state = Sponge(call.input)[Blocks(Len(call.input))]
      BY <2>1, <3>1, FinalArray
    <3> QED BY <3>2, <3>3
  <2> QED BY <1>3, <2>2 DEF ReturnsHash
<1>4. CASE call.function \in Linear /\ Len(call.input) > CAPACITY
  <2>1. ~(Len(call.input) <= CAPACITY) /\ ~IsShort
    <3>1. PICK len : len = Len(call.input)
      OBVIOUS
    <3>2. len \in Nat /\ len > CAPACITY
      BY <1>2, <1>4, <3>1
    <3>3. ~(len <= CAPACITY)
      BY <1>2, <3>2
    <3> QED BY <3>1, <3>3 DEF IsShort
  <2>2. /\ remaining = 0
        /\ output = [i \in 1 .. call.output_size |->
                       IF i <= SPONGE_WIDTH THEN state[i - 1] ELSE output[i]]
    BY <1>1, <1>4, <2>1 DEF ResultOK
  <2>3. call.output_size = CAPACITY
    BY <1>1, <1>4, CallsAre
  <2>4. \A i \in 1 .. CAPACITY : i <= SPONGE_WIDTH
    BY <1>2
  <2>5. output = [i \in 1 .. CAPACITY |-> state[i - 1]]
    BY <2>2, <2>3, <2>4
  <2>6. Len(call.input) > 0
    <3>1. PICK len : len = Len(call.input)
      OBVIOUS
    <3>2. len \in Nat /\ len > CAPACITY
      BY <1>2, <1>4, <3>1
    <3>3. len > 0
      BY <1>2, <3>2
    <3> QED BY <3>1, <3>3
  <2>7. state = Sponge(call.input)[Blocks(Len(call.input))]
    BY <2>2, <2>6, FinalArray
  <2>8. output = Digest(call.input)
    BY <2>5, <2>7 DEF Digest
  <2> QED BY <1>4, <2>1, <2>8 DEF ReturnsHash
<1>5. CASE call.function = "linear_hash" /\ Len(call.input) <= CAPACITY
  <2>1. \A i \in 1 .. CAPACITY :
          output[i] = IF i <= Len(call.input) THEN call.input[i] ELSE 0
    BY <1>1, <1>5 DEF ResultOK, IsShort
  <2> QED BY <1>5, <2>1 DEF ReturnsHash
<1>6. CASE call.function = "linear_hash_seq" /\ Len(call.input) <= CAPACITY
  <2>1. SubSeq(output, 1, Len(call.input)) = call.input
    BY <1>1, <1>6 DEF ResultOK, IsShort
  <2> QED BY <1>6, <2>1 DEF ReturnsHash
<1>7. CASE call.function \in Truncations
  <2>1. output = [i \in 1 .. CAPACITY |->
                    Permute([j \in Places |-> call.input[j + 1]])[i - 1]]
    BY <1>1, <1>7 DEF ResultOK
  <2>2. (\A i \in RATE + 1 .. SPONGE_WIDTH : call.input[i] = 0) =>
          output = Digest(SubSeq(call.input, 1, RATE))
    BY <1>1, <1>7, <2>1, TruncationIsDigest
  <2> QED BY <1>7, <2>2 DEF ReturnsHash
<1>8. Len(call.input) > CAPACITY \/ Len(call.input) <= CAPACITY
  BY <1>2
<1>9. call.function \in Sponges \cup Truncations
  BY <1>1, CallsAre
<1> QED BY <1>3, <1>4, <1>5, <1>6, <1>7, <1>8, <1>9

\* poseidon_goldilocks.cpp:67-87, 106-127, 147-168: after each turn of a loop
\* the array is that of the sponge by its definition, whatever it held before
\* and whatever the permutation is.
THEOREM LoopsAreSponges == SpongeSpec => []StateIsSponge
<1>1. SpongeInit => SpongeOK
  BY SpongeInitOK
<1>2. SpongeOK /\ [SpongeNext]_vars => SpongeOK'
  BY SpongeStep
<1>3. SpongeOK => StateIsSponge
  BY SpongeOKGivesState
<1> QED BY <1>1, <1>2, <1>3, PTL DEF SpongeSpec

\* poseidon_goldilocks.cpp:62-177: the five functions return the hash of the
\* definition, for inputs of every length, whatever memory holds at the call.
THEOREM HashesAreDigests == SpongeSpec => []ReturnsHash
<1>1. SpongeInit => SpongeOK
  BY SpongeInitOK
<1>2. SpongeOK /\ [SpongeNext]_vars => SpongeOK'
  BY SpongeStep
<1>3. SpongeOK => ReturnsHash
  BY SpongeOKGivesResult
<1> QED BY <1>1, <1>2, <1>3, PTL DEF SpongeSpec

=============================================================================
