-------------------------- MODULE PoseidonPermutation --------------------------
(***************************************************************************)
(* The permutation of Poseidon (hash_full_result_seq of                    *)
(* poseidon_goldilocks.cpp) on real words, round by round.  An element is  *)
(* the word of 8 bytes of its residue, which is what the operators of Felt *)
(* give of such words (see FeltRegister); sums of products are reduced     *)
(* once.  Arrays are sequences from index 1 on.  What is done to elements  *)
(* are functions, whose arguments TLC evaluates once.                      *)
(*                                                                         *)
(* Beside the code's elements go those of the permutation by its           *)
(* definition, which multiplies by the one matrix M in every round.        *)
(***************************************************************************)
EXTENDS ByteWords, PoseidonConstants

CONSTANT PermutationCalls   \* the calls: input and output, in numbers of 16 bits

WIDTH == 12          \* SPONGE_WIDTH
HALF_N_FULL_ROUNDS == 4
N_PARTIAL_ROUNDS == 22

(***************************************************************************)
(* Elements.                                                               *)
(***************************************************************************)
Felt(halves) ==
  [i \in 1 .. 8 |-> LET h == halves[4 - (i - 1) \div 2]
                    IN  IF i % 2 = 1 THEN h % 256 ELSE h \div 256]

Numbers == Seq(Int)

\* What is beyond 8 bytes, once or less either way, goes round: 2^64 is 2^32 - 1.
settled[sums \in Numbers] ==
  LET word == Carried(Append(sums, 0))
      over == IF word[9] = 255 THEN -1 ELSE word[9]
  IN  [i \in 1 .. 8 |-> CASE i = 1 -> word[i] - over
                          [] i = 5 -> word[i] + over
                          [] OTHER -> word[i]]

\* The residue of a word.
residue[word \in Numbers] ==
  IF (\A i \in 5 .. 8 : word[i] = 255) /\ (\E i \in 1 .. 4 : word[i] > 0)
  THEN Carried([i \in 1 .. 4 |-> word[i] - (IF i = 1 THEN 1 ELSE 0)]) \o <<0, 0, 0, 0>>
  ELSE word

\* Of the sums of up to twelve products: 2^64 is 2^32 - 1, 2^96 is -1.
reduce[sums \in Numbers] ==
  LET t == Carried(Widened(sums, 17))
  IN  residue[Carried(settled[settled[settled[
        [i \in 1 .. 8 |-> IF i <= 4 THEN t[i] - t[i + 8] - t[i + 12]
                          ELSE t[i] + t[i + 4] - (IF i = 5 THEN t[17] ELSE 0)]]]])]

sum[x, y \in Numbers] == reduce[[i \in 1 .. 8 |-> x[i] + y[i]]]
product[x, y \in Numbers] == reduce[Products(x, y, 16)]

cube[x \in Numbers] == product[x, product[x, x]]
pow7[x \in Numbers] == product[cube[x], product[product[x, x], product[x, x]]]

\* The tables, as elements; those of M are small enough for one byte.
Constants == [i \in DOMAIN C |-> Felt(C[i])]
Full == [j \in 1 .. WIDTH |-> [i \in 1 .. WIDTH |-> <<M[j][i]>>]]
Between == [j \in 1 .. WIDTH |-> [i \in 1 .. WIDTH |-> Felt(P[j][i])]]
Sparse == [i \in DOMAIN S |-> Felt(S[i])]

(***************************************************************************)
(* Rows of elements; `from` is the place in a table, counted from 0.       *)
(***************************************************************************)
Row(table, from) == SubSeq(table, from + 1, from + WIDTH)

pow7_(x) == [i \in DOMAIN x |-> pow7[x[i]]]
add_(x, c) == [i \in DOMAIN x |-> sum[x[i], c[i]]]
prod_(alpha, c) == [i \in DOMAIN c |-> product[alpha, c[i]]]

dot_[x, c \in Seq(Numbers)] ==
  LET upto[i \in 0 .. WIDTH] ==
        IF i = 0 THEN [k \in 1 .. 16 |-> 0]
        ELSE LET before == upto[i - 1]
                 term   == Products(x[i], c[i], 16)
             IN  [k \in 1 .. 16 |-> before[k] + term[k]]
  IN  reduce[upto[WIDTH]]

mvp_(x, mat) == [i \in DOMAIN x |-> dot_[x, [j \in DOMAIN x |-> mat[j][i]]]]

\* (Mutant: the column begins behind the row.)
sparse_round_behind(x, r) ==
  LET at     == (2 * WIDTH - 1) * r
      column == prod_(x[1], Row(Append(Sparse, Sparse[1]), at + WIDTH))
  IN  [add_(x, column) EXCEPT ![1] = dot_[x, Row(Sparse, at)]]

\* A partial round's product with the sparse matrix: the column is read from
\* the last number of the row on, and what that does to element 0 is replaced.
sparse_round(x, r) ==
  LET at     == (2 * WIDTH - 1) * r
      column == prod_(x[1], Row(Sparse, at + WIDTH - 1))
  IN  [add_(x, column) EXCEPT ![1] = dot_[x, Row(Sparse, at)]]

VARIABLES
  given,      \* the call: its input and output, NoInput before the first
  elements,   \* the elements of the code
  dense,      \* the elements by the definition
  round       \* rounds done

permutationVars == <<given, elements, dense, round>>

N_ROUNDS == 2 * HALF_N_FULL_ROUNDS + N_PARTIAL_ROUNDS
NoInput == [input |-> <<>>, output |-> <<>>]

PermutationInit ==
  /\ given = NoInput
  /\ elements = <<>> /\ dense = <<>>
  /\ round = N_ROUNDS

hash_full_result_seq(call_) ==
  LET x == add_([i \in 1 .. WIDTH |-> Felt(call_.input[i])], Row(Constants, 0))
  IN  /\ round = N_ROUNDS
      /\ given' = call_
      /\ elements' = x /\ dense' = x
      /\ round' = 0

\* (Mutant: the constants are added before the power.)
addpow7_(x, from) == pow7_(add_(x, Row(Constants, from)))

\* The start of a full round: a power, and the constants at a place.
pow7add_(x, from) == add_(pow7_(x), Row(Constants, from))

\* The first half of the full rounds, the last with the matrix P.
first_full_round ==
  LET from == (round + 1) * WIDTH
      last == round = HALF_N_FULL_ROUNDS - 1
  IN  /\ round < HALF_N_FULL_ROUNDS
      /\ elements' = mvp_(pow7add_(elements, from), IF last THEN Between ELSE Full)
      /\ dense' = mvp_(pow7add_(dense, from), Full)
      /\ round' = round + 1
      /\ UNCHANGED given

partial_round ==
  LET r == round - HALF_N_FULL_ROUNDS
      constant == Constants[(HALF_N_FULL_ROUNDS + 1) * WIDTH + r + 1]
      started(x) == [x EXCEPT ![1] = sum[pow7[@], constant]]
  IN  /\ r \in 0 .. N_PARTIAL_ROUNDS - 1
      /\ elements' = sparse_round(started(elements), r)
      /\ dense' = mvp_(started(dense), Full)
      /\ round' = round + 1
      /\ UNCHANGED given

\* The other half, the last without constants.
last_full_round ==
  LET r == round - HALF_N_FULL_ROUNDS - N_PARTIAL_ROUNDS
      from == (HALF_N_FULL_ROUNDS + 1 + r) * WIDTH + N_PARTIAL_ROUNDS
      middle(x) == IF r < HALF_N_FULL_ROUNDS - 1 THEN pow7add_(x, from) ELSE pow7_(x)
  IN  /\ r \in 0 .. HALF_N_FULL_ROUNDS - 1
      /\ elements' = mvp_(middle(elements), Full)
      /\ dense' = mvp_(middle(dense), Full)
      /\ round' = round + 1
      /\ UNCHANGED given

PermutationNext ==
  \/ \E c \in PermutationCalls : hash_full_result_seq(c)
  \/ first_full_round \/ partial_round \/ last_full_round

-----------------------------------------------------------------------------

\* The matrices P and S are factors of M (poseidon_goldilocks.cpp:41-52): the
\* partial rounds, which spend 23 products on what the definition spends 144,
\* feed the same element 0 to every power, and are even when they end.
SparseIsDense ==
  given # NoInput =>
    /\ elements[1] = dense[1]
    /\ round \notin HALF_N_FULL_ROUNDS .. HALF_N_FULL_ROUNDS + N_PARTIAL_ROUNDS - 1 =>
         elements = dense

\* The permutation is the one Poseidon over this field is published with,
\* whatever of its tables and their order both computations share: a circuit's
\* hashes are those of every other prover and verifier.
KnownPermutations ==
  given # NoInput /\ round = N_ROUNDS =>
    elements = [i \in 1 .. WIDTH |-> Felt(given.output[i])]
=============================================================================
