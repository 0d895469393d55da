-------------------------- MODULE GoldilocksField --------------------------
(***************************************************************************)
(* The arithmetic of the class Felt (include/circuitpp/goldilocks_field.h) *)
(* on machine words.  The code works on 64-bit words split in two halves   *)
(* of 32 bits, modulo 2^64 - 2^32 + 1.  Nothing in it depends on the       *)
(* number 2^32 but through the literals 0xffffffff, >> 32 and << 32, so    *)
(* the module is parameterised by the value HALF of a half word: 2^32 in   *)
(* the code, any integer above 1 here (HALF = 4 gives the prime 13,        *)
(* HALF = 16 the prime 241).                                               *)
(***************************************************************************)
EXTENDS Integers, Sequences

CONSTANT HALF               \* the number of values of a half word: 2^32

ASSUME HalfAssumption == HALF \in Nat /\ HALF >= 2

WORD == HALF * HALF         \* the number of values of a uint64_t
EPSILON == HALF - 1         \* the literal 0xffffffff
GOLDILOCKS_PRIME == WORD - HALF + 1

Words == 0 .. WORD - 1                       \* every uint64_t
Canonical == 0 .. GOLDILOCKS_PRIME - 1       \* the reduced words

\* Unsigned arithmetic wraps modulo the size of a word.
Wrap(x) == x % WORD

\* Felt::add: the sum and, when it wrapped, one or two corrections.
add(a, b) ==
  LET a_plus_b  == Wrap(a + b)
      c         == Wrap(a_plus_b + EPSILON)
      corrected == IF a_plus_b < a
                   THEN IF c < a_plus_b THEN Wrap(c + EPSILON) ELSE c
                   ELSE a_plus_b
  IN  IF corrected < GOLDILOCKS_PRIME THEN corrected
                                      ELSE corrected - GOLDILOCKS_PRIME

\* (Mutant: a difference below zero is not moved up.)
sub_signed(a, b) == a - b

\* Felt::sub
sub(a, b) == IF a >= b THEN a - b ELSE Wrap(a + GOLDILOCKS_PRIME - b)

\* (Mutant: the borrow of the first subtraction is not corrected.)
reduce128_without_borrow(x_hi, x_lo) ==
  LET t0 == Wrap(x_lo - x_hi \div HALF)
      t1 == (x_hi % HALF) * EPSILON
      t2 == Wrap(t0 + t1)
  IN  IF t2 < t1 THEN Wrap(t2 + EPSILON) ELSE t2

\* reduce128: a double word x_hi * WORD + x_lo to a word of the same residue.
reduce128(x_hi, x_lo) ==
  LET borrowed == Wrap(x_lo - x_hi \div HALF)
      t0       == IF borrowed > x_lo THEN Wrap(borrowed - EPSILON) ELSE borrowed
      t1       == (x_hi % HALF) * EPSILON
      t2       == Wrap(t0 + t1)
  IN  IF t2 < t1 THEN Wrap(t2 + EPSILON) ELSE t2

\* The schoolbook product of two words, as the pair of its high and low word.
product(lhs, rhs) ==
  LET a  == lhs \div HALF   b == lhs % HALF
      c  == rhs \div HALF   d == rhs % HALF
      adbc       == Wrap(a * d + b * c)
      adbc_carry == IF adbc < a * d THEN 1 ELSE 0
      lo         == Wrap(b * d + adbc * HALF)
      lo_carry   == IF lo < b * d THEN 1 ELSE 0
  IN  <<Wrap(a * c + adbc \div HALF + adbc_carry * HALF + lo_carry), lo>>

\* (Mutant: the word of 64 bits is taken for reduced.)
mul_unreduced(lhs, rhs) == LET p == product(lhs, rhs) IN reduce128(p[1], p[2])

\* Felt::mul
mul(lhs, rhs) ==
  LET p == product(lhs, rhs) IN reduce128(p[1], p[2]) % GOLDILOCKS_PRIME

\* Felt::operator== and Felt::operator<= compare the words, not the residues.
eq(a, b) == a = b
leq(a, b) == a <= b

-----------------------------------------------------------------------------
(* The powers                                                              *)

squared == [x \in Words |-> mul(x, x)]

\* (Mutant: one squaring too few.)
exp_acc_one_less(n, element, tail) ==
  LET square[i \in 1 .. n] == IF i = 1 THEN element ELSE squared[square[i - 1]]
  IN  mul(square[n], tail)

\* exp_acc<n> squares the element n times and multiplies it by tail.
exp_acc(n, element, tail) ==
  LET square[i \in 0 .. n] == IF i = 0 THEN element ELSE squared[square[i - 1]]
  IN  mul(square[n], tail)

pow7(x) == LET t2 == mul(x, x) IN mul(mul(mul(t2, t2), t2), x)

\* The calls exp_acc<n>(t, tail) of inverse, as <<n, t, tail>> where 0 is the
\* element and k the result of the k-th call: t2, t3, t6, t12, t24, t30, t31,
\* t63 and the inverse.
InverseChain ==
  << <<1, 0, 0>>, <<1, 1, 0>>, <<3, 2, 2>>, <<6, 3, 3>>, <<12, 4, 4>>,
     <<6, 5, 3>>, <<1, 6, 0>>, <<32, 7, 7>>, <<1, 8, 0>> >>

\* The power is p - 2 for the p of 64 bits; for HALF = 2, 4 and 16 it is p - 2
\* modulo p - 1, so that it inverts there as well.
inverse ==
  [x \in Words |->
     LET t[k \in 0 .. Len(InverseChain)] ==
           IF k = 0 THEN x
           ELSE LET call == InverseChain[k] IN exp_acc(call[1], t[call[2]], t[call[3]])
     IN  t[Len(InverseChain)]]
=============================================================================
