---------------------------- MODULE FeltRegister ----------------------------
(***************************************************************************)
(* A variable of class Felt (include/circuitpp/goldilocks_field.h) that    *)
(* any sequence of the class's operators is applied to, beside the residue *)
(* those operators should have computed.  inverse is modelled call by call *)
(* of exp_acc: the temporaries t2, t3, ... of its addition chain and,      *)
(* beside each, the exponent it should be the power to.                    *)
(***************************************************************************)
EXTENDS GoldilocksField

CONSTANT Values    \* the words the constructor Felt(uint64_t) is called with

ASSUME ValuesAssumption == Values \subseteq Words

VARIABLES
  inner,           \* Felt::inner
  residue,         \* the element of the prime field it should stand for
  t,               \* in a call of inverse, the results of exp_acc so far
  exponents        \* the set of the bits of each result's exponent

registerVars == <<inner, residue, t, exponents>>

Residue(word) == word % GOLDILOCKS_PRIME

FieldInverse(r) ==
  IF r = 0 THEN 0
  ELSE CHOOSE i \in Canonical : (i * r) % GOLDILOCKS_PRIME = 1

-----------------------------------------------------------------------------

RegisterInit ==
  /\ inner \in Values
  /\ residue = Residue(inner)
  /\ t = <<>>
  /\ exponents = <<>>

\* A Felt is assigned between calls of inverse.
Assign(word, element) ==
  /\ inner' = word
  /\ residue' = element % GOLDILOCKS_PRIME
  /\ t' = <<>>
  /\ exponents' = <<>>

plus(v) == t = <<>> /\ Assign(add(inner, v), residue + Residue(v))
minus(v) == t = <<>> /\ Assign(sub(inner, v), residue - Residue(v))
times(v) == t = <<>> /\ Assign(mul(inner, v), residue * Residue(v))

\* Division by zero is multiplication by the inverse of zero, which is zero.
divided(v) ==
  t = <<>> /\ Assign(mul(inner, inverse[v]), residue * FieldInverse(Residue(v)))

seventh ==
  /\ t = <<>>
  /\ LET cube == (residue * residue * residue) % GOLDILOCKS_PRIME
     IN  Assign(pow7(inner), ((cube * cube) % GOLDILOCKS_PRIME) * residue)

Value(k) == IF k = 0 THEN inner ELSE t[k]
Bits(k) == IF k = 0 THEN {0} ELSE exponents[k]

\* The next call of exp_acc.  Squaring n times moves the bits up by n places;
\* the product adds the exponents, which share no bit.
next_power ==
  LET call == InverseChain[Len(t) + 1]
      up   == {b + call[1] : b \in Bits(call[2])}
  IN
  /\ Len(t) < Len(InverseChain)
  /\ t' = Append(t, exp_acc(call[1], Value(call[2]), Value(call[3])))
  /\ exponents' = Append(exponents, up \cup Bits(call[3]))
  /\ UNCHANGED <<inner, residue>>

inverted ==
  /\ Len(t) = Len(InverseChain)
  /\ Assign(t[Len(t)], FieldInverse(residue))

RegisterNext ==
  \/ \E v \in Values : plus(v) \/ minus(v) \/ times(v) \/ divided(v)
  \/ seventh
  \/ next_power
  \/ inverted

RegisterSpec == RegisterInit /\ [][RegisterNext]_registerVars
-----------------------------------------------------------------------------
(* Properties                                                              *)

\* "Prime field" (goldilocks_field.h:27): a Felt stands for the element its
\* operators compute.
PrimeField == Residue(inner) = residue

\* No carry or borrow that is corrected by a constant leaves a word that is not
\* reduced, so that comparing the words compares the elements.
EqualityIsOfElements ==
  \A v \in Values : eq(inner, v) <=> residue = Residue(v)

FieldSquare == [x \in Canonical |-> (x * x) % GOLDILOCKS_PRIME]

\* x to the power whose bits are given, by repeated squaring in the field.
Power(x, bits) ==
  LET square[i \in 0 .. 63] == IF i = 0 THEN x ELSE FieldSquare[square[i - 1]]
      low[i \in 0 .. 64] ==
        IF i = 0 THEN 1
        ELSE IF i - 1 \in bits THEN (low[i - 1] * square[i - 1]) % GOLDILOCKS_PRIME
        ELSE low[i - 1]
  IN  low[64]

\* Every temporary of inverse (goldilocks_field.h:102-114) is the power of the
\* element its place in the chain says, with no bit of an exponent lost to a
\* carry, and the last is the power p - 2 = 2^64 - 2^32 - 1, whose bits are all
\* but the 32nd: Fermat's inverse, for the prime of 64 bits.
TemporariesArePowers ==
  t # <<>> =>
    /\ Residue(t[Len(t)]) = Power(residue, exponents[Len(t)])
    /\ Len(t) = Len(InverseChain) => exponents[Len(t)] = (0 .. 63) \ {32}
=============================================================================
