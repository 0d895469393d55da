-------------------------------- MODULE XxHash --------------------------------
(***************************************************************************)
(* xxHash (xxhash_cx.h), which gives every generator its id: the hash of   *)
(* the generator's name (core_base.h:85-88).  Both sizes, 32 and 64 bits,  *)
(* on real words.  A word is the sequence of its bytes, the lowest first,  *)
(* and a step is an iteration of one of the function's loops, so that what *)
(* a loop reads can be told from what there is.                            *)
(***************************************************************************)
EXTENDS ByteWords

CONSTANT Messages   \* the calls: bits of the hash, input, seed, and the answer

ASSUME MessagesAssumption ==
  \A c \in Messages : c.bits \in {32, 64} /\ c.input \in Seq(0 .. 255)

(***************************************************************************)
(* More arithmetic of words.                                               *)
(***************************************************************************)
Minus(x, y) == Carried([i \in DOMAIN x |-> x[i] - y[i]])

\* Of two bytes, a bit after the other.
ByteXor(a, b) ==
  LET bits[n \in 0 .. 8] ==
        IF n = 0 THEN 0
        ELSE bits[n - 1] + 2 ^ (n - 1) * ((a \div 2 ^ (n - 1) + b \div 2 ^ (n - 1)) % 2)
  IN  bits[8]

ExclusiveOr(x, y) == [i \in DOMAIN x |-> ByteXor(x[i], y[i])]

\* The byte at index i after a turn (or a shift to the right) by some bits.
rotl(n, shift) ==
  LET from(i) == ((i - 1 - shift \div 8) % Len(n)) + 1
      rest == shift % 8
  IN  [i \in DOMAIN n |-> ((n[from(i)] * 2 ^ rest) % 256)
                            + (n[from(i - 1)] \div 2 ^ (8 - rest))]

shr(n, shift) ==
  LET byte(i) == IF i <= Len(n) THEN n[i] ELSE 0
      rest == shift % 8
  IN  [i \in DOMAIN n |-> (byte(i + shift \div 8) \div 2 ^ rest)
                            + ((byte(i + shift \div 8 + 1) * 2 ^ (8 - rest)) % 256)]

\* A number below 2^16.
Number(k, width) == Widened(<<k % 256, k \div 256>>, width)

(***************************************************************************)
(* The two hashes.                                                         *)
(***************************************************************************)
primes(bits) ==
  IF bits = 32
  THEN <<<<177, 121, 55, 158>>, <<119, 202, 235, 133>>, <<61, 174, 178, 194>>,
         <<47, 235, 212, 39>>, <<177, 103, 86, 22>>>>
  ELSE <<<<135, 202, 235, 133, 177, 121, 55, 158>>, <<79, 235, 212, 39, 61, 174, 178, 194>>,
         <<249, 121, 55, 158, 177, 103, 86, 22>>, <<99, 174, 178, 194, 119, 202, 235, 133>>,
         <<197, 103, 86, 22, 47, 235, 212, 39>>>>
prime(bits, i) == primes(bits)[i + 1]

\* round: of a lane of the input into an accumulator.
Round(bits, acc, input) ==
  Times(rotl(Plus(acc, Times(input, prime(bits, 1))), IF bits = 32 THEN 13 ELSE 31),
        prime(bits, 0))

mearge_accumulator(acc, acc_n) ==
  Plus(Times(ExclusiveOr(acc, Round(64, Number(0, 8), acc_n)), prime(64, 0)), prime(64, 3))

\* (Mutant: the accumulators are not merged into the sum.)
convergence_unmerged(bits, a) ==
  Plus(Plus(rotl(a[1], 1), rotl(a[2], 7)), Plus(rotl(a[3], 12), rotl(a[4], 18)))

convergence(bits, a) ==
  LET sum == Plus(Plus(rotl(a[1], 1), rotl(a[2], 7)), Plus(rotl(a[3], 12), rotl(a[4], 18)))
      merged[n \in 0 .. 4] ==
        IF n = 0 THEN sum ELSE LET before == merged[n - 1]
                               IN  mearge_accumulator(before, a[n])
  IN  IF bits = 32 THEN sum ELSE merged[4]

final_mix(bits, acc) ==
  LET turns == IF bits = 32 THEN <<15, 13, 16>> ELSE <<33, 29, 32>>
      folded(x, turn) == ExclusiveOr(x, shr(x, turn))
      first  == Times(folded(acc, turns[1]), prime(bits, 1))
      second == Times(folded(first, turns[2]), prime(bits, 2))
  IN  folded(second, turns[3])

VARIABLES
  request,  \* the arguments of the call, NoCall before the first
  lanes,    \* the four accumulators, when the input is long
  acc,      \* the one accumulator after that
  src,      \* bytes read
  step      \* the part of the function that is going on

xxhashVars == <<request, lanes, acc, src, step>>

NoCall == [bits |-> 64, input |-> <<>>, seed |-> <<>>, answer |-> <<>>]

XxInit == /\ request = NoCall
          /\ lanes = <<>> /\ acc = <<>> /\ src = 0
          /\ step = "returned"

Width == request.bits \div 8       \* bytes of a lane
Stripe == 4 * Width                \* bytes of the four
Left == Len(request.input) - src

\* Whether a loop that reads so many bytes goes on: src <= end - bytes.
\* (Mutant: as far as the last byte.)
GoesOn_to_end(bytes) == Left > 0
GoesOn(bytes) == Left >= bytes

\* What lies behind the input is taken for zeros.
Read(at, bytes) == Widened(SubSeq(request.input, at + 1, Len(request.input)), bytes)

\* Step 1, of an input that is not null or of a null one, which is empty.
xxh(c) ==
  LET p0 == prime(c.bits, 0)
      p1 == prime(c.bits, 1)
  IN  /\ step = "returned"
      /\ request' = c
      /\ src' = 0
      /\ IF Len(c.input) >= 4 * (c.bits \div 8)
         THEN /\ lanes' = <<Plus(c.seed, Plus(p0, p1)), Plus(c.seed, p1), c.seed,
                            Minus(c.seed, p0)>>
              /\ acc' = <<>>
              /\ step' = "stripes"
         ELSE /\ lanes' = <<>>
              /\ acc' = Plus(Plus(c.seed, prime(c.bits, 4)),
                             Number(Len(c.input), c.bits \div 8))
              /\ step' = "tail"

\* Step 2: a lane for each of the accumulators.
stripe ==
  /\ step = "stripes" /\ GoesOn(Stripe)
  /\ lanes' = [k \in 1 .. 4 |-> Round(request.bits, lanes[k], Read(src + (k - 1) * Width, Width))]
  /\ src' = src + Stripe
  /\ UNCHANGED <<request, acc, step>>

\* Steps 3 and 4.
converge ==
  /\ step = "stripes" /\ ~GoesOn(Stripe)
  /\ acc' = Plus(convergence(request.bits, lanes), Number(Len(request.input), Width))
  /\ step' = "tail"
  /\ UNCHANGED <<request, lanes, src>>

\* Step 5: what is left is taken in by eight bytes (64 bits only), by four,
\* and by one.
tail_lane ==
  /\ step = "tail" /\ request.bits = 64 /\ GoesOn(8)
  /\ acc' = Plus(Times(rotl(ExclusiveOr(acc, Round(64, Number(0, 8), Read(src, 8))), 27),
                       prime(64, 0)), prime(64, 3))
  /\ src' = src + 8
  /\ UNCHANGED <<request, lanes, step>>

tail_word ==
  LET word == Widened(Read(src, 4), Width)
      P(i) == prime(request.bits, i)
  IN  /\ step = "tail" /\ (request.bits = 64 => ~GoesOn(8)) /\ GoesOn(4)
      /\ acc' = IF request.bits = 32
                THEN Times(rotl(Plus(acc, Times(word, P(2))), 17), P(3))
                ELSE Plus(Times(rotl(ExclusiveOr(acc, Times(word, P(0))), 23), P(1)), P(2))
      /\ src' = src + 4
      /\ UNCHANGED <<request, lanes, step>>

tail_byte ==
  LET taken == Times(Widened(Read(src, 1), Width), prime(request.bits, 4))
  IN  /\ step = "tail" /\ ~GoesOn(4) /\ GoesOn(1)
      /\ acc' = Times(rotl(IF request.bits = 32 THEN Plus(acc, taken) ELSE ExclusiveOr(acc, taken),
                           11), prime(request.bits, 0))
      /\ src' = src + 1
      /\ UNCHANGED <<request, lanes, step>>

\* Steps 6 and 7.
return_hash ==
  /\ step = "tail" /\ ~GoesOn(1)
  /\ acc' = final_mix(request.bits, acc)
  /\ step' = "returned"
  /\ UNCHANGED <<request, lanes, src>>

XxNext ==
  \/ \E c \in Messages : xxh(c)
  \/ stripe \/ converge \/ tail_lane \/ tail_word \/ tail_byte \/ return_hash

XxSpec == XxInit /\ [][XxNext]_xxhashVars
-----------------------------------------------------------------------------

\* The function gives the words xxHash is published with, for inputs that take
\* every one of its loops: the ids of generators are the same in every build,
\* and for every program that names them.
KnownHashes == step = "returned" /\ request # NoCall => acc = request.answer

\* A loop reads nothing behind the input, and the input is read to its end
\* (xxhash_cx.h:290, 315-333: limits are pointers before the end).
ReadsInside ==
  /\ src <= Len(request.input)
  /\ step = "returned" => src = Len(request.input)
=============================================================================
