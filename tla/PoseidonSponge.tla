---------------------------- MODULE PoseidonSponge ----------------------------
(***************************************************************************)
(* The hashes of PoseidonGoldilocks (poseidon_goldilocks.h and .cpp) over  *)
(* its permutation, hash_full_result_seq, which is a parameter.            *)
(*                                                                         *)
(* hash_n_to_m_no_pad, linear_hash_seq and linear_hash are sponges written *)
(* out three times: each turn of their loop absorbs a block of RATE        *)
(* elements.  They work on a local array that nothing initialises, and     *)
(* leave their result in the caller's memory, which may hold anything.     *)
(* Nothing else outlives a call, so a behaviour is one call.               *)
(***************************************************************************)
EXTENDS Integers, Sequences, FiniteSets

CONSTANTS
  RATE, CAPACITY,   \* 8 and 4 in the code
  Elements,         \* the field elements that are hashed; 0 is one
  Permute(_),       \* hash_full_result_seq, on arrays of SPONGE_WIDTH elements
  MaxSize,          \* bound on the number of elements hashed
  MaxOutputSize     \* bound on output_size

ASSUME SpongeAssumption ==
  /\ RATE \in Nat /\ CAPACITY \in Nat \ {0} /\ CAPACITY <= RATE
  /\ 0 \in Elements
  /\ MaxSize \in Nat /\ MaxOutputSize \in Nat

SPONGE_WIDTH == RATE + CAPACITY
Places == 0 .. SPONGE_WIDTH - 1      \* the places of the array

VARIABLES
  phase,         \* "called", "running" or "returned"
  call,          \* the function and its arguments
  remaining,     \* the number of elements not absorbed yet
  state,         \* the local array
  output         \* the caller's memory

vars == <<phase, call, remaining, state, output>>

-----------------------------------------------------------------------------

Sponges == {"hash_n_to_m_no_pad", "linear_hash_seq", "linear_hash"}
Linear == {"linear_hash_seq", "linear_hash"}
Truncations == {"hash_seq", "hash"}

Inputs(sizes) == UNION {[1 .. size -> Elements] : size \in sizes}

\* output_size is an argument of hash_n_to_m_no_pad only, whose output is a
\* vector of any length; the memory of the others holds a digest.
Calls ==
  [function : {"hash_n_to_m_no_pad"}, input : Inputs(0 .. MaxSize),
   output_size : 0 .. MaxOutputSize]
  \cup [function : Linear, input : Inputs(0 .. MaxSize), output_size : {CAPACITY}]
  \cup [function : Truncations, input : Inputs({SPONGE_WIDTH}),
        output_size : {CAPACITY}]

\* Memory that holds something else, the same thing everywhere.
Memory(S) == {[i \in S |-> e] : e \in Elements}

\* (Mutant: of a whole number of blocks nothing is taken.)
n_remainder == remaining % RATE

\* The number of elements the next block takes.
n == IF remaining < RATE THEN remaining ELSE RATE

Next_input(i) == call.input[Len(call.input) - remaining + i + 1]

\* (Mutant: the capacity is taken after the block has overwritten it.)
CapacityPart_late(i) ==
  IF remaining = Len(call.input) THEN 0
  ELSE IF i < n THEN Next_input(i) ELSE 0

\* The start of the array, as the last permutation left it.
CapacityPart(i) == IF remaining = Len(call.input) THEN 0 ELSE state[i]

\* (Mutant: the places a short block leaves are not cleared.)
RatePart_uncleared(i) == IF i < n THEN Next_input(i) ELSE state[i]

\* The next block, with zeros where it is short.
RatePart(i) == IF i < n THEN Next_input(i) ELSE 0

\* The linear hashes leave alone an input that is no longer than a digest.
IsShort == call.function \in Linear /\ Len(call.input) <= CAPACITY

-----------------------------------------------------------------------------

SpongeInit ==
  /\ phase = "called"
  /\ call \in Calls
  /\ remaining = Len(call.input)
  /\ state \in Memory(Places)
  /\ \E size \in IF call.function = "hash_n_to_m_no_pad"
               THEN {0, CAPACITY, MaxOutputSize} ELSE {CAPACITY} :
       output \in Memory(1 .. size)

Return(value) ==
  /\ output' = value
  /\ phase' = "returned"
  /\ UNCHANGED <<call, remaining, state>>

\* The parts before the loops.
enter ==
  /\ phase = "called"
  /\ call.function \in Sponges /\ ~IsShort
  /\ phase' = "running"
  /\ UNCHANGED <<call, remaining, state, output>>

\* linear_hash fills up with zeros, linear_hash_seq does not.
return_input ==
  /\ phase = "called"
  /\ IsShort
  /\ Return([i \in 1 .. CAPACITY |->
               IF i <= Len(call.input) THEN call.input[i]
               ELSE IF call.function = "linear_hash" THEN 0 ELSE output[i]])

\* One turn of the loop.
absorb ==
  /\ phase = "running"
  /\ remaining > 0
  /\ state' = Permute([i \in Places |->
                         IF i < RATE THEN RatePart(i) ELSE CapacityPart(i - RATE)])
  /\ remaining' = remaining - n
  /\ UNCHANGED <<phase, call, output>>

\* hash_n_to_m_no_pad resizes the vector, with zeros for what it grows by, and
\* copies as much of the array as fits.
squeeze ==
  /\ phase = "running"
  /\ call.function = "hash_n_to_m_no_pad"
  /\ remaining = 0
  /\ Return([i \in 1 .. call.output_size |->
               IF i <= SPONGE_WIDTH THEN state[i - 1]
               ELSE IF i \in DOMAIN output THEN output[i] ELSE 0])

return_digest ==
  /\ phase = "running"
  /\ call.function \in Linear
  /\ remaining = 0
  /\ Return([i \in 1 .. CAPACITY |-> state[i - 1]])

\* hash_seq and hash: the start of a permuted array.
truncate ==
  /\ phase = "called"
  /\ call.function \in Truncations
  /\ LET aux == Permute([i \in Places |-> call.input[i + 1]])
     IN  Return([i \in 1 .. CAPACITY |-> aux[i - 1]])

SpongeNext ==
  \/ enter
  \/ return_input
  \/ absorb
  \/ squeeze
  \/ return_digest
  \/ truncate

SpongeSpec == SpongeInit /\ [][SpongeNext]_vars /\ WF_vars(SpongeNext)

-----------------------------------------------------------------------------
(* Properties                                                              *)

Blocks(size) == (size + RATE - 1) \div RATE

\* The sponge by its definition: the array after the first k blocks.
Sponge(input) ==
  LET after[k \in Nat] ==
        IF k = 0 THEN [i \in Places |-> 0]
        ELSE Permute([i \in Places |->
               IF i >= RATE THEN after[k - 1][i - RATE]
               ELSE LET place == (k - 1) * RATE + i + 1
                    IN  IF place <= Len(input) THEN input[place] ELSE 0])
  IN  after

\* poseidon_goldilocks.cpp:67-87, 106-127, 147-168: whatever the array held
\* before, after each turn of the loop it is what the definition says of the
\* blocks absorbed so far, each element once and in its place.
StateIsSponge ==
  LET absorbed == Blocks(Len(call.input)) - Blocks(remaining)
  IN  call.function \in Sponges /\ absorbed > 0 =>
        /\ remaining = Len(call.input) - absorbed * RATE \/ remaining = 0
        /\ state = Sponge(call.input)[absorbed]

\* The start of the array after all blocks of the input.
Digest(input) ==
  LET final == Sponge(input)[Blocks(Len(input))] IN [i \in 1 .. CAPACITY |-> final[i - 1]]

\* poseidon_goldilocks.cpp:62-177: what a call returns depends on its input
\* only, not on the memory it finds: hash_n_to_m_no_pad gives the array of the
\* sponge, and the linear hashes agree with it, but on inputs no longer than a
\* digest, which they return.  What is excepted does depend on memory:
\* hash_n_to_m_no_pad of no elements, its output behind SPONGE_WIDTH elements,
\* and that of linear_hash_seq behind a short input.  hash and hash_seq of a
\* block and zeros are the hash of the block.
ReturnsHash ==
  phase = "returned" =>
    CASE call.function = "hash_n_to_m_no_pad" ->
           call.input # <<>> =>
             \A i \in DOMAIN output : i <= SPONGE_WIDTH =>
               output[i] = Sponge(call.input)[Blocks(Len(call.input))][i - 1]
      [] call.function \in Linear /\ Len(call.input) > CAPACITY ->
           output = Digest(call.input)
      [] call.function = "linear_hash" /\ Len(call.input) <= CAPACITY ->
           \A i \in 1 .. CAPACITY :
             output[i] = IF i <= Len(call.input) THEN call.input[i] ELSE 0
      [] call.function = "linear_hash_seq" /\ Len(call.input) <= CAPACITY ->
           SubSeq(output, 1, Len(call.input)) = call.input
      [] call.function \in Truncations ->
           (\A i \in RATE + 1 .. SPONGE_WIDTH : call.input[i] = 0) =>
             output = Digest(SubSeq(call.input, 1, RATE))

\* The loops come to an end: remaining never passes zero.
HashReturns == <>(phase = "returned")
=============================================================================
