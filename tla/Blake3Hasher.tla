----------------------------- MODULE Blake3Hasher -----------------------------
(***************************************************************************)
(* The incremental hasher of blake3 (source/blake3): a message fed in      *)
(* pieces of any length is cut into chunks, the chunks are the leaves of a *)
(* binary tree, and the chaining values (CVs) of finished subtrees wait on *)
(* a stack.  cored.h computes the identity of every operation with it.     *)
(*                                                                         *)
(* The compression function is not computed here (see Blake3Compress): its *)
(* value is the record of its arguments, so that two values are equal only *)
(* if everything that went into them is.  A CV and a key are OUT_LEN       *)
(* bytes; a byte is a number of its own, or one of a compression's bytes.  *)
(* Flags are a set.                                                        *)
(***************************************************************************)
EXTENDS Integers, Sequences, SequencesExt

CONSTANTS
  SIZE_BITS,        \* the bits of a size_t and of a uint64_t (64)
  BLOCK_LEN,        \* BLAKE3_BLOCK_LEN (64)
  CHUNK_LEN,        \* BLAKE3_CHUNK_LEN (1024)
  MAX_DEPTH,        \* BLAKE3_MAX_DEPTH (54): a message has 2^54 chunks at most
  Keys,             \* the keys of keyed hashing
  ContextLengths    \* lengths of the contexts of key derivation

OUT_LEN == BLOCK_LEN \div 2

power_of_two[n \in 0 .. SIZE_BITS - 1] == IF n = 0 THEN 1 ELSE 2 * power_of_two[n - 1]

PowersOfTwo == {power_of_two[n] : n \in 0 .. SIZE_BITS - 1}

MaxLength == CHUNK_LEN * power_of_two[MAX_DEPTH]

ASSUME HasherAssumption ==
  /\ SIZE_BITS \in Nat /\ MAX_DEPTH \in 0 .. SIZE_BITS - 1
  /\ BLOCK_LEN \in PowersOfTwo \ {1}
  /\ CHUNK_LEN \in PowersOfTwo /\ BLOCK_LEN <= CHUNK_LEN
  /\ ContextLengths \subseteq 0 .. MaxLength

(***************************************************************************)
(* The compression function and its bytes.                                 *)
(***************************************************************************)
Zeros == [i \in 1 .. BLOCK_LEN |-> 0]
IV == [i \in 1 .. OUT_LEN |-> "IV"]

compress_xof(cv, block, block_len, counter, flags) ==
  LET node == [cv |-> cv, block |-> block, len |-> block_len,
               counter |-> counter, flags |-> flags]
  IN  [i \in 1 .. BLOCK_LEN |-> [of |-> node, byte |-> i]]

\* The words of the result are the first ones of compress_xof.
compress_in_place(cv, block, block_len, counter, flags) ==
  SubSeq(compress_xof(cv, block, block_len, counter, flags), 1, OUT_LEN)

make_output(cv, block, block_len, counter, flags) ==
  [input_cv |-> cv, block |-> block, block_len |-> block_len,
   counter |-> counter, flags |-> flags]

output_chaining_value(o) ==
  compress_in_place(o.input_cv, o.block, o.block_len, o.counter, o.flags)

\* The bytes from seek on: from the middle of a block, then of whole blocks,
\* each compressed with its number for a counter.
output_root_bytes(o, seek, out_len) ==
  LET offset == seek % BLOCK_LEN
      blocks == (offset + out_len + BLOCK_LEN - 1) \div BLOCK_LEN
      wide(b) == compress_xof(o.input_cv, o.block, o.block_len,
                              seek \div BLOCK_LEN + b - 1, o.flags \cup {"ROOT"})
      first(b) == IF b = 1 THEN offset ELSE 0
      left(b) == IF b = 1 THEN out_len
                 ELSE out_len - (BLOCK_LEN - offset) - (b - 2) * BLOCK_LEN
      available(b) == BLOCK_LEN - first(b)
      taken(b) == IF left(b) > available(b) THEN available(b) ELSE left(b)
  IN  FlattenSeq([b \in 1 .. blocks |->
                    SubSeq(wide(b), first(b) + 1, first(b) + taken(b))])

(***************************************************************************)
(* The state of a chunk.                                                   *)
(***************************************************************************)
Drop(input, n) == SubSeq(input, n + 1, Len(input))
Piece(input, n, length) == SubSeq(input, (n - 1) * length + 1, n * length)

chunk_state_init(key, flags, chunk_counter) ==
  [cv |-> key, chunk_counter |-> chunk_counter, buf |-> Zeros, buf_len |-> 0,
   blocks_compressed |-> 0, flags |-> flags]

chunk_state_reset(self, key, chunk_counter) ==
  [self EXCEPT !.cv = key, !.chunk_counter = chunk_counter, !.buf = Zeros,
               !.buf_len = 0, !.blocks_compressed = 0]

chunk_state_len(self) == BLOCK_LEN * self.blocks_compressed + self.buf_len

\* How much of the input still goes into the buffer.
Take(self, input) ==
  IF BLOCK_LEN - self.buf_len > Len(input) THEN Len(input)
  ELSE BLOCK_LEN - self.buf_len

chunk_state_fill_buf(self, input) ==
  LET take == Take(self, input)
  IN  [self EXCEPT
         !.buf = [i \in DOMAIN @ |->
                    IF i \in self.buf_len + 1 .. self.buf_len + take
                    THEN input[i - self.buf_len] ELSE @[i]],
         !.buf_len = @ + take]

chunk_state_maybe_start_flag(self) ==
  IF self.blocks_compressed = 0 THEN {"CHUNK_START"} ELSE {}

\* (Mutant: every block is the start of its chunk.)
AddBlock_all_start(self, block) ==
  [self EXCEPT
     !.cv = compress_in_place(@, block, BLOCK_LEN, self.chunk_counter,
                              self.flags \cup {"CHUNK_START"}),
     !.blocks_compressed = @ + 1]

AddBlock(self, block) ==
  [self EXCEPT
     !.cv = compress_in_place(@, block, BLOCK_LEN, self.chunk_counter,
                              self.flags \cup chunk_state_maybe_start_flag(self)),
     !.blocks_compressed = @ + 1]

\* A full block is compressed only when more input follows: the last one needs
\* the flag of the chunk's end.
chunk_state_update(self, input) ==
  LET take    == IF self.buf_len > 0 THEN Take(self, input) ELSE 0
      more    == Drop(input, take)
      full    == chunk_state_fill_buf(self, SubSeq(input, 1, take))
      flushed == IF self.buf_len > 0 /\ more # <<>>
                 THEN [AddBlock(full, full.buf) EXCEPT !.buf_len = 0, !.buf = Zeros]
                 ELSE full
      blocks  == IF more = <<>> THEN 0 ELSE (Len(more) - 1) \div BLOCK_LEN
      after[n \in 0 .. blocks] ==
        IF n = 0 THEN flushed
        ELSE LET before == after[n - 1]
             IN  AddBlock(before, Piece(more, n, BLOCK_LEN))
  IN  chunk_state_fill_buf(after[blocks], Drop(more, blocks * BLOCK_LEN))

chunk_state_output(self) ==
  make_output(self.cv, self.buf, self.buf_len, self.chunk_counter,
              self.flags \cup chunk_state_maybe_start_flag(self) \cup {"CHUNK_END"})

parent_output(block, key, flags) ==
  make_output(key, block, BLOCK_LEN, 0, flags \cup {"PARENT"})

(***************************************************************************)
(* Subtrees hashed at once.                                                *)
(***************************************************************************)
popcnt(x) == Cardinality({i \in 0 .. SIZE_BITS - 1 : (x \div power_of_two[i]) % 2 = 1})

round_down_to_power_of_2(x) == IF x = 0 THEN 1 ELSE Max({p \in PowersOfTwo : p <= x})

left_len(content_len) ==
  round_down_to_power_of_2((content_len - 1) \div CHUNK_LEN) * CHUNK_LEN

blake3_simd_degree == 1
MAX_SIMD_DEGREE_OR_2 == 2

hash_one(input, key, counter, flags, flags_start, flags_end) ==
  LET blocks == Len(input) \div BLOCK_LEN
      flagged(n) == flags \cup (IF n = 1 THEN flags_start ELSE {})
                          \cup (IF n = blocks THEN flags_end ELSE {})
      cv[n \in 0 .. blocks] ==
        IF n = 0 THEN key
        ELSE compress_in_place(cv[n - 1], Piece(input, n, BLOCK_LEN), BLOCK_LEN,
                               counter, flagged(n))
  IN  cv[blocks]

hash_many(inputs, key, counter, increment_counter, flags, flags_start, flags_end) ==
  [n \in DOMAIN inputs |->
     hash_one(inputs[n], key, IF increment_counter THEN counter + n - 1 ELSE counter,
              flags, flags_start, flags_end)]

\* (Mutant: the chunk that is not full is numbered as the first.)
compress_chunks_parallel_uncounted(input, key, chunk_counter, flags) ==
  LET chunks == Len(input) \div CHUNK_LEN
      rest   == Drop(input, chunks * CHUNK_LEN)
      state  == chunk_state_update(chunk_state_init(key, flags, 0), rest)
      cvs    == hash_many([n \in 1 .. chunks |-> Piece(input, n, CHUNK_LEN)], key,
                          0, TRUE, flags, {"CHUNK_START"}, {"CHUNK_END"})
  IN  IF rest = <<>> THEN cvs
      ELSE Append(cvs, output_chaining_value(chunk_state_output(state)))

compress_chunks_parallel(input, key, chunk_counter, flags) ==
  LET chunks == Len(input) \div CHUNK_LEN
      rest   == Drop(input, chunks * CHUNK_LEN)
      state  == chunk_state_update(
                  chunk_state_init(key, flags, chunk_counter + chunks), rest)
      cvs    == hash_many([n \in 1 .. chunks |-> Piece(input, n, CHUNK_LEN)], key,
                          chunk_counter, TRUE, flags, {"CHUNK_START"}, {"CHUNK_END"})
  IN  IF rest = <<>> THEN cvs
      ELSE Append(cvs, output_chaining_value(chunk_state_output(state)))

\* (Mutant: an odd child is forgotten.)
compress_parents_parallel_even(cvs, key, flags) ==
  hash_many([n \in 1 .. Len(cvs) \div 2 |-> cvs[2 * n - 1] \o cvs[2 * n]],
            key, 0, FALSE, flags \cup {"PARENT"}, {}, {})

\* An odd child goes up as it is.
compress_parents_parallel(cvs, key, flags) ==
  LET pairs   == Len(cvs) \div 2
      parents == hash_many([n \in 1 .. pairs |-> cvs[2 * n - 1] \o cvs[2 * n]],
                           key, 0, FALSE, flags \cup {"PARENT"}, {}, {})
  IN  parents \o Drop(cvs, 2 * pairs)

\* The right half's values are written behind the place for `degree` values of
\* the left half.
compress_halves(left, right, left_input_len, key, flags) ==
  LET degree == IF left_input_len > CHUNK_LEN /\ blake3_simd_degree = 1
                THEN 2 ELSE blake3_simd_degree
      unset == [n \in 1 .. degree - Len(left) |-> Zeros]
      cv_array == left \o unset \o right
  IN  IF Len(left) = 1 THEN SubSeq(cv_array, 1, 2)
      ELSE compress_parents_parallel(SubSeq(cv_array, 1, Len(left) + Len(right)),
                                     key, flags)

\* wide[length][at] is what the recursive function gives of the bytes from chunk
\* at on.
compress_subtree_wide(input, key, chunk_counter, flags) ==
  LET wide[length \in 1 .. Len(input)] ==
        [at \in 0 .. (Len(input) - length) \div CHUNK_LEN |->
           IF length <= blake3_simd_degree * CHUNK_LEN
           THEN compress_chunks_parallel(
                  SubSeq(input, at * CHUNK_LEN + 1, at * CHUNK_LEN + length), key,
                  chunk_counter + at, flags)
           ELSE LET left_input_len == left_len(length)
                IN  compress_halves(
                      wide[left_input_len][at],
                      wide[length - left_input_len][at + left_input_len \div CHUNK_LEN],
                      left_input_len, key, flags)]
  IN  wide[Len(input)][0]

\* The loop that condenses the values is not compiled: there are two.
compress_subtree_to_parent_node(input, key, chunk_counter, flags) ==
  SubSeq(compress_subtree_wide(input, key, chunk_counter, flags), 1, 2)

(***************************************************************************)
(* The hasher.                                                             *)
(***************************************************************************)
hasher_init_base(key, flags) ==
  [key |-> key, chunk |-> chunk_state_init(key, flags, 0), cv_stack |-> <<>>]

\* The two values on top become one, until there is one for every bit.
hasher_merge_cv_stack(self, total_len) ==
  LET merges == Len(self.cv_stack) - popcnt(total_len)
      after[n \in 0 .. merges] ==
        IF n = 0 THEN self.cv_stack
        ELSE LET before == after[n - 1]
                 below  == Len(before) - 2
             IN  Append(SubSeq(before, 1, below), output_chaining_value(
                   parent_output(before[below + 1] \o before[below + 2],
                                 self.key, self.chunk.flags)))
  IN  IF merges > 0 THEN [self EXCEPT !.cv_stack = after[merges]] ELSE self

\* (Mutant: merged as the reference implementation does, as if more were to come.)
hasher_push_cv_eager(self, new_cv, chunk_counter) ==
  hasher_merge_cv_stack([self EXCEPT !.cv_stack = Append(@, new_cv)], chunk_counter + 1)

hasher_push_cv(self, new_cv, chunk_counter) ==
  LET merged == hasher_merge_cv_stack(self, chunk_counter)
  IN  [merged EXCEPT !.cv_stack = Append(@, new_cv)]

\* The largest subtree at the front of the input that is whole, and that the
\* bytes so far are a multiple of.
SubtreeLen(self, input_len) ==
  LET count_so_far == self.chunk.chunk_counter * CHUNK_LEN
  IN  Max({p \in PowersOfTwo :
             p <= round_down_to_power_of_2(input_len) /\ count_so_far % p = 0})

\* A subtree of one chunk is pushed as one value, a larger one as two.
PushSubtree(self, input, subtree_len) ==
  LET counter == self.chunk.chunk_counter
      chunk   == chunk_state_update(
                   chunk_state_init(self.key, self.chunk.flags, counter), input)
      pair    == compress_subtree_to_parent_node(input, self.key, counter,
                                                 self.chunk.flags)
      chunks  == subtree_len \div CHUNK_LEN
      pushed  == IF subtree_len <= CHUNK_LEN
                 THEN hasher_push_cv(self,
                        output_chaining_value(chunk_state_output(chunk)), counter)
                 ELSE hasher_push_cv(hasher_push_cv(self, pair[1], counter),
                                     pair[2], counter + chunks \div 2)
  IN  [pushed EXCEPT !.chunk.chunk_counter = @ + chunks]

\* The loop of blake3_hasher_update, its chunk state being clear: each turn
\* takes a subtree of a chunk or more, while there is more than a chunk left.
UpdateSubtrees(self, input) ==
  LET turns == Len(input) \div CHUNK_LEN
      turn[n \in 0 .. turns] ==
        IF n = 0 THEN [hasher |-> self, at |-> 0]
        ELSE LET before == turn[n - 1]
                 subtree_len == SubtreeLen(before.hasher, Len(input) - before.at)
                 next == before.at + subtree_len
             IN  IF Len(input) - before.at <= CHUNK_LEN THEN before
                 ELSE [hasher |-> PushSubtree(before.hasher,
                                    SubSeq(input, before.at + 1, next), subtree_len),
                       at |-> next]
      pushed == turn[turns].hasher
      rest == Drop(input, turn[turns].at)
  IN  IF rest = <<>> THEN pushed
      ELSE hasher_merge_cv_stack([pushed EXCEPT !.chunk = chunk_state_update(@, rest)],
                                 pushed.chunk.chunk_counter)

blake3_hasher_update(self, input) ==
  LET partial == chunk_state_len(self.chunk)
      take    == IF CHUNK_LEN - partial > Len(input) THEN Len(input)
                 ELSE CHUNK_LEN - partial
      filled  == [self EXCEPT !.chunk =
                    chunk_state_update(@, SubSeq(input, 1, take))]
      pushed  == hasher_push_cv(filled,
                   output_chaining_value(chunk_state_output(filled.chunk)),
                   filled.chunk.chunk_counter)
      cleared == [pushed EXCEPT !.chunk =
                    chunk_state_reset(@, self.key, @.chunk_counter + 1)]
  IN  IF input = <<>> THEN self
      ELSE IF partial = 0 THEN UpdateSubtrees(self, input)
      ELSE IF take = Len(input) THEN filled
      ELSE UpdateSubtrees(cleared, Drop(input, take))

\* The stack is rolled up from its top, the root is compressed last.
blake3_hasher_finalize_seek(self, seek, out_len) ==
  LET stack  == self.cv_stack
      buffered == chunk_state_len(self.chunk) > 0
      remaining == IF buffered THEN Len(stack) ELSE Len(stack) - 2
      first  == IF buffered \/ stack = <<>> THEN chunk_state_output(self.chunk)
                ELSE parent_output(stack[remaining + 1] \o stack[remaining + 2],
                                   self.key, self.chunk.flags)
      up[n \in 0 .. remaining] ==
        IF n = 0 THEN first
        ELSE parent_output(stack[remaining - n + 1] \o output_chaining_value(up[n - 1]),
                           self.key, self.chunk.flags)
      root == IF stack = <<>> THEN first ELSE up[remaining]
  IN  IF out_len = 0 THEN <<>> ELSE output_root_bytes(root, seek, out_len)

blake3_hasher_finalize(self, out_len) == blake3_hasher_finalize_seek(self, 0, out_len)

blake3_hasher_reset(self) ==
  [self EXCEPT !.chunk = chunk_state_reset(@, self.key, 0), !.cv_stack = <<>>]

\* blake3_hasher_init, init_keyed and init_derive_key.  The bytes of a context
\* are numbered downwards from -1.
Context(n) == [i \in 1 .. n |-> -i]

blake3_hasher_init == hasher_init_base(IV, {})
blake3_hasher_init_keyed(key) == hasher_init_base(key, {"KEYED_HASH"})
blake3_hasher_init_derive_key(n) ==
  LET context == blake3_hasher_update(hasher_init_base(IV, {"DERIVE_KEY_CONTEXT"}),
                                      Context(n))
  IN  hasher_init_base(blake3_hasher_finalize(context, OUT_LEN),
                       {"DERIVE_KEY_MATERIAL"})

(***************************************************************************)
(* A hasher in use: it is made, fed and reset; finalizing changes nothing. *)
(* The bytes of the message are numbered from 1.                           *)
(***************************************************************************)
VARIABLES
  mode,       \* how the hasher was made: its key or context
  hasher,
  fed         \* bytes fed since it was made or reset

hasherVars == <<mode, hasher, fed>>

Modes == {[kind |-> "plain"]} \cup {[kind |-> "keyed", key |-> key] : key \in Keys}
           \cup {[kind |-> "derive", context |-> n] : n \in ContextLengths}

Made(m) ==
  CASE m.kind = "plain"  -> blake3_hasher_init
    [] m.kind = "keyed"  -> blake3_hasher_init_keyed(m.key)
    [] m.kind = "derive" -> blake3_hasher_init_derive_key(m.context)

HasherInit == /\ mode \in Modes
              /\ hasher = Made(mode)
              /\ fed = 0

Update(n) ==
  /\ fed + n <= MaxLength
  /\ hasher' = blake3_hasher_update(hasher, [i \in 1 .. n |-> fed + i])
  /\ fed' = fed + n
  /\ UNCHANGED mode

Reset ==
  /\ hasher' = blake3_hasher_reset(hasher)
  /\ fed' = 0
  /\ UNCHANGED mode

HasherNext == Reset \/ \E n \in 0 .. MaxLength : Update(n)

HasherSpec == HasherInit /\ [][HasherNext]_hasherVars
-----------------------------------------------------------------------------
(* Properties.  What BLAKE3 is, told without a hasher: the tree over the    *)
(* whole message, whose left subtrees are full and as large as they can be. *)

FirstBytes(node) == [i \in 1 .. OUT_LEN |-> [of |-> node, byte |-> i]]

\* The blocks of a chunk are chained, the last one is padded with zeros.
TreeChunk(key, flags, byte, chunk, length) ==
  LET from == chunk * CHUNK_LEN
      last == IF length = 0 THEN 0 ELSE (length - 1) \div BLOCK_LEN
      block(n) == [i \in 1 .. BLOCK_LEN |->
                     IF n * BLOCK_LEN + i <= length THEN byte[from + n * BLOCK_LEN + i] ELSE 0]
      node(cv, n, len, end) ==
        [cv |-> cv, block |-> block(n), len |-> len, counter |-> chunk,
         flags |-> flags \cup (IF n = 0 THEN {"CHUNK_START"} ELSE {}) \cup end]
      link[n \in 0 .. last] ==
        IF n = 0 THEN key ELSE FirstBytes(node(link[n - 1], n - 1, BLOCK_LEN, {}))
  IN  node(link[last], last, length - last * BLOCK_LEN, {"CHUNK_END"})

\* Tree(key, flags, byte)[length][chunk] is the node over so many bytes of a
\* message, from a chunk on.
Tree(key, flags, byte) ==
  LET tree[length \in 0 .. MaxLength] ==
        [chunk \in 0 .. (MaxLength - length) \div CHUNK_LEN |->
           LET chunks == (length + CHUNK_LEN - 1) \div CHUNK_LEN
               half   == CHOOSE p \in PowersOfTwo : p < chunks /\ chunks <= 2 * p
               size   == half * CHUNK_LEN
           IN  IF chunks <= 1 THEN TreeChunk(key, flags, byte, chunk, length)
               ELSE [cv |-> key,
                     block |-> FirstBytes(tree[size][chunk])
                                 \o FirstBytes(tree[length - size][chunk + half]),
                     len |-> BLOCK_LEN, counter |-> 0, flags |-> flags \cup {"PARENT"}]]
  IN  tree

Message == [i \in 1 .. MaxLength |-> i]

\* The endless output: blocks of the root, by their number.
TreeByte(root, i) ==
  [of |-> [root EXCEPT !.counter = i \div BLOCK_LEN, !.flags = @ \cup {"ROOT"}],
   byte |-> (i % BLOCK_LEN) + 1]

TreeKey(m) ==
  CASE m.kind = "plain"  -> IV
    [] m.kind = "keyed"  -> m.key
    [] m.kind = "derive" ->
         LET root == Tree(IV, {"DERIVE_KEY_CONTEXT"}, Context(MaxLength))[m.context][0]
         IN  [i \in 1 .. OUT_LEN |-> TreeByte(root, i - 1)]

TreeFlags(m) ==
  CASE m.kind = "plain"  -> {}
    [] m.kind = "keyed"  -> {"KEYED_HASH"}
    [] m.kind = "derive" -> {"DERIVE_KEY_MATERIAL"}

\* The hash is a function of the message alone: however the message was cut
\* into updates, and whatever part of the output is asked for, finalize
\* (blake3.cpp:573) gives the bytes of the tree over it.
DigestIsOfTree ==
  LET root == Tree(TreeKey(mode), TreeFlags(mode), Message)[fed][0]
  IN  \A seek \in {0, 1, BLOCK_LEN - 1, BLOCK_LEN}, out_len \in {0, 1, OUT_LEN, 2 * BLOCK_LEN} :
        blake3_hasher_finalize_seek(hasher, seek, out_len)
          = [i \in 1 .. out_len |-> TreeByte(root, seek + i - 1)]

\* What finalize reads of the stack is there (blake3.cpp:602, "There are always
\* at least 2 CVs in the stack in this case"), and lazy merging has left
\* nothing unmerged behind a chunk in progress, nor more values than the stack
\* of MAX_DEPTH + 1 has room for (blake3.h:30).
StackAwaitsMore ==
  LET partial == chunk_state_len(hasher.chunk)
      depth   == Len(hasher.cv_stack)
  IN  /\ fed = hasher.chunk.chunk_counter * CHUNK_LEN + partial
      /\ depth <= MAX_DEPTH + 1
      /\ partial > 0 => depth = popcnt(hasher.chunk.chunk_counter)
      /\ partial = 0 => depth # 1

\* The values on the stack are those of the subtrees that the number of chunks
\* has bits for, the top one possibly still in its two halves.
StackHoldsSubtrees ==
  LET chunks == hasher.chunk.chunk_counter
      depth  == Len(hasher.cv_stack)
      tree   == Tree(TreeKey(mode), TreeFlags(mode), Message)
      sizes[n \in 0 .. depth] ==      \* the chunks of the n lowest subtrees
        IF n = 0 THEN 0
        ELSE LET below == sizes[n - 1]
                 next  == round_down_to_power_of_2(chunks - below)
             IN  IF below + next = chunks /\ n < depth
                 THEN below + next \div 2 ELSE below + next
  IN  /\ sizes[depth] = chunks
      /\ \A n \in 1 .. depth :
           hasher.cv_stack[n] =
             FirstBytes(tree[(sizes[n] - sizes[n - 1]) * CHUNK_LEN][sizes[n - 1]])

\* compress_subtree_wide never gives more values than the caller has room for
\* (assert(num_cvs <= MAX_SIMD_DEGREE_OR_2), blake3.cpp:344) nor, of more than a
\* chunk, fewer than the two that keep it from compressing the root.
SubtreesGivePairs ==
  fed > CHUNK_LEN =>
    Len(compress_subtree_wide([i \in 1 .. fed |-> i], hasher.key, 0,
                              hasher.chunk.flags)) = MAX_SIMD_DEGREE_OR_2
=============================================================================
