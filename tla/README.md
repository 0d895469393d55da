# A verification project for circuitpp

circuitpp builds arithmetic circuits over the Goldilocks prime field, flattens
them into a list of operations on numbered targets, and evaluates the list on
vectors of field elements.  Everything runs in one thread: what is hard is not
concurrency but agreement.  The builder, the finalizer and the evaluator each
keep counters of their own, never exchange them, and a circuit is only right if
all of them count alike, over every DAG an author can build, with generators
(operations run by a plug-in, whose results the circuit only constrains) put
between the operations at positions noted before their inputs were visited.

This directory models that pipeline in TLA+, with the hash functions and the
hash set it is built on, checks it with TLC and proves its central invariants
with TLAPS.

## The system

| Component | Where | State | Operations |
|---|---|---|---|
| `ACCircuitBuilder` | `include/circuitpp/builder.h` | set of operations, input and generator-target counts, assertions, generators, outputs, registry | `add_input`, `add_generator_input`, `constant`, `negate`, `add`/`sub`/`mul`/`eq`/`leq`, `hash_no_pad`, `two_to_one`, `add_generator`, `new_generator`, `connect`, `register_output`, `build` |
| Operation classes | `core_base.h`, `cored.h`, `core_base.cpp` | type, inputs, constants, digest, `target_id`, `global_target_id` (written once) | constructors, `get_nth_input`, `set_target_id`, `set_global_target_id` |
| `CircuitFinalizer` | `builder.h` | the `FCircuit` under construction, `op_count`, `total_op_count`, the C++ call stack | `visit_generator`, `visit_op` |
| `FCircuit` | `finalized.h` | lists of operations, generators, assertions, outputs, three counts | `write`, `read`, `size_bytes` |
| Generator registry | `cored.h` | map from id to generator | `add_generator`, `get_generator_by_id` |
| `BitSumGenerator` | `include/standalone/bit_sum_generator.h` | none | `num_outputs`, `evaluate`, `constrain` |
| `CircuitEvaluator`, `ACEvalContext` | `eval.h` | `targets`, `vec_targets`, five indices | constructor, `eval_circuit`, `eval_generator`, `eval_target_op`, `eval_vector_op` |
| `Felt` | `goldilocks_field.h` | a 64-bit word | `+ - * /`, `== <=`, `pow7`, `inverse`, `reduce128` |
| Poseidon | `poseidon_goldilocks.{h,cpp}`, `poseidon_goldilocks_constants.h` | the sponge state; tables | `hash_n_to_m_no_pad`, `linear_hash`, `linear_hash_seq`, `hash`, `hash_full_result_seq` |
| Examples, `main`, `print.h` | `standalone` | none | two straight-line programs |
| blake3 (vendored) | `source/blake3`, `include/blake3` | a hasher: key, the chunk in progress, a stack of chaining values | `blake3_hasher_init` and its two variants, `update`, `finalize`, `finalize_seek`, `reset`; the compression function |
| sparsepp (vendored) | `include/sparsepp/spp.h` | groups of packed values with two bitmaps, a table of groups, a hash table with counts and thresholds | insertion, erasure by key and by iterator, lookups, resizing, copies, moves, swaps, streams |
| xxhash (vendored) | `include/xxhash_cx.h` | none | `xxh` of 32 and 64 bits |
| greeter, dummy, factorial, build files | project template | | |

How they interact.  The author calls the builder, which allocates operations
and keeps pointers.  `new_generator` calls the generator's `constrain`, which
calls the builder back.  `build` makes a `CircuitFinalizer` and walks the DAG
from the generators, the assertions and the outputs, in that order; the walk
writes the ids it hands out into the nodes themselves, which outlive it.  The
evaluator is given the circuit and the registry and shares nothing else with
the builder: it recomputes, while it counts, the slots the finalizer meant.
Three vendored libraries are below: the builder keeps its operations in a
`spp::sparse_hash_set` of pointers (`builder.h:276`), every operation computes a
blake3 digest of itself (`cored.h`), and the id of a generator is the xxHash of
its name (`core_base.h:85`).

What is hard:

- **Agreement of counters.** Two kinds of results (targets and vectors of
  targets) are numbered from two counters; constants, inputs and generator
  outputs each have a rule of their own.
- **Order of evaluation.** The list is executed in one pass; generators run when
  a position noted in the middle of the walk is reached, one at most per
  operation.
- **State that outlives its use.** Ids stay in the nodes after `build`; slots
  stay in the context after `eval_circuit`.
- **Recursion.** `visit_op` terminates, and gives no id twice, only because the
  nodes form a DAG.
- **Arithmetic at the edge of a word.** Corrections after a wrap that happen for
  a handful of operands in 2^128.
- **Marks and counts beside the data.** The hash set keeps the number of erased
  buckets, the sizes of its arrays and its thresholds apart from what they are
  about, through rehashes in the middle of an insertion.
- **Cutting a message.** The blake3 hasher must give one digest however a message
  is cut, and decides what is the last block, chunk and subtree by waiting.
- **Tables.** 118 constants, two matrices and 506 numbers of sparse factors, which
  look random whether they are right or not.

What makes each component right: the builder never refers to a node that does
not exist (`HeapOK`, a part of `TypeOK`); the finalizer emits every operation
that is needed, once, after those it reads, under the id the evaluator will
count to (`NothingMissingNothingDead`, `TargetIdNeverSetTwice`, `PostOrder`,
`IdsAreSlots`, `FirstBuildExecutable`, `GeneratorSlotsInOrder`); the evaluator
returns what the DAG means or throws because an assertion does not hold
(`ImplementsMeaning`); `Felt` is the prime field (`PrimeField`); a circuit that
is written is the circuit that is read (`ImplementsStore`, with one exception);
a hash is the sponge of its input and of nothing else (`ReturnsHash`), over the
permutation Poseidon is published with (`KnownPermutations`); a set holds the
keys put into it, and finds them (`HoldsContents`, `LookupsAgree`); a digest is
a function of the message (`DigestIsOfTree`).

## The modules

| Module | What it models |
|---|---|
| `GoldilocksField` | The word-level operations of `Felt`, for a word of two halves of `HALF` values each (in the code `HALF = 2^32`); prime `HALF^2 - HALF + 1`. Pure operators. |
| `FeltRegister` | A machine with one `Felt` and, beside it, the residue it stands for; one action per operator. |
| `CircuitBuilder` | The heap of operations and the builder's calls. |
| `CircuitFinalizer` | `build`, `finalize`, `visit_generator` and `visit_op`, call by call. Extends `CircuitBuilder`. |
| `AbstractCircuit` | The promise: what each node of the DAG means in the field, and what `eval_circuit` does. No ids, no slots, no order. |
| `CircuitEvaluator` | The evaluator, on the circuits the two modules above produce and the words of `GoldilocksField`; instantiates `AbstractCircuit`, which it implements. |
| `CircuitStore` | The promise of `write` and `read`: a store of one circuit, without bytes. |
| `CircuitSerialization` | `write`, `read` and `size_bytes` on a buffer of bytes, part by part; implements `CircuitStore`. |
| `PoseidonSponge` | The hash functions over any permutation, block by block. |
| `PoseidonPermutation` | The permutation, round by round, on real words, and beside it the permutation by its definition. |
| `PoseidonConstants` | Its tables. |
| `SparseGroup`, `SparseTable`, `SparseHashtable` | The classes of sparsepp, each a record and an operator per member function: a group of buckets with its packed array; the array of groups, its iterators and streams; open addressing, rehashing and thresholds. |
| `SparseHashSet` | Sets in use: one action per call of the interface, and a history of the sets whose marks nobody may be counting. |
| `AbstractHashSet` | The promise: sets of keys. Every call of `SparseHashSet` is a step of it. |
| `Blake3Hasher` | The incremental hasher over symbolic compressions. |
| `Blake3Compress` | The compression function on real words, a call of `g` a step. |
| `XxHash` | Both sizes of xxHash on real words, an iteration of a loop a step. |
| `ByteWords` | Arithmetic of words as sequences of bytes. |
| `MCFinalizer`, `MCEvaluator`, `MCSerialization`, `MCSparse`, `MCDigests` | Values of constants for TLC; `MCDigests` also puts the five machines of the hash functions side by side. |
| `CircuitFinalizerProofs` | Lemmas about the builder: every call keeps the heap well formed. The inductive invariant of the walk and the theorems about ids and order. Counters, the targets in the frames, and where the evaluator will find them; what the call stack still has to do, so that nothing needed is missing and nothing emitted is dead. The outputs of generators, from the builder's numbers to the finished circuit. |
| `CircuitEvaluatorProofs` | The evaluator's indices and slots on the circuits that were built, the values in the slots, and the steps of `AbstractCircuit` they amount to. |
| `GoldilocksFieldProofs` | `add`, `sub`, `reduce128` and `mul` against arithmetic modulo the prime. |
| `FeltRegisterProofs` | The same for the machine with a `Felt`. |
| `PoseidonSpongeProofs` | The absorbing loops against the recursive sponge. |
| `SparseHashSetProofs` | The sets, from the packed array of a group to the calls of the interface: ranks, walks, probes, rehashes, erasure by iterators, streams. |
| `DigestsProofs` | The hasher of blake3, from powers of two and the bits of a number to the chunk, the subtrees, the stack and the root; the calls of `g`, from the bits of a word; the cursor of xxHash. |
| `CircuitSerializationProofs` | From the bytes of a number to those of a circuit: the cursors, the size, and the steps of `CircuitStore`. |

**Builder.** The heap `ops` is a sequence and a pointer is an index: allocation
order is pointer order.  `operations` is a set keyed by the pointer, so that
`injest_op` always inserts and no two nodes are merged, even equal ones; the
digests an operation computes are therefore left out.  A node is a record of
type, inputs and constants, with an operator per class.  `constrain` is one
operator that gives the whole sequence of nodes the call allocates, in the
order in which C++ allocates them, so that `new_generator` is one action.

**Finalizer.** `stack` is the C++ call stack.  A frame holds what a call has
resolved so far; `visit_op` pushes, `emit_operation` is its tail,
`return_target` is the early return for a node that has an id or a fixed target.
Since a call leaves the id it returns in the node, a return is the caller
finding the node resolved.  `target_id` and `global_target_id` are functions
that grow, and survive `build`.  The constants of a generator are copied by a
loop over its inputs, as in the code (`CopiedConstants`).

**Evaluator.** One action per iteration of the loop of `eval_circuit`: if a
generator is due it runs first (one, never two), then the operation writes the
next slot of its stack.  The constructor takes vectors shorter and longer than
the circuit's inputs.  A second call starts from the slots the first one left.
Division throws and cannot be built; a hash is an operator parameter.

**Field.** `add`, `sub`, `reduce128` and `mul` follow the code's wraps, borrows
and conditional corrections with `%` on `HALF^2`; the constructor does not
reduce.  `inverse` runs the code's chain of 63 squarings and 9 products as it is: the exponent
`2^64 - 2^32 - 1` is `-1` modulo `p - 1` for `HALF` = 2, 4 and 16 too, so that
the chain inverts in the small fields.  As a wrong chain could happen to do so
as well, `FeltRegister`, which takes `inverse` one call of `exp_acc` at a time,
also tracks the exponent itself.

**Serialization.** Objects of type `FCircuit` and one buffer, which the caller
allocates with `size_bytes()` (nothing in the repository calls `write` or
`read`; the calls are what the interface asks for).  A turn of a loop of `write`
or `read` is a step: it stores or loads one part at the cursor and moves the
cursor by the part's `size_bytes()`, in `read` by that of the part as it was
just read.  Numbers are stored as bytes with the code's widths, and structs with
their padding, which stays unwritten, so that a wrong place, width, order or
count yields another circuit.  `read` resizes the vectors of an object that held
another circuit, and its old parts stay until they are replaced.  It does not
restore `vector_operation_count`, which `write` stores: `CircuitStore` states
that as the exception it is.  It matters to the evaluator, which sizes
`vec_targets` by that count (`eval.h:23`, `182`): a circuit with a hash that was
read into a new object has room for none.

**Sponge.** The three functions that absorb are one machine with a shared loop
body, as the code repeats it; they differ in what happens before the loop and
after it.  The local array and the caller's memory start with any element,
everywhere the same.  The permutation is an operator parameter.  Where results
depend on memory nothing wrote, `ReturnsHash` says so: `hash_n_to_m_no_pad` of
no elements (an author can ask for it with `hash_no_pad` of an empty vector),
and the rest of the output of `linear_hash_seq` behind a short input, which
`linear_hash` fills with zeros.

**Permutation.** An element is a word of eight bytes.  `hash_full_result_seq` is an
action that starts a call, and a round is an action: the code's rounds on
`elements`, and on `dense` those of the definition, which multiplies by the one
matrix `M` in every round.  The code saves products by factoring `M`: a matrix
`P` before the partial rounds and a sparse matrix in each.  That the factors are
right is `SparseIsDense`, and that everything both computations share is,
`KnownPermutations`.  That `Felt` computes the field's operations is asked of
`GoldilocksField`, so that here sums and products are those of the field.

**Sparse sets.** A group's `capacity` is what the allocator really gave it, which
the code does not note: insertion and erasure compute it from the count, and
must agree.  Buckets, bitmaps, probes and iterators are those of the code; an
iterator is a row and a column, and a call that moves values leaves another.
`find_position` is the search with erased buckets, `find` the one the code
repeats without them.  A stream is the sequence of the numbers written; a
reading may meet the end of it anywhere, or another program's file.  The value
type is a pointer, which sparsepp relocates with `memmove` and `realloc`.
Assignment is modelled as it is, with its one defect: a set that was emptied by
erasing and is assigned from one without erased buckets keeps marks that
`num_deleted` does not count (`KeepsMarks`).  The history variable `spoilt` holds
the sets this happened to, and those made of them; nothing else reads it.  Such a
set may yet lose nothing, but full and marked buckets may fill its table, and then
its searches do not end.  So the properties are stated of the other sets
(`Whole`), and `EverySearchEnds`, of all, is what the run
`SparseAssignErased` violates.

**blake3.** In `Blake3Hasher` a compression is the record of its arguments, so that
digests are equal only if everything that went into them is; the tree over the
message, `Tree`, says what the digest should be.  The dispatcher of this
repository knows only the portable code, of degree one, and what other degrees
compile is left out.  `Blake3Compress` is that code; a word is two halves.
`NothingIsLost` undoes every call of `g`.

**xxHash.** A read takes the bytes at an index of the input, so that `ReadsInside`
can ask whether they are there.

**Left out of the modelled parts.** Names and messages, the digests of operations
and their comparison (nothing reads them; `Blake3Hasher` is what computes them),
the widths of ids and counters (a circuit with 2^31 nodes does not
fit a run, and the code has no behaviour at that limit that is defined),
allocation failure.

## The runs

| Run | What it asks | Bounds, and why they are enough |
|---|---|---|
| `Finalizer` | Is every DAG flattened, once, into an executable list, with nothing missing and nothing dead? Are the generators' outputs where the evaluator puts them, in time for the operations that read them, and all their constraints in the circuit? | 4 nodes, of which one may be an input and one a generator input of no generator, constants, unary and binary operations, an assertion and an output: sharing, a diamond, a node used twice by one operation, roots inside each other's cones and dead nodes all occur. Or two bit sums of one or two bits, on an input, an operation, or nodes of the other bit sum. Or, for the schedule, three one-bit sums on an input or each other's outputs, or two and an operation. |
| `FinalizerRebuild` | Over two builds, is an id ever set twice or changed, and does each `build` return? | 3 nodes, calls of the builder before, between and after the builds. |
| `FinalizerRebuildInputs` | *(violated)* Does a second build give operations their inputs? | The same. |
| `Eval` | Does evaluation implement the meaning, for all scalar operations, for bit sums and for hashes, whose ids are on a stack of their own? | The field of 13 elements; inputs that fit and inputs that do not, 0 to 2 of them, so that evaluation also throws; any number of calls of `eval_circuit`. 3 nodes of arithmetic, or two bit sums of one or two bits on an input or on each other's outputs, or two hashes, the second over elements of the first. The hash is a sum that tells the position of an input and of an element apart. |
| `GeneratorOrder` | *(violated)* Are the bits a generator's when `eval_circuit` returns? | Three one-bit sums, one of them on a computed node. |
| `FeltCanonical` | Do the operators compute the field's operations on reduced words, and is every temporary of `inverse` the power it should be, the last with the exponent `p - 2`? | `HALF = 16`, prime 241: every pair of reduced words, and the real chain, with exact exponents of 64 bits, on each. The operators' case splits (wrap or not, borrow or not, second correction or not) depend on the order of sums and products relative to `HALF` and `HALF^2`, and all occur. |
| `FeltAnyWord` | *(violated)* Do they on every word the constructor accepts? | The same with all 256 words. |
| `SerializationRoundTrip` | Does `write` fill exactly `size_bytes()` bytes, and does `read` get the circuit back? | Two objects and four circuits: a new one, one with the largest word, one with a hash, one with a generator and messages of odd length; between calls an object takes any of them, so that every circuit is read into what is left of every other. A byte has ten values, so that a word is a number TLC can hold; the widths of fields are the code's. |
| `Digests` | Is what each hash function of Poseidon returns the sponge of its input? Is a digest of blake3 one of the message, however it is cut, in all three modes, and whatever part of the output is asked for? Do the compression function, xxHash and the permutation of Poseidon give the words they are published with? | The sponge: `RATE` 2 and `CAPACITY` 1 for 8 and 4; every input of up to 5 elements of `{0, 1}` (no block, part of one, one, one and a part, two, two and a part), output sizes from 0 to more than the array, memory of both values. Its permutation tells places and values apart. The other machines follow one call of the sponge, so that the states do not multiply. blake3: blocks of 2 bytes and chunks of 4 blocks: every length up to 16 chunks, so that every number of values on the stack occurs, reached by every pair of updates and more. Five blocks, one of them with a counter of both its words; ten messages of up to 63 bytes for xxHash (every loop, several turns, and lengths at which the input ends with the stripes, with the lanes and with the words of four); and two permutations, of counting numbers and of the greatest element everywhere. |
| `SparseSet` | Do sets hold the keys they should, through rehashes, erasures, copies and streams, and does every search end where it should? | Two sets, five keys whose hashes collide, groups of 16 buckets and tables of 4 to 32: tables of more than one group, groups whose array grows in steps, tables that grow and shrink; 4 calls after the construction, which may put all five keys in. |
| `SparseSerializeErased` | *(violated)* Is a set with erased buckets found whole when it is read back? | The same. |
| `SparseAssignErased` | *(violated)* Does every search end, in sets assigned to over their marks too? | The smallest tables, of 4 buckets, which two keys and two marks fill; keys that do not collide, inserted by two. |

A deadlock is not an error where the run says so: an author stops calling, a
program that has its outputs ends, and the bounds stop everything else.

The bounds are the constants `MaxOps` (nodes the author allocates; those a bit
sum allocates come on top), `MaxInputs`, `MaxGenerators`, `MaxStrayInputs`
(generator inputs taken outside a generator), `MaxAssertions` (calls of
`connect`), `MaxOutputs` and `MaxBuilds`; for the sets `MaxOps` is the number of
calls, and for blake3 `MAX_DEPTH`, the code's own bound, limits the message.
They only guard the calls of the user.  `SIZE_BITS`, 30 for 64, keeps powers of two
within the numbers of TLC.  `LargestPower` is the size of the largest
table as a power of two.  `SmallCircuit` in `MCFinalizer` and
`MCEvaluator` restricts which calls come together, so that one run takes several
kinds of circuits without their product.  Symmetry is used for the two sets;
nodes are numbers with an order that matters, and keys have hashes.

**Fairness.** `build` and `eval_circuit` are synchronous calls: once entered
they run until they return.  So `FinalizerSpec` has weak fairness of `Walk` (all
steps inside a `build`) and `EvaluatorSpec` of `Evaluate` (all steps inside an
`eval_circuit`), and so have `SpongeSpec` and `DigestsSpec` of
the one call of the sponge.  Nothing obliges the
author to make a call.

**The violated runs** show where the code departs from what it says:

- `GeneratorOrder`: a generator is scheduled before the operations its input is
  computed by (`builder.h:30` notes the position before the inputs are
  visited), and the loop catches up with at most one generator per operation
  (`eval.h:198`).  With generators on inputs only, as in the repository's
  example, evaluation is right (`Eval`); with three bit sums, one of
  them on a computed node, `eval_circuit` returns bits that are not those of the
  value the node means.
- `FinalizerRebuildInputs`: a second `build` on the same builder finds the ids of
  the first in the nodes and omits their operations, while operations that are
  new refer to them.
- `FeltAnyWord`: `sub` wraps when its second operand is not reduced, and the
  constructor does not reduce.
- `SparseSerializeErased`: `write_metadata` writes which buckets are full and not
  which were erased (`spp.h:1612`).  A key that was put behind an erased bucket is
  in the set that was read, is counted and met by iterators, and is not found.
  The comments say that the table is compacted before it is written
  (`spp.h:3409`), which no code does.  The repository does not write its set.
- `SparseAssignErased`: `operator=` overwrites `num_deleted` (`spp.h:2961`) before
  `clear()` asks for it (2987), and an emptied set with marks is not cleared.
  Two keys are inserted and erased, the set is assigned from an empty one, two
  other keys are inserted: of four buckets two are marked and two full, the count
  of marks is 0, so that nothing is rehashed, and a search for a key that is not
  there meets no free bucket.  The assertion "Hashtable is full" (3053) fires, and
  without assertions the loop does not end.  Where the insertion takes one of
  the marks, `assert(num_deleted)` (3171) fires before.  The builder assigns no set.

## The proofs

TLC checks small instances; the following holds for every circuit, every size
of a word, every rate and every length, and for sets of any keys with any hash
function, tables of any power of two and groups of each size the code compiles,
and for blocks, chunks and messages of any length.

| Module | Theorem | Property |
|---|---|---|
| `CircuitFinalizerProofs` | `FinalizerTypeCorrect` | `TypeOK`: among others, a node's inputs are older than it, and whatever refers to a node refers to one that exists |
| | `StackWellFormed` | `StackOK` |
| | `TargetIdsSetOnce` | `TargetIdNeverSetTwice`: the exceptions of `set_target_id` and `set_global_target_id` are never thrown |
| | `IdsPermanent` | `IdsArePermanent`, an action property |
| | `EmittedInPostOrder` | `PostOrder` |
| | `IdsMatchSlots` | `IdsAreSlots` |
| | `ExecutableInOnePass` | `FirstBuildExecutable` |
| | `BuildIsComplete` | `NothingMissingNothingDead` |
| | `GeneratorOutputsInOrder` | `GeneratorSlotsInOrder`, if no generator input is taken outside a generator |
| | `GeneratorsRunInTime` | `GeneratorsInTime`, under the same condition |
| `CircuitEvaluatorProofs` | `EvaluatorStaysInBounds` | `EvaluatorTypeOK`, if the circuit is built once and what goes in are words |
| | `SlotsHoldTheMeaning` | `SlotsHoldMeaning`, if the words are reduced and the generators' arguments are inputs and outputs of generators |
| | `BitsAreOfArguments` | `BitsAreCorrect`, under the same conditions: `GeneratorOrder` violates it where the last does not hold |
| | `EvaluatorImplementsCircuit` | Under the same conditions, `AbstractInit /\ [][AbstractNext]_abstractVars`, the safety part of `ImplementsMeaning` |
| `GoldilocksFieldProofs` | `AddIsOfField`, `MulIsOfField` | Of any two words, reduced or not, the sum and the product modulo the prime, reduced |
| | `SubIsOfField` | The difference, if `b <= a + p` |
| `FeltRegisterProofs` | `FeltIsPrimeField` | `PrimeField` on reduced words, if the chain of `inverse` inverts |
| | `FeltEqualityIsOfElements` | `EqualityIsOfElements` |
| | `InverseTemporariesArePowers` | `TemporariesArePowers` |
| `PoseidonSpongeProofs` | `LoopsAreSponges` | `StateIsSponge` |
| | `HashesAreDigests` | `ReturnsHash` |
| `CircuitSerializationProofs` | `CursorsNeverPart` | `CursorsAgree` |
| | `WriteFillsSizeBytes` | `SizeIsExact` |
| | `ReadGivesBackTheCircuit` | `ImplementsStore`, the whole of it: `CircuitStore` states no fairness |
| `SparseHashSetProofs` | `SetsStayGood` | `SetsGood`, the invariant the others are read off: packed groups, keys once and before a free bucket, room, marks counted |
| | `TypesHold` | `SparseTypeOK` |
| | `MarksAreCounted` | `ErasedCounted`: an assignment over marks is the only way to lose count of them |
| | `SearchesAlwaysEnd` | `SearchesEnd`: marks that are counted never fill a table |
| | `KeysAreKept` | `HoldsContents` |
| | `LookupsAreRight` | `LookupsAgree` |
| | `ErasingGoesOn` | `EraseContinues` |
| | `EqualityIsRight` | `EqualityIsOfContents` |
| | `StreamsAreReadBack` | `StreamsGiveBack`: the last stream is read back as the table it was written from, and refused if cut short or of something else |
| `DigestsProofs` | `DigestsAreOfTrees` | `DigestIsOfTree`: whatever updates a message came in |
| | `OutputsAreOfTrees` | `OutputIsOfTree`, the same of `finalize_seek` for any place in the endless output and any number of bytes |
| | `StacksAwaitMore` | `StackAwaitsMore` |
| | `StacksHoldSubtrees` | `StackHoldsSubtrees` |
| | `SubtreesArePairs` | `SubtreesGivePairs` |
| | `ReadsStayInside` | `ReadsInside` |
| | `CallsLoseNothing` | `NothingIsLost`, an action property |

**Assumptions.** On constants: `AuthorAssumption` (a bit sum has at least one bit,
as `constrain` reads its first output; a hash at least one input),
`HalfAssumption` (a half word has at least two values), `SpongeAssumption` and
`ValuesAssumption` (sizes are numbers, the permutation maps states to states),
`ByteAssumption` (a byte has at least two values) and `CircuitsAssumption`: the
fields of the circuits the program obtains are of their C++ types, and the
lengths of their vectors and messages fit an `OPVecLength`, into which `write`
casts them without asking.  For the sets: `GroupSizeAssumption` (groups of 8 to 64
buckets), `StreamAssumption` (the magic number is written in one word, and so is
the one after it, with which a wrong stream begins), `HashtableAssumption` and
`SetAssumption`: hashes are numbers, the sizes the code starts with are powers of
two, and the factors are below 1.0 (the code's are 0.5 and 0.2; of the caller's it
asks `grow <= 1`, and 1.0 is what lets a table fill up).  `RoomAssumption` says
that the table of `2^LargestPower` buckets is large enough for the calls in a
behaviour: in the code that is 2^63 buckets, beyond which `min_buckets` throws.
For the hash functions: `HasherAssumption` (the lengths of blocks and chunks are
powers of two, a block has more than one byte and a chunk at least one block, a
size has more bits than `MAX_DEPTH`, and a context is not longer than a message)
`JobsAssumption` (the arguments of a compression are of their C++ types) and
`MessagesAssumption` (an input of xxHash is bytes, and its size 32 or 64).
Some theorems have hypotheses of their own.  `FeltIsPrimeField`,
`FeltEqualityIsOfElements` and `InverseTemporariesArePowers` take reduced values (`Values \subseteq Canonical`),
without which they are false (`FeltAnyWord`), and that the element the chain ends
with is the inverse (`InverseInverts`, which is Fermat's theorem; TLC checks it
for `HALF = 16` in `FeltCanonical`).  `GeneratorOutputsInOrder`,
`GeneratorsRunInTime` and the theorems about values take `NoStrayInputs`, as a
target taken outside a generator shifts the outputs of all later ones (the
hazard at `builder.h:133`).  Those about the evaluator take `OneBuild` (what a
second build returns cannot be evaluated, `FinalizerRebuildInputs`) and
`WordsFit`: inputs, literals, powers of two up to the largest of the bits and
what the hash makes of words are words (`WordsFit(Words)`), or reduced words
(`WordsFit(Canonical)`) where values are concerned: on others `sub` is not the
field's, and equal elements may be different words (`FeltAnyWord`).
`SlotsHoldTheMeaning` and `BitsAreOfArguments` are about states, and
`EvaluatorImplementsCircuit` about behaviours, in which `ArgumentsRaw` holds.
All of this holds of the run `Eval`.
The theorems about sets take `~SerializeErased`, without which `LookupsAgree` is
false (`SparseSerializeErased`); so it is in the run `SparseSet`.  They exclude no
assignment: an assignment over marks is a step like any other, after which
the properties are not about this set until it is made anew
(`SparseAssignErased` shows that they could not be).  `IdsAreSlots` and `GeneratorSlotsInOrder`
say of themselves that they are about the first build.

**The heap.** `CircuitFinalizerProofs` first shows that every call of the builder keeps
`HeapOK` and leaves old nodes as they are (`BuilderCallOK`).  The hard case is
`new_generator`: the nodes of a bit sum refer to each other by computed
offsets, and the lemmas `BitNodes`, `SumNodes` and `ConstrainNodes` show that
each refers to older ones only, for any number of bits.

**The walk.** `TypeOK` alone is not inductive (a frame's reference must be a node
for the next push to be typed), and neither `TargetIdNeverSetTwice` nor
`PostOrder` is: that a node about to be given an id has none depends on no node
being on the stack twice.  The strengthening is `StackOK`: each `visit_op` on
the stack is on an unresolved node that is *older* than the node of the call
below it.  Pushing keeps it because inputs are older; popping keeps it because
the node just resolved differs from all below it.  `TypeOK /\ StackOK` is
inductive (`FinalizerStepOK`, one lemma per group of actions), and the first
four theorems follow.  `PostOrder` needs in addition that in the first build no
global id exceeds the counter (`GlobalIdsCounted`); it is not true of a second
build, whose counter starts again.

**Ids and slots.** The finalizer numbers operations with two counters that run
through the walk; the evaluator counts the operations it has passed.  `SlotsOK`
relates the two: the counters are the base plus the cardinalities of the
operations emitted so far (`CountersOK`), what a frame has collected are the
targets of the nodes it was called for (`FrameTargets`), and so each id is the
evaluator's count at the operation's place (`IdsAreSlots`).
`FirstBuildExecutable` follows with `PostOrder`.

**What is needed.** `NeedsOK` says what the stack is for: each frame is wanted by
the one below it, next in its inputs (`Linked`); the three loops of `finalize`
run in order (`LoopsInOrder`); and every operation emitted is reachable from a
root that was begun (`Needed`).  When the stack is empty, the roots are all
resolved, and resolved nodes have resolved inputs, so that nothing is missing.

**Generators.** `GeneratorsOK` is kept by each call of the builder: generators
number their outputs one after the other (`InRow`), every output has its node
(`OutputsHaveNodes`), and the first assertion of each bit sum, made before any
later one, checks it (`OutputsChecked`).  `CopiesOK` is the other half, on the
circuit: each generator, assertion and output is in its place with the targets
of its nodes.  With the lemmas of the copying loops (`FinishedGenerator`,
`FinishedAssertion`, `FinishedOutput`) the theorem is that the finalizer's
fixed targets are the places the evaluator's own counter reaches.

**The schedule.** `GeneratorsInTime` is about circuits whose generators are given
inputs and outputs of generators (`ArgumentsRaw`); on a computed node a
generator runs too early or too late (`GeneratorOrder`).  There the first loop
of `finalize` emits nothing (`GeneratorsFirst`), so that every generator is due
at position 0 (`NoDependencies`), and the k-th runs before the k-th operation.
That this is in time rests on `constrain`: an operation that reads an output of
the h-th generator is newer than the checks of the bits of all generators up to
that one, and whoever asked for it is an assertion behind them, or an output
(`EmittedWaits`); the checks multiply, each a node of its own, so that at least
h - 1 operations are before it (`ReadersWait`).  `ArgumentsRaw => ScheduleOK` is
inductive (a call of the builder ends what it is about), and
`ReadersAreBehind` reads the theorem off the finished circuit.

**The evaluator.** `CircuitOK` gathers what the circuit is at the end of its build;
nothing of it changes afterwards.  `EvalOK` says that `target_index` and
`vec_index` are the counts of the operations passed, of each kind
(`ScalarsIn`, `VectorsIn`), and that slots below them hold words.  That an
operation only reads slots that were written is `FirstBuildExecutable`, and that
a generator writes below `FirstSlot` is `PlacesOK`.

**The meaning.** `AbstractCircuit` gives nodes their values by a recursion over
pointers, in which an output of a generator has a bit of the value of the
generator's argument.  That there are such values (`MeaningIs`) is by least
counterexample: an operation's inputs are older than it, and so is a generator's
argument than its outputs (`ArgumentsOlder`).  `SlotsHoldMeaning` is not
inductive as it stands.  `ValuesOK` adds that the inputs are in their slots in
every call, whatever the calls before left in the others; that
`gen_target_index` is where the outputs of the next generator begin; and that
one generator has run for each operation, until all have.  In an iteration
`GeneratorHeld` shows that the generator reads its argument's value and writes
bits where its outputs' targets are, and nowhere else; `OperandHeld` that each
operand is there: an operation's because it was passed (`PostOrder`), a
generator's output because the reader waits (`ReadersWait`); `TargetOpMeans` and
`VectorOpMeans`, with the theorems about the field, that the result is the
node's value.  The slot written is no other node's (`SlotOfPlace`).
`ValuesInv`, which puts this together with the invariants of the circuit, is
inductive (`ValuesInvStep`).

**The refinement.** `EvaluatorStepRefines`: a call of the builder adds to the graph
and changes nothing in it (`AuthorGrows`); a step of `build` and an iteration of
the loop are stutters; and at the end of a call every root of the graph is in
its slot (`RootHeld`), so that the assertions that hold are those of the graph,
and the outputs returned are the meaning of its outputs (`CallReturnsMeaning`).

**The field.** A carry out of a word is worth `EPSILON` modulo the prime; the
proofs split where the code corrects, and show that a second correction carries
no further.  For `sub` they give the exact limit, `b <= a + p`: beyond it the
code wraps twice and corrects once, which is what `FeltAnyWord` runs into.
`RegisterOK` says that the register and every intermediate product is reduced.
The powers of `inverse` are counted by sets of bits: a call of `exp_acc` moves the
bits of its base up, which is squaring (`PowerOfDouble`), and joins those of its
tail, which is multiplying where the two have none in common (`PowerOfUnion`);
each call of the chain joins intervals that meet (`ChainAddsBits`).

**The sponge.** `Sponge` is a recursive function of the number of blocks; that it
exists and is unique is shown by least counterexample (the library's `WFMin` on
the natural numbers), which takes no operator as a parameter.  `SpongeOK` says
that the array holds what the function is at the blocks absorbed.

**Serialization.** A number is what is left of it behind its first bytes and these
bytes (`Rest`), which is how `Load` adds them up again (`LoadOfNumber`, for any
width); so vectors and headers are read back where they were stored
(`LoadOfNumbers`, `BytesBehindBytes`, and a lemma for each kind of part up to
`BytesOfPart`).  `Shaped` keeps count of the padding.  In memory, `Holds` says
that the header and the parts handled so far are at their places, that all
behind the cursor is unwritten, and how many gaps there are before it.  A part
stored at the cursor leaves what is before it (`StoredBehind`, `GapsOfStored`),
and the cursor is the part's place because the loops come in order
(`DoneIsDoneBefore`, `PartHolds`).  `SerializationInv` is inductive: in `write`
the buffer holds as much as is done; between calls and in `read` it holds the
whole image; in `read` the object has the counts and lengths of the circuit in
the image, and its parts as far as they were read (`ReadSoFar`), which is what
makes the cursor, moved by the sizes of parts just read, that of `write`.  Both
properties and the steps of `CircuitStore` follow from it.

**The sets.** Below, a group is `Packed`: its array is as long as its bitmap has
bits, has the size `_sizing` gives, and a full bucket's value is at its rank
among the full ones (`pos_to_offset`).  `SetPacks` and `ErasePacks` show that a
group stays so when a value is inserted in the middle of the array or taken out,
whether the array is moved or not.  A walk meets the full buckets of a table in
their order, each once, and the position is the rank (`WalkAt`, `WalkOnce`), so
that erasing a bucket takes one position out of the walk and leaves the iterator
on the next (`EraseGoesOn`).  A probe sequence adds 1, 2, 3 and so on: its places
are triangular numbers, no two of which agree modulo a power of two within as
many steps, and so it reaches every bucket (`ProbesReach`, by counting).
`Sound` says that every key is in one bucket, and that all buckets its probes
pass before it are full or erased (`Leads`).  Erasing only marks, and so keeps
it; a key that is inserted is put in the first erased bucket its search passed, or
in the free one it ended at, and both are led to.  Searches end because full and
erased buckets together are fewer than buckets (`Roomy`).  That in turn is the work of
`_resize_delta`: it compares the buckets used with a threshold below the size,
and makes a table in which a threshold is not reached
(`ResizeDeltaMakesRoom`); the new table is `Sound` and without marks because the
keys were inserted into it one after the other (`CopyFromRebuilds`).  For shrinking, the
invariant needs the thresholds to be those of the present size.  A stream is laid
out as numbers, bitmaps and values (`SerializeLays`), and reading it walks the same
bitmaps (`StreamRead`).
`SetsInv` puts this together with the abstract sets: after each call, `Good`
hash tables hold the keys of the abstract ones, and the stream is of a table
with the keys that are stored.  It is inductive with one lemma for each call
(`InsertKeeps` to `UnserializeCallKeeps`, `SetsStep`).  Its parameter `n` bounds
the keys a call brings: k calls use `(k + 1) * n` buckets at most, erased ones
included, which is how `RoomAssumption` reaches the resizing.

**The hasher.** A message is a function of places, and what a part of it becomes is
stated by place: `ChunkOf` is the state of a chunk that was fed so many bytes
(`ChunkUpdate`, for updates that end anywhere in a block), and `NodeOf` the
node of the tree over a part, whose recursion is turned into one equation for a
chunk and one for two halves (`NodeOfChunk`, `NodeOfHalves`).  `WideIs` shows
that `compress_subtree_wide` gives the values of a part's two halves, by
induction on its length: a half gives one value or two, and values are merged
in each of these cases as the tree is.  `SubtreesGivePairs` follows.

The stack is described by the chunks at which its subtrees begin (`Shape`): each
is a power of two of chunks, which divides the place it begins at, and twice
as much does so too, with the exception of the top one; it is the top two that
lazy merging leaves apart (`Even` if it has not).  So the sizes fall
(`SizesFall`), and every subtree but the top one is one bit of the number of
chunks (`EvenPrefix`, `PopcntOfSum`): `hasher_merge_cv_stack`, which only compares
a length with `popcnt`, merges what belongs together (`MergeIs`), and the depth
is limited by the bits of a message's chunks (`StackIsBounded`).  An update takes
subtrees that divide the chunks before them (`SubtreeLenIs`); the turns of its
loop are counted by the chunks that may be left (`TurnsTake`).  `Ready` is the
invariant: after n bytes a hasher has the values of such a shape, and either a
chunk in progress and an even stack, or none and a stack that is not of exactly
one value.  `FedIsHeld`, which says so of the message and of the mode's key, is
inductive (`FedIsHeldStep`); for a derived key it also takes the theorem itself,
of the context (`DerivedKey`).  From `Ready` the three properties follow:
rolling up the stack, each value is the left half of what is above it
(`RollUp`, `RootIs`), and the pieces of the output end where blocks do
(`EndsAre`, `OutputBytes`).

**A call of `g`.** It can be undone because each of its operations can.  Exclusive or twice is nothing: two halves are the sums of their binary digits
(`HalvesAreTheirBits`), and so is what `XorHalves` makes of them, digit by digit
(`DigitsOfXor`, `XorTwice`).  A sum with its carry is undone by the
difference with its borrow (`AddIsUndone`), and turning a word by a distance
and by the rest of 32 gives it back (`TurnsAreUndone`, from the two halves it is
cut into).  `MixIsUndone` composes these, `CallsAreUndone` takes both halves of
`g`, and `CallsGoOn`, which says that the state is sixteen words while rounds are
left, is inductive (`CallsGoOnInductive`).

Only model-checked: the words of blake3's compression function (`KnownAnswers`),
the words xxHash gives (`KnownHashes`), and the permutation (`SparseIsDense`,
`KnownPermutations`).  That words are the published ones is a matter of the
constants; the proofs about the hasher hold for any compression.
`BuildReturns`, `HashReturns` and what `ImplementsMeaning`
asks of fairness (that a call ends) are liveness, which TLAPS does not reach.

## Not modelled

- In `spp.h`: `sparse_hash_map`, which nothing uses (it forwards to the same
  hash table); the allocator and traits in `spp_utils.h`, `spp_traits.h` and
  `spp_config.h`, which are compile-time choices; `spp_dlalloc.h`, a general
  allocator compiled only with `SPP_USE_SPP_ALLOC`.  The branch of
  `_resize_delta` that doubles the table once more (2730-2747) is left out: the
  size it would compare, counted from the present one, is never smaller.  The single insertion
  from an input iterator (3209) does not compile when it is used.
- What a search does in a set whose full and marked buckets fill the table
  (`SparseAssignErased`): it stops at an assertion, or never.  A grow factor of 1.0, with which a table fills up and searches for
  absent keys have no end.  After a failed reading a set may only be read again.
- The tables `M_` and `P_` of Poseidon, which nothing reads.  The code of blake3
  for other processors: the dispatcher does not choose it.
- The examples, `main`, the greeter and the build files contain no logic of
  their own.

## Plan

1. *Done.* `GoldilocksField`, `FeltRegister`; `CircuitBuilder`,
   `CircuitFinalizer` and its proofs; `AbstractCircuit`, `CircuitEvaluator`.
2. *Done.* `CircuitStore`, `CircuitSerialization`, `PoseidonSponge`.
3. *Done.* The libraries below: the sparse sets, blake3, xxHash; the permutation
   of Poseidon.
4. A composition of serialization and evaluation: a circuit that was written and
   read back evaluates as the original, if it has no vectors.
5. *Done.* Proofs of the walk, the ids, what is needed, the outputs of
   generators and their schedule, the evaluator's indices, the values it
   computes, its refinement of `AbstractCircuit`, the operations of the field,
   the sponge, serialization with its refinement of `CircuitStore`, the sets,
   from the capacity of a group to every call, the hasher of blake3 and the
   calls of its compression function.

Abstract specifications worth stating: `AbstractCircuit` and
`CircuitStore`, `AbstractHashSet` (stated); the sponge's, the tree's and the
permutation's definitions (`Sponge`, `Tree`, `dense`, stated).
