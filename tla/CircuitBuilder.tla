--------------------------- MODULE CircuitBuilder ---------------------------
(***************************************************************************)
(* ACCircuitBuilder (include/circuitpp/builder.h) and the operation        *)
(* classes it allocates (core_base.h, cored.h).                            *)
(*                                                                         *)
(* An ACOperation is a node of a DAG on the heap.  The heap is the         *)
(* sequence ops and a pointer is an index into it: allocation order is     *)
(* pointer order, and a node can only be given pointers that exist when it *)
(* is constructed.  The digest an operation computes of its inputs is left *)
(* out: the set `operations` is keyed by the pointer (sparse_hash_set      *)
(* <ACOperation *>), so that injest_op, called with a node just allocated, *)
(* never finds an equal one and always inserts; `operations` is therefore  *)
(* 1 .. Len(ops) at all times.                                             *)
(***************************************************************************)
EXTENDS Integers, Sequences

CONSTANTS
  Literals,        \* the values passed to constant()
  UserOps,         \* the operation types the circuit's author uses
  HashArities,     \* the lengths of the vectors passed to hash_no_pad
  GeneratorBits,   \* the constants passed to new_generator: number of bits
  GeneratorArg(_), \* which nodes the author passes to new_generator
  MaxOps,          \* bound on the nodes the author's calls allocate
  MaxInputs,       \* bound on add_input calls
  MaxGenerators,   \* bound on new_generator calls
  MaxStrayInputs,  \* bound on add_generator_input calls outside a constrain
  MaxAssertions,   \* bound on assertions
  MaxOutputs       \* bound on register_output calls

\* A bit sum has a bit (constrain reads its first output), a hash an input.
ASSUME AuthorAssumption ==
  /\ GeneratorBits \subseteq Nat \ {0}
  /\ HashArities \subseteq Nat \ {0}

VARIABLES
  ops,                     \* the heap: a sequence of operations
  input_target_count,
  generator_target_count,
  assertions,              \* sequence of [left, right], pointers
  generators,              \* sequence of ACGeneratorDefinition
  output_ops,              \* sequence of pointers
  registry                 \* ids of the generators add_generator was given

builderVars == <<ops, input_target_count, generator_target_count, assertions,
                 generators, output_ops, registry>>

-----------------------------------------------------------------------------
(* Operations                                                              *)

BinaryOps == {"ADD", "SUB", "MUL", "EQ", "LEQ"}

OpType == BinaryOps \cup {"CONSTANT", "INPUT", "GENERATOR_INPUT", "NEG",
                          "TARGET_AT", "POSEIDON_HASH"}

\* An ACOperation: its type, the pointers get_nth_input returns and the
\* values get_nth_constant_input returns.
Operation(type, in, const) ==
  [op_type |-> type, inputs |-> in, constants |-> const]

\* The classes.  The index of an INPUT or GENERATOR_INPUT stands with its
\* constants, though visit_op reads it by a method of its own.
ACConstantOp(c) == Operation("CONSTANT", <<>>, <<c>>)
ACInputOp(index) == Operation("INPUT", <<>>, <<index>>)
ACGeneratorInputOp(index) == Operation("GENERATOR_INPUT", <<>>, <<index>>)
TargetAtOperation(vector, index) == Operation("TARGET_AT", <<vector>>, <<index>>)
UnaryOperation(type, in) == Operation(type, <<in>>, <<>>)
BinaryOperation(type, in1, in2) == Operation(type, <<in1, in2>>, <<>>)
VectorInputOperation(type, in) == Operation(type, in, <<>>)

\* ACOperation::stack_type and get_stack_type_for_op_type agree on these types.
IsVector(type) == type = "POSEIDON_HASH"

\* The nodes whose value is a single target.
ScalarNodes == {p \in 1 .. Len(ops) : ~IsVector(ops[p].op_type)}

HASH_SIZE == 4

-----------------------------------------------------------------------------
(* BitSumGenerator (include/standalone/bit_sum_generator.h), the generator *)
(* of this repository.                                                     *)

BitSum == "BitSum"

num_outputs(constants) == constants[1]

\* The nodes BitSumGenerator::constrain allocates when the heap holds `base`
\* nodes: one and zero; an input, a subtraction and a product for each bit;
\* a power of two, a product and a sum for each bit but the first.
BitInput(base, i) == base + 3 + 3 * i
BitProduct(base, i) == base + 5 + 3 * i
BitsTotal(base, bits) ==
  IF bits = 1 THEN BitInput(base, 0) ELSE base + 2 + 3 * bits + 3 * (bits - 1)

ConstrainBit(base, i) ==
  <<ACGeneratorInputOp(generator_target_count + i),
    BinaryOperation("SUB", base + 1, BitInput(base, i)),
    BinaryOperation("MUL", BitInput(base, i), BitInput(base, i) + 1)>>

AccumulateBit(base, bits, i) ==
  LET power == base + 3 * (bits + i)
      total == IF i = 1 THEN BitInput(base, 0) ELSE power - 1
  IN  <<ACConstantOp(2 ^ i),
        BinaryOperation("MUL", BitInput(base, i), power),
        BinaryOperation("ADD", total, power + 1)>>

constrain(base, bits) ==
  <<ACConstantOp(1), ACConstantOp(0)>>
    \o [j \in 1 .. 3 * bits |->
          ConstrainBit(base, (j - 1) \div 3)[((j - 1) % 3) + 1]]
    \o [j \in 1 .. 3 * (bits - 1) |->
          AccumulateBit(base, bits, ((j - 1) \div 3) + 1)[((j - 1) % 3) + 1]]

ConstrainAssertions(base, bits, arg) ==
  [i \in 1 .. bits |-> [left |-> BitProduct(base, i - 1), right |-> base + 2]]
    \o <<[left |-> arg, right |-> BitsTotal(base, bits)]>>

-----------------------------------------------------------------------------
(* The builder's calls                                                     *)

BuilderInit ==
  /\ ops = <<>>
  /\ input_target_count = 0
  /\ generator_target_count = 0
  /\ assertions = <<>>
  /\ generators = <<>>
  /\ output_ops = <<>>
  /\ registry = {}

\* The outputs and the nodes of all generators: constrain allocates
\* 6 * bits - 1 nodes.
GeneratorOutputs ==
  LET sum[g \in 0 .. Len(generators)] ==
        IF g = 0 THEN 0 ELSE sum[g - 1] + generators[g].num_outputs
  IN  sum[Len(generators)]
AuthorNodes == Len(ops) - (6 * GeneratorOutputs - Len(generators))

\* injest_op on nodes just allocated.
Insert(nodes) ==
  /\ AuthorNodes + Len(nodes) <= MaxOps
  /\ ops' = ops \o nodes

add_input ==
  /\ input_target_count < MaxInputs
  /\ Insert(<<ACInputOp(input_target_count)>>)
  /\ input_target_count' = input_target_count + 1
  /\ UNCHANGED <<generator_target_count, assertions, generators, output_ops,
                 registry>>

\* add_generator_input is public: called by the author, it takes a target that
\* no generator writes.
add_generator_input ==
  /\ generator_target_count < GeneratorOutputs + MaxStrayInputs
  /\ Insert(<<ACGeneratorInputOp(generator_target_count)>>)
  /\ generator_target_count' = generator_target_count + 1
  /\ UNCHANGED <<input_target_count, assertions, generators, output_ops, registry>>

\* constant, negate, the binary operations and hash_no_pad change nothing but
\* the set of operations.
Allocate(nodes) ==
  /\ Insert(nodes)
  /\ UNCHANGED <<input_target_count, generator_target_count, assertions,
                 generators, output_ops, registry>>

constant ==
  /\ "CONSTANT" \in UserOps
  /\ \E c \in Literals : Allocate(<<ACConstantOp(c)>>)

\* (Mutant: the operation is its own input.)
negate_itself ==
  /\ "NEG" \in UserOps
  /\ Allocate(<<UnaryOperation("NEG", Len(ops) + 1)>>)

negate ==
  /\ "NEG" \in UserOps
  /\ \E p \in ScalarNodes : Allocate(<<UnaryOperation("NEG", p)>>)

binary ==
  \E type \in BinaryOps \cap UserOps, left, right \in ScalarNodes :
    Allocate(<<BinaryOperation(type, left, right)>>)

\* The hash is a vector; the caller is given its four elements.
hash_no_pad ==
  \E n \in HashArities : \E in \in [1 .. n -> ScalarNodes] :
    Allocate(<<VectorInputOperation("POSEIDON_HASH", in)>>
               \o [i \in 1 .. HASH_SIZE |->
                     TargetAtOperation(Len(ops) + 1, i - 1)])

add_generator ==
  /\ GeneratorBits # {}
  /\ registry' = registry \cup {BitSum}
  /\ UNCHANGED <<ops, input_target_count, generator_target_count, assertions,
                 generators, output_ops>>

\* new_generator records the definition, then runs the generator's constrain,
\* which calls the builder back.  An id that is not registered throws before
\* anything changes.
new_generator(arg, bits) ==
  LET base == Len(ops) IN
  /\ BitSum \in registry
  /\ Len(generators) < MaxGenerators
  /\ ops' = ops \o constrain(base, bits)
  /\ generators' = Append(generators,
       [generator_id |-> BitSum, inputs |-> <<arg>>, constants |-> <<bits>>,
        num_outputs |-> num_outputs(<<bits>>),
        start_generator_output_index |-> generator_target_count])
  /\ generator_target_count' = generator_target_count + bits
  /\ assertions' = assertions \o ConstrainAssertions(base, bits, arg)
  /\ UNCHANGED <<input_target_count, output_ops, registry>>

connect(left, right) ==
  /\ Len(assertions) < MaxAssertions
  /\ assertions' = Append(assertions, [left |-> left, right |-> right])
  /\ UNCHANGED <<ops, input_target_count, generator_target_count, generators,
                 output_ops, registry>>

register_output(p) ==
  /\ Len(output_ops) < MaxOutputs
  /\ output_ops' = Append(output_ops, p)
  /\ UNCHANGED <<ops, input_target_count, generator_target_count, assertions,
                 generators, registry>>

BuilderNext ==
  \/ add_input
  \/ add_generator_input
  \/ constant
  \/ negate
  \/ binary
  \/ hash_no_pad
  \/ add_generator
  \/ \E arg \in ScalarNodes, bits \in GeneratorBits :
       GeneratorArg(ops[arg].op_type) /\ new_generator(arg, bits)
  \/ \E left, right \in ScalarNodes : connect(left, right)
  \/ \E p \in ScalarNodes : register_output(p)
-----------------------------------------------------------------------------
(* The type of the heap, part of the type invariant of CircuitFinalizer     *)

Pointers == 1 .. Len(ops)

ConstantWords ==
  Int \cup Literals \cup UNION {{2 ^ i : i \in 0 .. bits} : bits \in GeneratorBits}

Node == [op_type : OpType, inputs : Seq(Nat), constants : Seq(ConstantWords)]

GeneratorDefinition ==
  [generator_id : {BitSum}, inputs : Seq(Nat), constants : Seq(Nat),
   num_outputs : Nat, start_generator_output_index : Nat]

\* The number of inputs of an operation that takes a fixed number.
Arity(type) ==
  IF type \in BinaryOps THEN 2 ELSE IF type \in {"NEG", "TARGET_AT"} THEN 1 ELSE 0

HasConstant == {"CONSTANT", "INPUT", "GENERATOR_INPUT", "TARGET_AT"}

\* A node has older nodes for inputs, as many as its class takes: a vector if it
\* picks an element, which the vector has, and single targets otherwise.  The
\* index of an input or generator input is one that was handed out.
NodeOK(p) ==
  LET type == ops[p].op_type IN
  /\ \A i \in 1 .. Len(ops[p].inputs) :
       /\ ops[p].inputs[i] \in 1 .. p - 1
       /\ IsVector(ops[ops[p].inputs[i]].op_type) <=> type = "TARGET_AT"
  /\ ~IsVector(type) => Len(ops[p].inputs) = Arity(type)
  /\ Len(ops[p].constants) = IF type \in HasConstant THEN 1 ELSE 0
  /\ type = "TARGET_AT" => ops[p].constants[1] \in 0 .. HASH_SIZE - 1
  /\ type = "INPUT" => ops[p].constants[1] \in 0 .. input_target_count - 1
  /\ type = "GENERATOR_INPUT" => ops[p].constants[1] \in 0 .. generator_target_count - 1

NodesOK ==
  /\ ops \in Seq(Node)
  /\ \A p \in Pointers : NodeOK(p)

\* What the author asks for is in the heap, and has a value that is one target.
RootsOK ==
  /\ assertions \in Seq([left : Nat, right : Nat])
  /\ \A a \in 1 .. Len(assertions) :
       assertions[a].left \in ScalarNodes /\ assertions[a].right \in ScalarNodes
  /\ output_ops \in Seq(Nat)
  /\ \A o \in 1 .. Len(output_ops) : output_ops[o] \in ScalarNodes
  /\ generators \in Seq(GeneratorDefinition)
  /\ \A g \in 1 .. Len(generators) :
       /\ generators[g].inputs \in [1 .. 1 -> ScalarNodes]
       /\ generators[g].constants = <<generators[g].num_outputs>>

EndOfOutputs(g) ==
  generators[g].start_generator_output_index + generators[g].num_outputs

\* No two generators have an output in common.
OutputsOK ==
  \A g \in 1 .. Len(generators) :
    /\ EndOfOutputs(g) <= generator_target_count
    /\ \A h \in g + 1 .. Len(generators) :
         EndOfOutputs(g) <= generators[h].start_generator_output_index

HeapOK ==
  /\ NodesOK
  /\ RootsOK
  /\ OutputsOK
  /\ input_target_count \in Nat
  /\ generator_target_count \in Nat
=============================================================================
