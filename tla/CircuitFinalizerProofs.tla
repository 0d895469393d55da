----------------------- MODULE CircuitFinalizerProofs -----------------------
(***************************************************************************)
(* CircuitFinalizer (include/circuitpp/builder.h) for every circuit and    *)
(* any number of builds.                                                   *)
(*                                                                         *)
(* The heap of ACCircuitBuilder is well formed after any sequence of calls:*)
(* nodes are given older nodes only, and assertions, outputs and           *)
(* generators refer to nodes that exist.                                   *)
(*                                                                         *)
(* TypeOK /\ StackOK is inductive: the call stack of visit_op holds        *)
(* unresolved nodes, newest first, so that the node a call finishes has no *)
(* id yet and leaves the frames below it as they are.                      *)
(*                                                                         *)
(* The first build of a circuit leaves it for the evaluator: the ids       *)
(* visit_op hands out from its counters are the places and the slots the   *)
(* evaluator will count to, the list can be executed in one pass, and it   *)
(* holds what is needed and nothing else.                                  *)
(*                                                                         *)
(* new_generator numbers the outputs of generators one generator after the *)
(* other, and the evaluator, which lays them out in the same order from a  *)
(* counter of its own, finds them at the targets the finalizer gave them.  *)
(* When generators only take inputs and outputs of generators, no          *)
(* operation is due before the generators whose outputs it reads.          *)
(***************************************************************************)
EXTENDS CircuitFinalizer, FiniteSetTheorems, SequenceTheorems,
        WellFoundedInduction, TLAPS

-----------------------------------------------------------------------------
(* Nodes                                                                   *)

\* What a node owes to its class: it may stand on the heap above the first
\* `last` nodes.
Placed(node, last) ==
  /\ node \in Node
  /\ \A i \in 1 .. Len(node.inputs) : node.inputs[i] \in 1 .. last
  /\ ~IsVector(node.op_type) => Len(node.inputs) = Arity(node.op_type)
  /\ Len(node.constants) = IF node.op_type \in HasConstant THEN 1 ELSE 0
  /\ node.op_type = "TARGET_AT" => node.constants[1] \in 0 .. HASH_SIZE - 1

\* What it owes to the heap it stands on, and to the indices handed out.
Fits(node, heap, inputTargets, generatorTargets) ==
  /\ \A i \in 1 .. Len(node.inputs) :
       IsVector(heap[node.inputs[i]].op_type) <=> node.op_type = "TARGET_AT"
  /\ node.op_type = "INPUT" => node.constants[1] \in 0 .. inputTargets - 1
  /\ node.op_type = "GENERATOR_INPUT" => node.constants[1] \in 0 .. generatorTargets - 1

\* NodesOK in these terms.
LEMMA NodesArePlaced ==
  NodesOK <=>
    /\ ops \in Seq(Node)
    /\ \A p \in Pointers :
         /\ Placed(ops[p], p - 1)
         /\ Fits(ops[p], ops, input_target_count, generator_target_count)
<1>1. ASSUME ops \in Seq(Node), NEW p \in Pointers PROVE ops[p] \in Node
  BY <1>1 DEF Pointers
<1> QED BY <1>1 DEF NodesOK, NodeOK, Placed, Fits

\* The nodes that have no inputs.
LEMMA LeafPlaced ==
  /\ \A c \in ConstantWords, last \in Nat : Placed(ACConstantOp(c), last)
  /\ \A index \in Nat, last \in Nat :
       Placed(ACInputOp(index), last) /\ Placed(ACGeneratorInputOp(index), last)
BY DEF Placed, ACConstantOp, ACInputOp, ACGeneratorInputOp, Operation, Node, OpType,
       ConstantWords, BinaryOps, IsVector, Arity, HasConstant

\* The nodes that have.
LEMMA OperationPlaced ==
  ASSUME NEW last \in Nat
  PROVE  /\ \A v \in 1 .. last, index \in 0 .. HASH_SIZE - 1 :
              Placed(TargetAtOperation(v, index), last)
         /\ \A p \in 1 .. last : Placed(UnaryOperation("NEG", p), last)
         /\ \A type \in BinaryOps, p \in 1 .. last, q \in 1 .. last :
              Placed(BinaryOperation(type, p, q), last)
         /\ \A in \in Seq(1 .. last) : Placed(VectorInputOperation("POSEIDON_HASH", in), last)
<1>1. \A v \in 1 .. last, index \in 0 .. HASH_SIZE - 1 :
        Placed(TargetAtOperation(v, index), last)
  BY DEF Placed, TargetAtOperation, Operation, Node, OpType, BinaryOps, ConstantWords,
         IsVector, Arity, HasConstant, HASH_SIZE
<1>2. \A p \in 1 .. last : Placed(UnaryOperation("NEG", p), last)
  BY DEF Placed, UnaryOperation, Operation, Node, OpType, BinaryOps, ConstantWords,
         IsVector, Arity, HasConstant
<1>3. ASSUME NEW type \in BinaryOps, NEW p \in 1 .. last, NEW q \in 1 .. last
      PROVE  Placed(BinaryOperation(type, p, q), last)
  <2>1. /\ <<p, q>> \in Seq(Nat) /\ Len(<<p, q>>) = 2
        /\ \A i \in 1 .. Len(<<p, q>>) : <<p, q>>[i] \in 1 .. last
    OBVIOUS
  <2>2. type \in OpType /\ type \notin HasConstant /\ type # "TARGET_AT"
    BY DEF BinaryOps, OpType, HasConstant
  <2> QED BY <2>1, <2>2 DEF Placed, BinaryOperation, Operation, Node, Arity
<1>4. ASSUME NEW in \in Seq(1 .. last)
      PROVE  Placed(VectorInputOperation("POSEIDON_HASH", in), last)
  <2>1. in \in Seq(Nat) /\ \A i \in 1 .. Len(in) : in[i] \in 1 .. last
    <3>1. \A i \in 1 .. Len(in) : in[i] \in 1 .. last
      BY ElementOfSeq
    <3>2. Len(in) \in Nat /\ in \in [1 .. Len(in) -> 1 .. last]
      BY LenProperties
    <3>3. in \in [1 .. Len(in) -> Nat]
      BY <3>1, <3>2
    <3> QED BY <3>1, <3>2, <3>3, SeqDef
  <2> QED BY <2>1 DEF Placed, VectorInputOperation, Operation, Node, OpType, BinaryOps,
                      IsVector, HasConstant
<1> QED BY <1>1, <1>2, <1>3, <1>4

-----------------------------------------------------------------------------
(* Adding to the heap                                                      *)

\* What the calls of the builder leave of the heap: old nodes as they are.
HeapGrows ==
  /\ Len(ops) <= Len(ops')
  /\ \A p \in Pointers : ops'[p] = ops[p]

\* A sequence of nodes that may be allocated.
NewNodes(nodes) ==
  /\ nodes \in Seq(Node)
  /\ \A k \in 1 .. Len(nodes) : Placed(nodes[k], Len(ops) + k - 1)

\* The nodes fit the heap they are allocated on, when that many indices have
\* been handed out.
FitNodes(nodes, inputTargets, generatorTargets) ==
  \A k \in 1 .. Len(nodes) :
    Fits(nodes[k], ops \o nodes, inputTargets, generatorTargets)

\* Indices are never taken back.
CountsGrow ==
  /\ input_target_count \in Nat /\ input_target_count' \in Nat
  /\ generator_target_count \in Nat /\ generator_target_count' \in Nat
  /\ input_target_count <= input_target_count'
  /\ generator_target_count <= generator_target_count'

\* An old node fits the larger heap.
LEMMA StillFits ==
  ASSUME NodesOK, HeapGrows, CountsGrow, NEW p \in Pointers
  PROVE  Fits(ops[p], ops', input_target_count', generator_target_count')
<1>1. /\ Fits(ops[p], ops, input_target_count, generator_target_count)
      /\ Placed(ops[p], p - 1)
  BY NodesArePlaced
<1>2. \A i \in 1 .. Len(ops[p].inputs) : ops'[ops[p].inputs[i]] = ops[ops[p].inputs[i]]
  <2>1. Len(ops) \in Nat
    BY LenProperties DEF NodesOK
  <2>2. PICK last \in Nat : last = p - 1 /\ last < Len(ops)
    BY <2>1 DEF Pointers
  <2>3. ASSUME NEW i \in 1 .. Len(ops[p].inputs)
        PROVE  ops[p].inputs[i] \in Pointers
    <3>1. ops[p].inputs[i] \in 1 .. last
      BY <1>1, <2>2 DEF Placed
    <3> QED BY <2>1, <2>2, <3>1 DEF Pointers
  <2> QED BY <2>3 DEF HeapGrows
<1> QED BY <1>1, <1>2 DEF Fits, CountsGrow

\* Allocating nodes that fit keeps the nodes well formed.
LEMMA Allocation ==
  ASSUME NodesOK, NEW nodes, NewNodes(nodes), ops' = ops \o nodes, CountsGrow,
         FitNodes(nodes, input_target_count', generator_target_count')
  PROVE  NodesOK' /\ HeapGrows /\ Len(ops') = Len(ops) + Len(nodes)
<1>1. /\ ops' \in Seq(Node)
      /\ Len(ops') = Len(ops) + Len(nodes)
      /\ \A p \in 1 .. Len(ops) + Len(nodes) :
           ops'[p] = IF p <= Len(ops) THEN ops[p] ELSE nodes[p - Len(ops)]
  BY ConcatProperties DEF NodesOK, NewNodes
<1>2. Len(ops) \in Nat /\ Len(nodes) \in Nat
  BY LenProperties DEF NodesOK, NewNodes
<1>3. HeapGrows
  BY <1>1, <1>2 DEF HeapGrows, Pointers
<1>4. ASSUME NEW p \in 1 .. Len(ops')
      PROVE  /\ Placed(ops'[p], p - 1)
             /\ Fits(ops'[p], ops', input_target_count', generator_target_count')
  <2>1. CASE p <= Len(ops)
    <3>1. p \in Pointers /\ ops'[p] = ops[p]
      BY <1>1, <1>2, <2>1 DEF Pointers
    <3> QED BY <1>3, <3>1, NodesArePlaced, StillFits
  <2>2. CASE p > Len(ops)
    <3>1. p - Len(ops) \in 1 .. Len(nodes) /\ ops'[p] = nodes[p - Len(ops)]
      BY <1>1, <1>2, <2>2
    <3>2. Len(ops) + (p - Len(ops)) - 1 = p - 1
      BY <1>1, <1>2
    <3>3. Placed(nodes[p - Len(ops)], Len(ops) + (p - Len(ops)) - 1)
      BY <3>1 DEF NewNodes
    <3>4. Fits(nodes[p - Len(ops)], ops', input_target_count', generator_target_count')
      BY <3>1 DEF FitNodes
    <3> QED BY <3>1, <3>2, <3>3, <3>4
  <2> QED BY <1>1, <1>2, <2>1, <2>2
<1>5. NodesOK'
  BY <1>1, <1>4 DEF NodesOK, NodeOK, Placed, Fits, Pointers
<1> QED BY <1>1, <1>3, <1>5

\* A scalar node stays one.
LEMMA ScalarsPersist ==
  ASSUME NodesOK, NodesOK', HeapGrows
  PROVE  ScalarNodes \subseteq ScalarNodes'
<1>1. Len(ops) \in Nat /\ Len(ops') \in Nat
  BY LenProperties DEF NodesOK
<1> QED BY <1>1 DEF HeapGrows, Pointers, ScalarNodes

\* What refers to nodes of the heap refers to nodes of a larger heap.
LEMMA RootsPersist ==
  ASSUME NodesOK, RootsOK, NodesOK', HeapGrows,
         UNCHANGED <<assertions, output_ops, generators>>
  PROVE  RootsOK'
<1>1. \A p : p \in ScalarNodes => p \in ScalarNodes'
  BY ScalarsPersist
<1>2. \A g \in 1 .. Len(generators) : generators[g].inputs \in [1 .. 1 -> ScalarNodes']
  BY <1>1 DEF RootsOK
<1> QED BY <1>1, <1>2 DEF RootsOK

\* A node by itself, on scalar nodes.
LEMMA OneNode ==
  ASSUME NodesOK, NEW node, Placed(node, Len(ops)), node.op_type # "TARGET_AT",
         \A i \in 1 .. Len(node.inputs) : node.inputs[i] \in ScalarNodes,
         NEW m, NEW n,
         node.op_type = "INPUT" => node.constants[1] \in 0 .. m - 1,
         node.op_type = "GENERATOR_INPUT" => node.constants[1] \in 0 .. n - 1
  PROVE  NewNodes(<<node>>) /\ FitNodes(<<node>>, m, n)
<1>1. node \in Node
  BY DEF Placed
<1>2. <<node>> \in Seq(Node) /\ Len(<<node>>) = 1 /\ <<node>>[1] = node
  BY <1>1
<1>3. Len(ops) \in Nat
  BY LenProperties DEF NodesOK
<1>4. \A q \in ScalarNodes : (ops \o <<node>>)[q] = ops[q]
  BY <1>2, <1>3, ConcatProperties DEF NodesOK, ScalarNodes
<1>5. Fits(node, ops \o <<node>>, m, n)
  BY <1>4 DEF Fits, ScalarNodes
<1> QED BY <1>2, <1>3, <1>5 DEF NewNodes, FitNodes

-----------------------------------------------------------------------------
(* The nodes of a bit sum                                                  *)

\* They are scalar nodes on each other; their generator inputs have the indices
\* the call has taken.
SumNode(node, base, limit) ==
  /\ node.op_type \in BinaryOps \cup {"CONSTANT", "GENERATOR_INPUT"}
  /\ \A i \in 1 .. Len(node.inputs) : node.inputs[i] > base
  /\ node.op_type = "GENERATOR_INPUT" => node.constants[1] \in 0 .. limit - 1

\* The classes constrain allocates are such nodes.
LEMMA SumNodeCases ==
  /\ \A c, base, limit : SumNode(ACConstantOp(c), base, limit)
  /\ \A index, base, limit :
       index \in 0 .. limit - 1 => SumNode(ACGeneratorInputOp(index), base, limit)
  /\ \A type \in BinaryOps, p \in Nat, q \in Nat, base \in Nat : \A limit :
       p > base /\ q > base => SumNode(BinaryOperation(type, p, q), base, limit)
<1>1. \A c, base, limit : SumNode(ACConstantOp(c), base, limit)
  BY DEF SumNode, ACConstantOp, Operation
<1>2. \A index, base, limit :
        index \in 0 .. limit - 1 => SumNode(ACGeneratorInputOp(index), base, limit)
  BY DEF SumNode, ACGeneratorInputOp, Operation
<1>3. ASSUME NEW type \in BinaryOps, NEW p \in Nat, NEW q \in Nat, NEW base \in Nat,
             NEW limit, p > base, q > base
      PROVE  SumNode(BinaryOperation(type, p, q), base, limit)
  <2>1. \A i \in 1 .. Len(<<p, q>>) : <<p, q>>[i] > base
    BY <1>3
  <2>2. type # "GENERATOR_INPUT"
    BY DEF BinaryOps
  <2> QED BY <2>1, <2>2 DEF SumNode, BinaryOperation, Operation
<1> QED BY <1>1, <1>2, <1>3

\* The first part of constrain: the input, the difference and the product of
\* each bit only refer to nodes before them.
LEMMA BitNodes ==
  ASSUME NEW base \in Nat, NEW bits \in Nat \ {0}, generator_target_count \in Nat,
         NEW j \in 1 .. 3 * bits
  PROVE  LET node == ConstrainBit(base, (j - 1) \div 3)[((j - 1) % 3) + 1] IN
         /\ Placed(node, base + 2 + j - 1)
         /\ SumNode(node, base, generator_target_count + bits)
<1> DEFINE t == (j - 1) \div 3
           m == (j - 1) % 3
           last == base + 2 + j - 1
           limit == generator_target_count + bits
           node == ConstrainBit(base, t)[m + 1]
<1>1. t \in 0 .. bits - 1 /\ m \in 0 .. 2 /\ j = 3 * t + m + 1
  OBVIOUS
<1> SUFFICES Placed(node, last) /\ SumNode(node, base, limit)
  OBVIOUS
<1> HIDE DEF t, m
<1>2. /\ BitInput(base, t) \in Nat /\ BitInput(base, t) > base
      /\ generator_target_count + t \in Nat /\ last \in Nat
      /\ generator_target_count + t \in 0 .. limit - 1
  BY <1>1 DEF BitInput
<1>3. CASE m = 0
  <2>1. node = ACGeneratorInputOp(generator_target_count + t)
    BY <1>3 DEF ConstrainBit
  <2> HIDE DEF node, last, limit
  <2> QED BY <2>1, <1>2, LeafPlaced, SumNodeCases
<1>4. CASE m = 1
  <2>1. node = BinaryOperation("SUB", base + 1, BitInput(base, t))
    BY <1>4 DEF ConstrainBit
  <2>2. base + 1 \in 1 .. last /\ BitInput(base, t) \in 1 .. last
    BY <1>1, <1>4 DEF BitInput
  <2>3. Placed(node, last) /\ SumNode(node, base, limit)
    <3>1. base + 1 \in Nat /\ base + 1 > base
      OBVIOUS
    <3> HIDE DEF node, last, limit
    <3> QED BY <2>1, <2>2, <1>2, <3>1, OperationPlaced, SumNodeCases DEF BinaryOps
  <2> QED BY <2>3
<1>5. CASE m = 2
  <2>1. node = BinaryOperation("MUL", BitInput(base, t), BitInput(base, t) + 1)
    BY <1>5 DEF ConstrainBit
  <2>2. /\ BitInput(base, t) \in 1 .. last
        /\ BitInput(base, t) + 1 \in 1 .. last
        /\ BitInput(base, t) + 1 > base /\ BitInput(base, t) + 1 \in Nat
    BY <1>1, <1>2, <1>5 DEF BitInput
  <2>3. Placed(node, last) /\ SumNode(node, base, limit)
    <3> HIDE DEF node, last, limit
    <3> QED BY <2>1, <2>2, <1>2, OperationPlaced, SumNodeCases DEF BinaryOps
  <2> QED BY <2>3
<1>6. m = 0 \/ m = 1 \/ m = 2
  BY <1>1
<1> HIDE DEF node, last, limit
<1> QED BY <1>3, <1>4, <1>5, <1>6

\* The second part: so do the power of two, the product and the sum.
LEMMA SumNodes ==
  ASSUME NEW base \in Nat, NEW bits \in GeneratorBits, bits \in Nat \ {0}, NEW limit,
         NEW j \in 1 .. 3 * (bits - 1)
  PROVE  LET node == AccumulateBit(base, bits, ((j - 1) \div 3) + 1)[((j - 1) % 3) + 1] IN
         /\ Placed(node, base + 2 + 3 * bits + j - 1)
         /\ SumNode(node, base, limit)
<1> DEFINE t == ((j - 1) \div 3) + 1
           m == (j - 1) % 3
           node == AccumulateBit(base, bits, t)[m + 1]
           power == base + 3 * (bits + t)
           last == base + 2 + 3 * bits + j - 1
<1>1. t \in 1 .. bits - 1 /\ m \in 0 .. 2 /\ j = 3 * t - 2 + m
  OBVIOUS
<1> SUFFICES Placed(node, last) /\ SumNode(node, base, limit)
  OBVIOUS
<1> HIDE DEF t, m
<1>2. last \in Nat
  BY <1>1
<1>3. CASE m = 0
  <2>1. node = ACConstantOp(2 ^ t)
    BY <1>3 DEF AccumulateBit
  <2>2. 2 ^ t \in ConstantWords
    BY <1>1 DEF ConstantWords
  <2>3. Placed(node, last) /\ SumNode(node, base, limit)
    <3> HIDE DEF node, last
    <3> QED BY <2>1, <2>2, <1>2, LeafPlaced, SumNodeCases
  <2> QED BY <2>3
<1>4. CASE m = 1
  <2>1. node = BinaryOperation("MUL", BitInput(base, t), power)
    BY <1>4 DEF AccumulateBit
  <2>2. /\ BitInput(base, t) \in 1 .. last /\ power \in 1 .. last
        /\ BitInput(base, t) > base /\ power > base
        /\ BitInput(base, t) \in Nat /\ power \in Nat
    BY <1>1, <1>4 DEF BitInput
  <2>3. Placed(node, last) /\ SumNode(node, base, limit)
    <3> HIDE DEF node, last, power
    <3> QED BY <2>1, <2>2, <1>2, OperationPlaced, SumNodeCases DEF BinaryOps
  <2> QED BY <2>3
<1>5. CASE m = 2
  <2> DEFINE total == IF t = 1 THEN BitInput(base, 0) ELSE power - 1
  <2>1. node = BinaryOperation("ADD", total, power + 1)
    BY <1>5 DEF AccumulateBit
  <2>2. /\ total \in 1 .. last /\ power + 1 \in 1 .. last
        /\ total > base /\ power + 1 > base /\ total \in Nat /\ power + 1 \in Nat
    BY <1>1, <1>5 DEF BitInput
  <2>3. Placed(node, last) /\ SumNode(node, base, limit)
    <3> HIDE DEF node, last, power, total
    <3> QED BY <2>1, <2>2, <1>2, OperationPlaced, SumNodeCases DEF BinaryOps
  <2> QED BY <2>3
<1>6. m = 0 \/ m = 1 \/ m = 2
  BY <1>1
<1> HIDE DEF node, last
<1> QED BY <1>3, <1>4, <1>5, <1>6

\* Two sequences of placed nodes, one after the other.
LEMMA PlacedConcat ==
  ASSUME NEW base \in Nat, NEW A \in Seq(Node), NEW B \in Seq(Node),
         \A k \in 1 .. Len(A) : Placed(A[k], base + k - 1),
         \A k \in 1 .. Len(B) : Placed(B[k], base + Len(A) + k - 1)
  PROVE  /\ A \o B \in Seq(Node)
         /\ Len(A \o B) = Len(A) + Len(B)
         /\ \A k \in 1 .. Len(A \o B) : Placed((A \o B)[k], base + k - 1)
<1>1. Len(A) \in Nat /\ Len(B) \in Nat
  BY LenProperties
<1>2. /\ A \o B \in Seq(Node)
      /\ Len(A \o B) = Len(A) + Len(B)
      /\ \A k \in 1 .. Len(A) + Len(B) :
           (A \o B)[k] = IF k <= Len(A) THEN A[k] ELSE B[k - Len(A)]
  BY ConcatProperties
<1>3. ASSUME NEW k \in 1 .. Len(A) + Len(B)
      PROVE  Placed((A \o B)[k], base + k - 1)
  <2>1. CASE k <= Len(A)
    <3>1. k \in 1 .. Len(A) /\ (A \o B)[k] = A[k]
      BY <1>1, <1>2, <2>1
    <3> QED BY <3>1
  <2>2. CASE ~(k <= Len(A))
    <3>1. k - Len(A) \in 1 .. Len(B) /\ (A \o B)[k] = B[k - Len(A)]
      BY <1>1, <1>2, <2>2
    <3>2. base + Len(A) + (k - Len(A)) - 1 = base + k - 1
      BY <1>1
    <3>3. Placed(B[k - Len(A)], base + Len(A) + (k - Len(A)) - 1)
      BY <3>1
    <3> QED BY <3>1, <3>2, <3>3
  <2> QED BY <2>1, <2>2
<1> QED BY <1>2, <1>3

\* Two sequences of nodes of a bit sum, one after the other.
LEMMA SumConcat ==
  ASSUME NEW A \in Seq(Node), NEW B \in Seq(Node), NEW base, NEW limit,
         \A k \in 1 .. Len(A) : SumNode(A[k], base, limit),
         \A k \in 1 .. Len(B) : SumNode(B[k], base, limit)
  PROVE  \A k \in 1 .. Len(A \o B) : SumNode((A \o B)[k], base, limit)
<1>1. Len(A) \in Nat /\ Len(B) \in Nat
  BY LenProperties
<1>2. /\ Len(A \o B) = Len(A) + Len(B)
      /\ \A k \in 1 .. Len(A) + Len(B) :
           (A \o B)[k] = IF k <= Len(A) THEN A[k] ELSE B[k - Len(A)]
  BY ConcatProperties
<1>3. \A k \in 1 .. Len(A) + Len(B) : ~(k <= Len(A)) => k - Len(A) \in 1 .. Len(B)
  BY <1>1
<1> QED BY <1>1, <1>2, <1>3

\* Nodes of a bit sum fit the heap: they only read each other.
LEMMA SumNodesFit ==
  ASSUME NodesOK, NEW nodes, NewNodes(nodes), NEW m, NEW limit,
         \A k \in 1 .. Len(nodes) : SumNode(nodes[k], Len(ops), limit)
  PROVE  /\ FitNodes(nodes, m, limit)
         /\ \A q \in Len(ops) + 1 .. Len(ops) + Len(nodes) :
              ~IsVector((ops \o nodes)[q].op_type)
<1>1. Len(ops) \in Nat /\ Len(nodes) \in Nat
  BY LenProperties DEF NodesOK, NewNodes
<1>2. ASSUME NEW q \in Len(ops) + 1 .. Len(ops) + Len(nodes)
      PROVE  ~IsVector((ops \o nodes)[q].op_type)
  <2>1. (ops \o nodes)[q] = nodes[q - Len(ops)] /\ q - Len(ops) \in 1 .. Len(nodes)
    BY <1>1, ConcatProperties DEF NodesOK, NewNodes
  <2>2. SumNode(nodes[q - Len(ops)], Len(ops), limit)
    BY <2>1
  <2> QED BY <2>1, <2>2 DEF SumNode, IsVector, BinaryOps
<1>3. ASSUME NEW k \in 1 .. Len(nodes)
      PROVE  Fits(nodes[k], ops \o nodes, m, limit)
  <2>1. SumNode(nodes[k], Len(ops), limit) /\ Placed(nodes[k], Len(ops) + k - 1)
    BY DEF NewNodes
  <2>2. \A i \in 1 .. Len(nodes[k].inputs) :
          nodes[k].inputs[i] \in Len(ops) + 1 .. Len(ops) + Len(nodes)
    BY <1>1, <2>1 DEF SumNode, Placed
  <2>3. nodes[k].op_type # "TARGET_AT" /\ nodes[k].op_type # "INPUT"
    BY <2>1 DEF SumNode, BinaryOps
  <2> QED BY <1>2, <2>1, <2>2, <2>3 DEF Fits, SumNode
<1> QED BY <1>2, <1>3 DEF FitNodes

\* constrain allocates nodes that refer to nodes before them.
LEMMA ConstrainNodes ==
  ASSUME NodesOK, NEW bits \in GeneratorBits, generator_target_count \in Nat
  PROVE  /\ NewNodes(constrain(Len(ops), bits))
         /\ Len(constrain(Len(ops), bits)) = 2 + 3 * bits + 3 * (bits - 1)
         /\ \A k \in 1 .. Len(constrain(Len(ops), bits)) :
              SumNode(constrain(Len(ops), bits)[k], Len(ops), generator_target_count + bits)
<1> DEFINE base == Len(ops)
           A == <<ACConstantOp(1), ACConstantOp(0)>>
           B == [j \in 1 .. 3 * bits |->
                   ConstrainBit(base, (j - 1) \div 3)[((j - 1) % 3) + 1]]
           C == [j \in 1 .. 3 * (bits - 1) |->
                   AccumulateBit(base, bits, ((j - 1) \div 3) + 1)[((j - 1) % 3) + 1]]
           limit == generator_target_count + bits
<1>1. bits \in Nat \ {0} /\ 3 * bits \in Nat /\ 3 * (bits - 1) \in Nat
  BY AuthorAssumption
<1>2. base \in Nat
  BY LenProperties DEF NodesOK
<1> HIDE DEF base
<1>3. /\ A \in Seq(Node)
      /\ Len(A) = 2
      /\ \A k \in 1 .. Len(A) : Placed(A[k], base + k - 1) /\ SumNode(A[k], base, limit)
  <2>1. /\ \A last \in Nat : Placed(ACConstantOp(1), last) /\ Placed(ACConstantOp(0), last)
        /\ SumNode(ACConstantOp(1), base, limit) /\ SumNode(ACConstantOp(0), base, limit)
    BY LeafPlaced, SumNodeCases DEF ConstantWords
  <2>2. ACConstantOp(1) \in Node /\ ACConstantOp(0) \in Node
    BY <2>1, <1>2 DEF Placed
  <2>3. /\ A \in Seq(Node) /\ Len(A) = 2
        /\ A[1] = ACConstantOp(1) /\ A[2] = ACConstantOp(0)
    BY <2>2
  <2> HIDE DEF A
  <2> QED BY <2>1, <2>3, <1>2
<1>4. /\ B \in Seq(Node)
      /\ Len(B) = 3 * bits
      /\ \A j \in 1 .. 3 * bits : Placed(B[j], base + 2 + j - 1) /\ SumNode(B[j], base, limit)
  <2>1. \A j \in 1 .. 3 * bits : Placed(B[j], base + 2 + j - 1) /\ SumNode(B[j], base, limit)
    BY <1>1, <1>2, BitNodes
  <2>2. B \in [1 .. 3 * bits -> Node]
    BY <2>1 DEF Placed
  <2>3. B \in Seq(Node) /\ Len(B) = 3 * bits
    BY <2>2, <1>1, SeqDef
  <2> QED BY <2>1, <2>3
<1>5. /\ C \in Seq(Node)
      /\ Len(C) = 3 * (bits - 1)
      /\ \A j \in 1 .. 3 * (bits - 1) :
           Placed(C[j], base + 2 + 3 * bits + j - 1) /\ SumNode(C[j], base, limit)
  <2>1. \A j \in 1 .. 3 * (bits - 1) :
          Placed(C[j], base + 2 + 3 * bits + j - 1) /\ SumNode(C[j], base, limit)
    BY <1>1, <1>2, SumNodes
  <2>2. C \in [1 .. 3 * (bits - 1) -> Node]
    BY <2>1 DEF Placed
  <2>3. C \in Seq(Node) /\ Len(C) = 3 * (bits - 1)
    BY <2>2, <1>1, SeqDef
  <2> QED BY <2>1, <2>3
<1>6. constrain(base, bits) = (A \o B) \o C
  BY DEF constrain
<1> HIDE DEF A, B, C, limit
<1>7. /\ A \o B \in Seq(Node)
      /\ Len(A \o B) = 2 + 3 * bits
      /\ \A k \in 1 .. Len(A \o B) : Placed((A \o B)[k], base + k - 1)
  <2>1. \A k \in 1 .. Len(B) : Placed(B[k], base + Len(A) + k - 1)
    BY <1>3, <1>4
  <2> QED BY <2>1, <1>2, <1>3, <1>4, PlacedConcat
<1>8. /\ (A \o B) \o C \in Seq(Node)
      /\ Len((A \o B) \o C) = 2 + 3 * bits + 3 * (bits - 1)
      /\ \A k \in 1 .. Len((A \o B) \o C) : Placed(((A \o B) \o C)[k], base + k - 1)
  <2> DEFINE D == A \o B
  <2>1. \A k \in 1 .. Len(C) : Placed(C[k], base + Len(D) + k - 1)
    <3>1. \A k \in 1 .. Len(C) : base + Len(D) + k - 1 = base + 2 + 3 * bits + k - 1
      BY <1>1, <1>2, <1>7, <1>5
    <3> QED BY <3>1, <1>5
  <2> HIDE DEF D
  <2> QED BY <2>1, <1>2, <1>7, <1>5, PlacedConcat DEF D
<1>9. \A k \in 1 .. Len((A \o B) \o C) : SumNode(((A \o B) \o C)[k], base, limit)
  <2>1. \A k \in 1 .. Len(A \o B) : SumNode((A \o B)[k], base, limit)
    BY <1>3, <1>4, SumConcat
  <2> QED BY <2>1, <1>5, <1>7, SumConcat
<1> QED BY <1>6, <1>8, <1>9 DEF NewNodes, base, limit

\* The assertions of a bit sum are between its argument and its nodes.
LEMMA ConstrainRoots ==
  ASSUME NEW base \in Nat, NEW bits \in Nat \ {0},
         NEW size \in Nat, size = base + 2 + 3 * bits + 3 * (bits - 1),
         NEW S \in SUBSET Nat, base + 1 .. size \subseteq S, NEW arg \in S
  PROVE  /\ ConstrainAssertions(base, bits, arg) \in Seq([left : Nat, right : Nat])
         /\ \A a \in 1 .. Len(ConstrainAssertions(base, bits, arg)) :
              /\ ConstrainAssertions(base, bits, arg)[a].left \in S
              /\ ConstrainAssertions(base, bits, arg)[a].right \in S
<1> DEFINE Pair == [left : S, right : S]
           A == [i \in 1 .. bits |-> [left |-> BitProduct(base, i - 1), right |-> base + 2]]
           B == <<[left |-> arg, right |-> BitsTotal(base, bits)]>>
<1>1. A \in Seq(Pair) /\ Len(A) = bits
  <2>1. \A i \in 1 .. bits : BitProduct(base, i - 1) \in base + 1 .. size
    BY DEF BitProduct
  <2>2. base + 2 \in base + 1 .. size
    OBVIOUS
  <2>3. A \in [1 .. bits -> Pair]
    BY <2>1, <2>2
  <2> QED BY <2>3, SeqDef
<1>2. B \in Seq(Pair) /\ Len(B) = 1
  <2>1. BitsTotal(base, bits) \in base + 1 .. size
    BY DEF BitsTotal, BitInput
  <2>2. [left |-> arg, right |-> BitsTotal(base, bits)] \in Pair
    BY <2>1
  <2> QED BY <2>2
<1>3. ConstrainAssertions(base, bits, arg) = A \o B
  BY DEF ConstrainAssertions
<1> DEFINE C == A \o B
<1>4. C \in Seq(Pair)
  <2> HIDE DEF A, B, Pair
  <2> QED BY <1>1, <1>2, ConcatProperties
<1> HIDE DEF C, A, B
<1>5. Len(C) \in Nat /\ C \in [1 .. Len(C) -> Pair]
  <2> HIDE DEF Pair
  <2> QED BY <1>4, LenProperties
<1>6. C \in [1 .. Len(C) -> [left : Nat, right : Nat]]
  BY <1>5
<1>7. C \in Seq([left : Nat, right : Nat])
  <2> DEFINE Pointer == [left : Nat, right : Nat]
  <2>1. C \in [1 .. Len(C) -> Pointer] /\ Len(C) \in Nat
    BY <1>5, <1>6
  <2> HIDE DEF Pointer
  <2>2. C \in Seq(Pointer)
    BY <2>1, SeqDef
  <2> QED BY <2>2 DEF Pointer
<1>8. \A a \in 1 .. Len(C) : C[a].left \in S /\ C[a].right \in S
  BY <1>5
<1> QED BY <1>3, <1>7, <1>8 DEF C

-----------------------------------------------------------------------------
(* The builder's calls                                                     *)

\* A call that allocates nodes and leaves assertions, outputs and generators.
LEMMA Insertion ==
  ASSUME HeapOK, NEW nodes, NewNodes(nodes), Insert(nodes), CountsGrow,
         FitNodes(nodes, input_target_count', generator_target_count'),
         UNCHANGED <<assertions, output_ops, generators>>
  PROVE  HeapOK' /\ HeapGrows
<1>1. NodesOK' /\ HeapGrows
  BY Allocation DEF HeapOK, Insert
<1>2. RootsOK'
  BY <1>1, RootsPersist DEF HeapOK
<1>3. OutputsOK'
  <2>1. ASSUME NEW g \in 1 .. Len(generators) PROVE EndOfOutputs(g) \in Nat
    <3>1. generators[g] \in GeneratorDefinition
      BY ElementOfSeq DEF HeapOK, RootsOK
    <3> QED BY <3>1 DEF GeneratorDefinition, EndOfOutputs
  <2> QED BY <2>1 DEF HeapOK, OutputsOK, EndOfOutputs, CountsGrow
<1> QED BY <1>1, <1>2, <1>3 DEF HeapOK, CountsGrow

\* A scalar node is a node.
LEMMA ScalarsAreNodes == ScalarNodes \subseteq Pointers
BY DEF ScalarNodes, Pointers

\* The nodes of hash_no_pad: the hash, and its elements which refer to it.
LEMMA HashNodes ==
  ASSUME NodesOK, NEW n \in Nat, NEW in \in [1 .. n -> ScalarNodes], NEW i0, NEW g0
  PROVE  LET nodes == <<VectorInputOperation("POSEIDON_HASH", in)>>
                        \o [i \in 1 .. HASH_SIZE |-> TargetAtOperation(Len(ops) + 1, i - 1)]
         IN  NewNodes(nodes) /\ FitNodes(nodes, i0, g0)
<1> DEFINE base == Len(ops)
           hash == VectorInputOperation("POSEIDON_HASH", in)
           A == <<hash>>
           B == [i \in 1 .. HASH_SIZE |-> TargetAtOperation(base + 1, i - 1)]
<1>1. base \in Nat
  BY LenProperties DEF NodesOK
<1>2. in \in Seq(1 .. base)
  <2>1. in \in [1 .. n -> 1 .. base]
    BY DEF ScalarNodes
  <2> QED BY <2>1, SeqDef
<1> HIDE DEF base
<1>3. Placed(hash, base)
  BY <1>1, <1>2, OperationPlaced
<1>4. A \in Seq(Node) /\ Len(A) = 1 /\ A[1] = hash
        /\ \A k \in 1 .. Len(A) : Placed(A[k], base + k - 1)
  <2>1. hash \in Node
    BY <1>3 DEF Placed
  <2> HIDE DEF hash
  <2>2. A \in Seq(Node) /\ Len(A) = 1 /\ A[1] = hash
    BY <2>1
  <2> HIDE DEF A
  <2> QED BY <1>1, <1>3, <2>2
<1>5. \A i \in 1 .. HASH_SIZE : Placed(B[i], base + 1 + i - 1)
  <2>1. \A i \in 1 .. HASH_SIZE :
          i - 1 \in 0 .. HASH_SIZE - 1 /\ base + 1 \in 1 .. base + 1 + i - 1
    BY <1>1 DEF HASH_SIZE
  <2>2. \A i \in 1 .. HASH_SIZE : base + 1 + i - 1 \in Nat
    BY <1>1 DEF HASH_SIZE
  <2> QED BY <2>1, <2>2, OperationPlaced
<1>6. B \in Seq(Node) /\ Len(B) = HASH_SIZE
  <2>1. B \in [1 .. HASH_SIZE -> Node]
    BY <1>5 DEF Placed
  <2> QED BY <2>1, SeqDef DEF HASH_SIZE
<1>7. \A i \in 1 .. HASH_SIZE : /\ B[i].op_type = "TARGET_AT"
                                /\ B[i].inputs = <<base + 1>>
  BY DEF TargetAtOperation, Operation
<1>8. hash.op_type = "POSEIDON_HASH" /\ hash.inputs = in
  BY DEF VectorInputOperation, Operation
<1> HIDE DEF A, B, hash
<1>9. \A k \in 1 .. Len(B) : Placed(B[k], base + Len(A) + k - 1)
  BY <1>4, <1>5, <1>6
<1>10. A \o B \in Seq(Node) /\ \A k \in 1 .. Len(A \o B) : Placed((A \o B)[k], base + k - 1)
  BY <1>1, <1>4, <1>6, <1>9, PlacedConcat
<1> DEFINE heap == ops \o (A \o B)
<1>11. /\ \A q \in 1 .. base : heap[q] = ops[q]
       /\ heap[base + 1] = hash
       /\ Len(A \o B) = 1 + HASH_SIZE
       /\ (A \o B)[1] = hash
       /\ \A k \in 2 .. 1 + HASH_SIZE : (A \o B)[k] = B[k - 1]
  <2>1. /\ Len(A \o B) = 1 + HASH_SIZE
        /\ \A k \in 1 .. 1 + HASH_SIZE : (A \o B)[k] = IF k <= 1 THEN A[k] ELSE B[k - 1]
    <3>1. A \in Seq(Node) /\ B \in Seq(Node) /\ Len(A) = 1 /\ Len(B) = HASH_SIZE
      BY <1>4, <1>6
    <3>2. /\ Len(A \o B) = Len(A) + Len(B)
          /\ \A k \in 1 .. Len(A) + Len(B) :
               (A \o B)[k] = IF k <= Len(A) THEN A[k] ELSE B[k - Len(A)]
      BY <3>1, ConcatProperties
    <3> QED BY <3>1, <3>2
  <2>2. /\ (A \o B)[1] = hash
        /\ \A k \in 2 .. 1 + HASH_SIZE : (A \o B)[k] = B[k - 1]
    BY <1>4, <2>1 DEF HASH_SIZE
  <2> DEFINE new == A \o B
  <2>3. new \in Seq(Node) /\ new[1] = hash /\ Len(new) = 1 + HASH_SIZE
    BY <1>10, <2>1, <2>2
  <2> HIDE DEF new
  <2>4. /\ \A q \in 1 .. base : (ops \o new)[q] = ops[q]
        /\ (ops \o new)[base + 1] = new[1]
    BY <1>1, <2>3, ConcatProperties DEF NodesOK, base, HASH_SIZE
  <2> QED BY <2>1, <2>2, <2>3, <2>4 DEF new
<1> HIDE DEF heap
<1>12. Fits(hash, heap, i0, g0)
  <2>1. Len(in) = n /\ \A i \in 1 .. n : heap[in[i]] = ops[in[i]]
    <3>1. \A i \in 1 .. n : in[i] \in 1 .. base
      BY <1>1 DEF ScalarNodes, base
    <3>2. in \in [1 .. n -> 1 .. base]
      BY <3>1
    <3>3. Len(in) = n
      BY <1>2, LenProperties
    <3> QED BY <3>1, <3>3, <1>11
  <2>2. \A i \in 1 .. n : ~IsVector(ops[in[i]].op_type)
    BY DEF ScalarNodes
  <2> QED BY <1>8, <2>1, <2>2 DEF Fits
<1>13. \A i \in 1 .. HASH_SIZE : Fits(B[i], heap, i0, g0)
  BY <1>7, <1>8, <1>11 DEF Fits, IsVector
<1>14. \A k \in 1 .. Len(A \o B) : Fits((A \o B)[k], heap, i0, g0)
  <2>1. \A k \in 1 .. 1 + HASH_SIZE : k = 1 \/ k \in 2 .. 1 + HASH_SIZE
    BY DEF HASH_SIZE
  <2>2. \A k \in 2 .. 1 + HASH_SIZE : k - 1 \in 1 .. HASH_SIZE
    BY DEF HASH_SIZE
  <2> QED BY <1>11, <1>12, <1>13, <2>1, <2>2
<1> QED BY <1>10, <1>14 DEF NewNodes, FitNodes, heap, base, A, B, hash

\* new_generator keeps the heap well formed.
LEMMA NewGenerator ==
  ASSUME HeapOK, NEW arg \in ScalarNodes, NEW bits \in GeneratorBits,
         new_generator(arg, bits)
  PROVE  HeapOK' /\ HeapGrows
<1> DEFINE base == Len(ops)
           nodes == constrain(base, bits)
           new == ConstrainAssertions(base, bits, arg)
           definition == [generator_id |-> BitSum, inputs |-> <<arg>>,
                          constants |-> <<bits>>, num_outputs |-> num_outputs(<<bits>>),
                          start_generator_output_index |-> generator_target_count]
<1>1. bits \in Nat \ {0}
  BY AuthorAssumption
<1>2. base \in Nat /\ arg \in 1 .. base
  BY LenProperties DEF HeapOK, NodesOK, ScalarNodes
<1>3. /\ ops' = ops \o nodes
      /\ generators' = Append(generators, definition)
      /\ generator_target_count' = generator_target_count + bits
      /\ assertions' = assertions \o new
      /\ UNCHANGED <<input_target_count, output_ops>>
  BY DEF new_generator
<1>4. CountsGrow
  BY <1>1, <1>3 DEF HeapOK, CountsGrow
<1>5. /\ NodesOK' /\ HeapGrows
      /\ Len(ops') = base + 2 + 3 * bits + 3 * (bits - 1)
      /\ base + 1 .. Len(ops') \subseteq ScalarNodes'
      /\ arg \in ScalarNodes'
      /\ ScalarNodes' \subseteq Nat
  <2>1. /\ NewNodes(nodes)
        /\ Len(nodes) = 2 + 3 * bits + 3 * (bits - 1)
        /\ \A k \in 1 .. Len(nodes) : SumNode(nodes[k], base, generator_target_count + bits)
    BY ConstrainNodes DEF HeapOK
  <2> HIDE DEF nodes
  <2>2. ops' = ops \o nodes /\ NodesOK
    BY <1>3 DEF HeapOK
  <2>3. /\ FitNodes(nodes, input_target_count', generator_target_count')
        /\ \A q \in base + 1 .. base + Len(nodes) : ~IsVector(ops'[q].op_type)
    BY <1>3, <2>1, <2>2, SumNodesFit
  <2>4. NodesOK' /\ HeapGrows /\ Len(ops') = base + Len(nodes)
    BY <1>4, <2>1, <2>2, <2>3, Allocation
  <2>5. base + 1 .. Len(ops') \subseteq ScalarNodes'
    BY <1>2, <2>3, <2>4 DEF ScalarNodes
  <2>6. arg \in ScalarNodes'
    BY <2>2, <2>4, ScalarsPersist
  <2>7. ScalarNodes' \subseteq Nat
    BY DEF ScalarNodes
  <2> QED BY <2>1, <2>4, <2>5, <2>6, <2>7, <1>1, <1>2
<1>6. \A p \in ScalarNodes : p \in ScalarNodes'
  BY <1>5, ScalarsPersist DEF HeapOK
<1>12. /\ assertions' \in Seq([left : Nat, right : Nat])
       /\ \A a \in 1 .. Len(assertions') :
            assertions'[a].left \in ScalarNodes' /\ assertions'[a].right \in ScalarNodes'
  <2>1. Len(ops') \in Nat
    BY <1>5, LenProperties DEF NodesOK
  <2>2. /\ new \in Seq([left : Nat, right : Nat])
        /\ \A a \in 1 .. Len(new) : new[a].left \in ScalarNodes' /\ new[a].right \in ScalarNodes'
    BY <2>1, <1>1, <1>2, <1>5, ConstrainRoots
  <2>3. /\ assertions \in Seq([left : Nat, right : Nat])
        /\ \A a \in 1 .. Len(assertions) :
             assertions[a].left \in ScalarNodes' /\ assertions[a].right \in ScalarNodes'
    BY <1>6 DEF HeapOK, RootsOK
  <2>4. Len(new) \in Nat /\ Len(assertions) \in Nat
    BY <2>2, <2>3, LenProperties
  <2> HIDE DEF new
  <2>5. /\ assertions' \in Seq([left : Nat, right : Nat])
        /\ Len(assertions') = Len(assertions) + Len(new)
        /\ \A a \in 1 .. Len(assertions) + Len(new) :
             assertions'[a] = IF a <= Len(assertions) THEN assertions[a]
                              ELSE new[a - Len(assertions)]
    BY <1>3, <2>2, <2>3, ConcatProperties
  <2>6. ASSUME NEW a \in 1 .. Len(assertions')
        PROVE  assertions'[a].left \in ScalarNodes' /\ assertions'[a].right \in ScalarNodes'
    <3>1. CASE a <= Len(assertions)
      <4>1. a \in 1 .. Len(assertions) /\ assertions'[a] = assertions[a]
        BY <2>4, <2>5, <3>1
      <4> QED BY <4>1, <2>3
    <3>2. CASE ~(a <= Len(assertions))
      <4>1. /\ a - Len(assertions) \in 1 .. Len(new)
            /\ assertions'[a] = new[a - Len(assertions)]
        BY <2>4, <2>5, <3>2
      <4> QED BY <4>1, <2>2
    <3> QED BY <3>1, <3>2
  <2> QED BY <2>5, <2>6
<1>7. definition \in GeneratorDefinition
  BY <1>1, <1>2 DEF GeneratorDefinition, num_outputs, HeapOK
<1>8. /\ generators' \in Seq(GeneratorDefinition)
      /\ Len(generators') = Len(generators) + 1
      /\ \A g \in 1 .. Len(generators) : generators'[g] = generators[g]
      /\ generators'[Len(generators) + 1] = definition
      /\ Len(generators) \in Nat
  <2>1. generators \in Seq(GeneratorDefinition)
    BY DEF HeapOK, RootsOK
  <2> HIDE DEF definition
  <2> QED BY <1>3, <1>7, <2>1, AppendProperties, LenProperties
<1>9. /\ output_ops' \in Seq(Nat)
      /\ \A o \in 1 .. Len(output_ops') : output_ops'[o] \in ScalarNodes'
  BY <1>3, <1>6 DEF HeapOK, RootsOK
<1>10. \A g \in 1 .. Len(generators') :
         /\ generators'[g].inputs \in [1 .. 1 -> ScalarNodes']
         /\ generators'[g].constants = <<generators'[g].num_outputs>>
  <2>1. \A g \in 1 .. Len(generators) :
          /\ generators[g].inputs \in [1 .. 1 -> ScalarNodes']
          /\ generators[g].constants = <<generators[g].num_outputs>>
    BY <1>6 DEF HeapOK, RootsOK
  <2>2. /\ definition.inputs \in [1 .. 1 -> ScalarNodes']
        /\ definition.constants = <<definition.num_outputs>>
    BY <1>5 DEF num_outputs
  <2> HIDE DEF definition
  <2> QED BY <1>8, <2>1, <2>2
<1>11. OutputsOK'
  <2>1. /\ \A g \in 1 .. Len(generators) :
             /\ generators[g].start_generator_output_index \in Nat
             /\ generators[g].num_outputs \in Nat
        /\ generator_target_count \in Nat
    <3>1. \A g \in 1 .. Len(generators) : generators[g] \in GeneratorDefinition
      BY ElementOfSeq DEF HeapOK, RootsOK
    <3> QED BY <3>1 DEF GeneratorDefinition, HeapOK
  <2>2. /\ definition.start_generator_output_index = generator_target_count
        /\ definition.num_outputs = bits
    BY DEF num_outputs
  <2> HIDE DEF definition
  <2>3. \A g \in 1 .. Len(generators) :
          EndOfOutputs(g)' = EndOfOutputs(g) /\ EndOfOutputs(g) \in Nat
    BY <1>8, <2>1 DEF EndOfOutputs
  <2>4. \A n : n = Len(generators) + 1 => EndOfOutputs(n)' = generator_target_count + bits
    BY <1>8, <2>2 DEF EndOfOutputs
  <2>5. ASSUME NEW g \in 1 .. Len(generators')
        PROVE  /\ EndOfOutputs(g)' <= generator_target_count'
               /\ \A h \in g + 1 .. Len(generators') :
                    EndOfOutputs(g)' <= generators'[h].start_generator_output_index
    <3>1. CASE g = Len(generators) + 1
      BY <1>1, <1>3, <1>8, <2>1, <2>4, <3>1
    <3>2. CASE g \in 1 .. Len(generators)
      <4>1. /\ EndOfOutputs(g) <= generator_target_count
            /\ \A h \in g + 1 .. Len(generators) :
                 EndOfOutputs(g) <= generators[h].start_generator_output_index
        BY <3>2 DEF HeapOK, OutputsOK
      <4>2. \A h \in g + 1 .. Len(generators') :
              h \in g + 1 .. Len(generators) \/ h = Len(generators) + 1
        BY <1>8
      <4>3. EndOfOutputs(g)' <= generator_target_count'
        BY <1>1, <1>3, <2>1, <2>3, <3>2, <4>1
      <4>4. \A h \in g + 1 .. Len(generators) : generators'[h] = generators[h]
        BY <1>8, <3>2
      <4> QED BY <1>8, <2>2, <2>3, <3>2, <4>1, <4>2, <4>3, <4>4
    <3> QED BY <1>8, <3>1, <3>2
  <2> QED BY <2>5 DEF OutputsOK
<1> QED BY <1>4, <1>5, <1>8, <1>9, <1>10, <1>11, <1>12 DEF HeapOK, RootsOK, CountsGrow

\* What a node reads is older than it.
LEMMA NodeInputs ==
  ASSUME HeapOK, NEW p \in Pointers
  PROVE  /\ p \in Nat /\ ops[p] \in Node /\ NodeOK(p)
         /\ DOMAIN ops[p].inputs = 1 .. Len(ops[p].inputs)
         /\ \A i \in 1 .. Len(ops[p].inputs) :
              ops[p].inputs[i] \in 1 .. p - 1 /\ ops[p].inputs[i] \in Pointers
<1>1. ops \in Seq(Node) /\ Len(ops) \in Nat /\ NodeOK(p)
  BY LenProperties DEF HeapOK, NodesOK
<1>2. ops[p] \in Node /\ p \in Nat
  BY <1>1, ElementOfSeq DEF Pointers
<1>3. DOMAIN ops[p].inputs = 1 .. Len(ops[p].inputs)
  BY <1>2, LenProperties DEF Node
<1>4. \A i \in 1 .. Len(ops[p].inputs) : ops[p].inputs[i] \in 1 .. p - 1
  BY <1>1 DEF NodeOK
<1> QED BY <1>1, <1>2, <1>3, <1>4 DEF Pointers

\* The builder starts with a well-formed heap.
LEMMA BuilderInitOK == BuilderInit => HeapOK
BY DEF BuilderInit, HeapOK, NodesOK, RootsOK, OutputsOK, Pointers

\* Every call of the builder keeps the heap well formed and the nodes as they are.
LEMMA BuilderCallOK ==
  ASSUME HeapOK, BuilderNext
  PROVE  HeapOK' /\ HeapGrows
<1>1. Len(ops) \in Nat /\ NodesOK
  BY LenProperties DEF HeapOK, NodesOK
<1>2. CASE add_input
  <2> DEFINE node == ACInputOp(input_target_count)
  <2>1. CountsGrow /\ input_target_count' = input_target_count + 1
    BY <1>2 DEF add_input, HeapOK, CountsGrow
  <2>2. /\ Placed(node, Len(ops)) /\ node.inputs = <<>>
        /\ node.op_type = "INPUT" /\ node.constants[1] = input_target_count
    BY <1>1, LeafPlaced DEF HeapOK, ACInputOp, Operation
  <2> HIDE DEF node
  <2>3. NewNodes(<<node>>) /\ FitNodes(<<node>>, input_target_count', generator_target_count')
    <3>1. /\ node.op_type # "TARGET_AT"
          /\ \A i \in 1 .. Len(node.inputs) : node.inputs[i] \in ScalarNodes
          /\ node.op_type = "INPUT" =>
               node.constants[1] \in 0 .. input_target_count' - 1
          /\ node.op_type = "GENERATOR_INPUT" =>
               node.constants[1] \in 0 .. generator_target_count' - 1
      BY <2>1, <2>2 DEF CountsGrow
    <3> QED BY <1>1, <2>2, <3>1, OneNode
  <2>4. Insert(<<node>>) /\ UNCHANGED <<assertions, output_ops, generators>>
    BY <1>2 DEF add_input, node
  <2> QED BY <2>1, <2>3, <2>4, Insertion
<1>3. CASE add_generator_input
  <2> DEFINE node == ACGeneratorInputOp(generator_target_count)
  <2>1. CountsGrow /\ generator_target_count' = generator_target_count + 1
    BY <1>3 DEF add_generator_input, HeapOK, CountsGrow
  <2>2. /\ Placed(node, Len(ops)) /\ node.inputs = <<>>
        /\ node.op_type = "GENERATOR_INPUT" /\ node.constants[1] = generator_target_count
    BY <1>1, LeafPlaced DEF HeapOK, ACGeneratorInputOp, Operation
  <2> HIDE DEF node
  <2>3. NewNodes(<<node>>) /\ FitNodes(<<node>>, input_target_count', generator_target_count')
    <3>1. /\ node.op_type # "TARGET_AT"
          /\ \A i \in 1 .. Len(node.inputs) : node.inputs[i] \in ScalarNodes
          /\ node.op_type = "INPUT" =>
               node.constants[1] \in 0 .. input_target_count' - 1
          /\ node.op_type = "GENERATOR_INPUT" =>
               node.constants[1] \in 0 .. generator_target_count' - 1
      BY <2>1, <2>2 DEF CountsGrow
    <3> QED BY <1>1, <2>2, <3>1, OneNode
  <2>4. Insert(<<node>>) /\ UNCHANGED <<assertions, output_ops, generators>>
    BY <1>3 DEF add_generator_input, node
  <2> QED BY <2>1, <2>3, <2>4, Insertion
<1>4. ASSUME NEW nodes, NewNodes(nodes), Allocate(nodes),
             FitNodes(nodes, input_target_count, generator_target_count)
      PROVE  HeapOK' /\ HeapGrows
  <2>1. CountsGrow /\ FitNodes(nodes, input_target_count', generator_target_count')
    BY <1>4 DEF Allocate, HeapOK, CountsGrow
  <2> QED BY <1>4, <2>1, Insertion DEF Allocate
<1>13. ASSUME NEW node, Placed(node, Len(ops)), Allocate(<<node>>),
              node.op_type \notin {"TARGET_AT", "INPUT", "GENERATOR_INPUT"},
              \A i \in 1 .. Len(node.inputs) : node.inputs[i] \in ScalarNodes
       PROVE  HeapOK' /\ HeapGrows
  BY <1>1, <1>4, <1>13, OneNode
<1>5. CASE constant
  <2>1. PICK c \in Literals : Allocate(<<ACConstantOp(c)>>)
    BY <1>5 DEF constant
  <2>2. Placed(ACConstantOp(c), Len(ops))
    BY <1>1, LeafPlaced DEF ConstantWords
  <2>3. ACConstantOp(c).op_type = "CONSTANT" /\ ACConstantOp(c).inputs = <<>>
    BY DEF ACConstantOp, Operation
  <2> QED BY <1>13, <2>1, <2>2, <2>3
<1>6. CASE negate
  <2>1. PICK p \in ScalarNodes : Allocate(<<UnaryOperation("NEG", p)>>)
    BY <1>6 DEF negate
  <2>2. Placed(UnaryOperation("NEG", p), Len(ops))
    BY <1>1, ScalarsAreNodes, OperationPlaced DEF Pointers
  <2>3. /\ UnaryOperation("NEG", p).op_type = "NEG"
        /\ \A i \in 1 .. Len(UnaryOperation("NEG", p).inputs) :
             UnaryOperation("NEG", p).inputs[i] \in ScalarNodes
    BY DEF UnaryOperation, Operation
  <2> QED BY <1>13, <2>1, <2>2, <2>3
<1>7. CASE binary
  <2>1. PICK type \in BinaryOps, left \in ScalarNodes, right \in ScalarNodes :
          Allocate(<<BinaryOperation(type, left, right)>>)
    BY <1>7 DEF binary
  <2> DEFINE node == BinaryOperation(type, left, right)
  <2>2. Placed(node, Len(ops))
    BY <1>1, ScalarsAreNodes, OperationPlaced DEF Pointers
  <2>3. node.op_type = type /\ node.inputs = <<left, right>>
    BY DEF BinaryOperation, Operation
  <2>4. type \notin {"TARGET_AT", "INPUT", "GENERATOR_INPUT"}
    BY DEF BinaryOps
  <2>5. \A i \in 1 .. Len(<<left, right>>) : <<left, right>>[i] \in ScalarNodes
    OBVIOUS
  <2> HIDE DEF node
  <2>6. Allocate(<<node>>)
    BY <2>1 DEF node
  <2> QED BY <1>13, <2>2, <2>3, <2>4, <2>5, <2>6
<1>8. CASE hash_no_pad
  <2>1. PICK n \in HashArities : \E in \in [1 .. n -> ScalarNodes] :
          Allocate(<<VectorInputOperation("POSEIDON_HASH", in)>>
                     \o [i \in 1 .. HASH_SIZE |-> TargetAtOperation(Len(ops) + 1, i - 1)])
    BY <1>8 DEF hash_no_pad
  <2>2. PICK in \in [1 .. n -> ScalarNodes] :
          Allocate(<<VectorInputOperation("POSEIDON_HASH", in)>>
                     \o [i \in 1 .. HASH_SIZE |-> TargetAtOperation(Len(ops) + 1, i - 1)])
    BY <2>1
  <2>3. n \in Nat
    BY AuthorAssumption
  <2> QED BY <1>1, <1>4, <2>2, <2>3, HashNodes
<1>9. CASE add_generator
  BY <1>1, <1>9 DEF add_generator, HeapOK, NodesOK, NodeOK, RootsOK, OutputsOK, EndOfOutputs,
                    ScalarNodes, Pointers, HeapGrows
<1>10. CASE \E arg \in ScalarNodes, bits \in GeneratorBits :
              GeneratorArg(ops[arg].op_type) /\ new_generator(arg, bits)
  BY <1>10, NewGenerator
<1>11. CASE \E left, right \in ScalarNodes : connect(left, right)
  <2>1. PICK left \in ScalarNodes, right \in ScalarNodes : connect(left, right)
    BY <1>11
  <2> DEFINE pair == [left |-> left, right |-> right]
  <2>2. /\ pair \in [left : Nat, right : Nat]
        /\ pair.left \in ScalarNodes /\ pair.right \in ScalarNodes
    BY DEF ScalarNodes
  <2>3. /\ assertions' = Append(assertions, pair)
        /\ UNCHANGED <<ops, input_target_count, generator_target_count, generators,
                       output_ops>>
    BY <2>1 DEF connect
  <2> HIDE DEF pair
  <2>4. /\ assertions' \in Seq([left : Nat, right : Nat])
        /\ Len(assertions') = Len(assertions) + 1
        /\ \A a \in 1 .. Len(assertions) : assertions'[a] = assertions[a]
        /\ assertions'[Len(assertions) + 1] = pair
        /\ Len(assertions) \in Nat
    BY <2>2, <2>3, AppendProperties, LenProperties DEF HeapOK, RootsOK
  <2>5. \A a \in 1 .. Len(assertions') :
          assertions'[a].left \in ScalarNodes /\ assertions'[a].right \in ScalarNodes
    <3>1. \A a \in 1 .. Len(assertions) :
            assertions[a].left \in ScalarNodes /\ assertions[a].right \in ScalarNodes
      BY DEF HeapOK, RootsOK
    <3>2. \A a \in 1 .. Len(assertions') :
            a \in 1 .. Len(assertions) \/ a = Len(assertions) + 1
      BY <2>4
    <3> QED BY <2>2, <2>4, <3>1, <3>2
  <2>6. ScalarNodes' = ScalarNodes /\ HeapGrows
    BY <1>1, <2>3 DEF ScalarNodes, Pointers, HeapGrows
  <2>7. NodesOK'
    BY <1>1, <2>3 DEF NodesOK, NodeOK, Pointers
  <2>8. OutputsOK'
    BY <2>3 DEF HeapOK, OutputsOK, EndOfOutputs
  <2> QED BY <2>3, <2>4, <2>5, <2>6, <2>7, <2>8 DEF HeapOK, RootsOK
<1>12. CASE \E p \in ScalarNodes : register_output(p)
  <2>1. PICK p \in ScalarNodes : register_output(p)
    BY <1>12
  <2>2. p \in Nat /\ p \in ScalarNodes
    BY DEF ScalarNodes
  <2>3. /\ output_ops' = Append(output_ops, p)
        /\ UNCHANGED <<ops, input_target_count, generator_target_count, generators,
                       assertions>>
    BY <2>1 DEF register_output
  <2>4. /\ output_ops' \in Seq(Nat)
        /\ Len(output_ops') = Len(output_ops) + 1
        /\ \A o \in 1 .. Len(output_ops) : output_ops'[o] = output_ops[o]
        /\ output_ops'[Len(output_ops) + 1] = p
        /\ Len(output_ops) \in Nat
    BY <2>2, <2>3, AppendProperties, LenProperties DEF HeapOK, RootsOK
  <2>5. \A o \in 1 .. Len(output_ops') : output_ops'[o] \in ScalarNodes
    <3>1. \A o \in 1 .. Len(output_ops) : output_ops[o] \in ScalarNodes
      BY DEF HeapOK, RootsOK
    <3>2. \A o \in 1 .. Len(output_ops') :
            o \in 1 .. Len(output_ops) \/ o = Len(output_ops) + 1
      BY <2>4
    <3> QED BY <2>2, <2>4, <3>1, <3>2
  <2>6. ScalarNodes' = ScalarNodes /\ HeapGrows
    BY <1>1, <2>3 DEF ScalarNodes, Pointers, HeapGrows
  <2>7. NodesOK'
    BY <1>1, <2>3 DEF NodesOK, NodeOK, Pointers
  <2>8. OutputsOK'
    BY <2>3 DEF HeapOK, OutputsOK, EndOfOutputs
  <2> QED BY <2>3, <2>4, <2>5, <2>6, <2>7, <2>8 DEF HeapOK, RootsOK
<1> QED
  BY <1>2, <1>3, <1>5, <1>6, <1>7, <1>8, <1>9, <1>10, <1>11, <1>12 DEF BuilderNext

-----------------------------------------------------------------------------
(* The call stack                                                          *)

\* The frame on top, which is the one that runs.
LEMMA TopIsFrame ==
  ASSUME TypeOK, StackOK, stack # <<>>
  PROVE  /\ Len(stack) \in Nat \ {0}
         /\ Top \in StackFrame
         /\ FrameOK(Len(stack))
<1>1. stack \in Seq(StackFrame)
  BY DEF TypeOK
<1>2. Len(stack) \in Nat \ {0}
  BY <1>1, EmptySeq
<1> QED BY <1>1, <1>2, ElementOfSeq DEF Top, StackOK

\* What a call resolves are nodes, and a visit_op resolves older nodes.
LEMMA WantedNodes ==
  ASSUME TypeOK, NEW k \in 1 .. Len(stack), FrameOK(k)
  PROVE  /\ Wanted(stack[k]) \in Seq(Nat)
         /\ \A i \in 1 .. Len(Wanted(stack[k])) :
              /\ Wanted(stack[k])[i] \in Pointers
              /\ stack[k].kind = "operation" => Wanted(stack[k])[i] < stack[k].ref
              /\ stack[k].kind # "operation" => Wanted(stack[k])[i] \in ScalarNodes
<1> DEFINE frame == stack[k]
<1>1. frame \in StackFrame
  BY ElementOfSeq DEF TypeOK
<1>2. CASE frame.kind = "generator"
  <2>1. Wanted(frame) = generators[frame.ref].inputs
    BY <1>2 DEF Wanted
  <2>2. generators[frame.ref].inputs \in [1 .. 1 -> ScalarNodes]
    BY <1>2 DEF FrameOK, TypeOK, HeapOK, RootsOK
  <2>3. generators[frame.ref] \in GeneratorDefinition
    BY <1>2, ElementOfSeq DEF FrameOK, TypeOK, HeapOK, RootsOK
  <2>4. Wanted(frame) \in Seq(Nat) /\ Len(Wanted(frame)) = 1
    BY <2>1, <2>2, <2>3, LenProperties DEF GeneratorDefinition
  <2> QED BY <1>2, <2>1, <2>2, <2>4, ScalarsAreNodes
<1>3. CASE frame.kind = "assertion"
  <2>1. Wanted(frame) = <<assertions[frame.ref].left, assertions[frame.ref].right>>
    BY <1>3 DEF Wanted
  <2>2. /\ assertions[frame.ref].left \in ScalarNodes
        /\ assertions[frame.ref].right \in ScalarNodes
    BY <1>3 DEF FrameOK, TypeOK, HeapOK, RootsOK
  <2> DEFINE a == assertions[frame.ref].left
             b == assertions[frame.ref].right
  <2>3. a \in Nat /\ b \in Nat
    BY <2>2 DEF ScalarNodes
  <2> HIDE DEF a, b
  <2>4. /\ <<a, b>> \in Seq(Nat) /\ Len(<<a, b>>) = 2
        /\ <<a, b>>[1] = a /\ <<a, b>>[2] = b
    BY <2>3
  <2>5. a \in ScalarNodes /\ b \in ScalarNodes /\ Wanted(frame) = <<a, b>>
    BY <2>1, <2>2 DEF a, b
  <2>6. frame.kind # "operation"
    BY <1>3
  <2> HIDE DEF frame
  <2> QED BY <2>4, <2>5, <2>6, ScalarsAreNodes DEF frame
<1>4. CASE frame.kind = "output"
  <2>1. Wanted(frame) = <<output_ops[frame.ref]>>
    BY <1>4 DEF Wanted
  <2>2. output_ops[frame.ref] \in ScalarNodes
    BY <1>4 DEF FrameOK, TypeOK, HeapOK, RootsOK
  <2> DEFINE p == output_ops[frame.ref]
  <2>3. p \in Nat /\ p \in ScalarNodes /\ Wanted(frame) = <<p>>
    BY <2>1, <2>2 DEF ScalarNodes
  <2>4. frame.kind # "operation"
    BY <1>4
  <2> HIDE DEF p
  <2> QED BY <2>3, <2>4, ScalarsAreNodes
<1>5. CASE frame.kind = "operation"
  <2>1. Wanted(frame) = ops[frame.ref].inputs
    BY <1>5 DEF Wanted
  <2>2. frame.ref \in Pointers
    BY <1>5 DEF FrameOK
  <2>3. /\ ops[frame.ref] \in Node /\ frame.ref \in Nat
        /\ \A i \in 1 .. Len(ops[frame.ref].inputs) :
             /\ ops[frame.ref].inputs[i] \in 1 .. frame.ref - 1
             /\ ops[frame.ref].inputs[i] \in Pointers
    BY <2>2, NodeInputs DEF TypeOK
  <2> QED BY <1>5, <2>1, <2>3 DEF Node
<1> QED BY <1>1, <1>2, <1>3, <1>4, <1>5 DEF StackFrame

\* A resolved node has a target.
LEMMA TargetOfResolved ==
  ASSUME TypeOK, NEW p \in Pointers, Resolved(p)
  PROVE  TargetOf(p) \in Nat
<1>1. CASE p \in DOMAIN target_id
  BY <1>1 DEF TargetOf, TypeOK
<1>2. CASE p \notin DOMAIN target_id
  <2>1. ops[p].op_type \in {"INPUT", "GENERATOR_INPUT"}
    BY <1>2 DEF Resolved
  <2>2. ops[p].constants[1] \in Nat
    BY <2>1, NodeInputs DEF TypeOK, HeapOK, NodeOK
  <2>3. input_target_count \in Nat
    BY DEF TypeOK, HeapOK
  <2> QED BY <1>2, <2>2, <2>3 DEF TargetOf
<1> QED BY <1>1, <1>2

\* A frame that does not move is as well formed as it was, when the only nodes
\* given an id meanwhile are not on the stack.
LEMMA FrameKept ==
  ASSUME TypeOK, NEW k \in 1 .. Len(stack), FrameOK(k),
         \A j \in 1 .. k : stack'[j] = stack[j],
         UNCHANGED builderVars,
         DOMAIN target_id \subseteq DOMAIN target_id',
         stack[k].kind = "operation" => stack[k].ref \notin DOMAIN target_id'
  PROVE  FrameOK(k)'
<1>1. stack'[k] = stack[k]
  OBVIOUS
<1>2. Wanted(stack[k])' = Wanted(stack[k])
  BY <1>1 DEF Wanted, builderVars
<1>3. \A p : Resolved(p) => Resolved(p)'
  BY DEF Resolved, builderVars
<1>4. stack[k].kind = "operation" =>
        stack[k].ref \in Pointers' /\ ~Resolved(stack[k].ref)'
  BY <1>1 DEF FrameOK, Resolved, builderVars, Pointers
<1>5. \A i \in 1 .. Len(stack[k].ids) : Resolved(Wanted(stack[k])[i])'
  BY <1>1, <1>2, <1>3 DEF FrameOK
<1> QED BY <1>1, <1>2, <1>4, <1>5 DEF FrameOK, builderVars

\* What a call and a return do to the stack.
LEMMA Pushed ==
  ASSUME TypeOK, NEW frame \in StackFrame, Push(frame)
  PROVE  /\ stack' \in Seq(StackFrame)
         /\ Len(stack') = Len(stack) + 1
         /\ \A k \in 1 .. Len(stack) : stack'[k] = stack[k]
         /\ stack'[Len(stack) + 1] = frame
         /\ Len(stack) \in Nat
BY AppendProperties, LenProperties DEF TypeOK, Push

\* Popping removes the last frame, and the others stay what they are.
LEMMA Popped ==
  ASSUME TypeOK, stack # <<>>, Pop
  PROVE  /\ Len(stack) \in Nat \ {0}
         /\ stack' \in Seq(StackFrame)
         /\ Len(stack') = Len(stack) - 1
         /\ \A k \in 1 .. Len(stack) - 1 : stack'[k] = stack[k]
<1>1. Len(stack) \in Nat \ {0}
  BY EmptySeq DEF TypeOK
<1>2. \A k \in 1 .. Len(stack) - 1 : stack[k] \in StackFrame
  BY <1>1, ElementOfSeq DEF TypeOK
<1> DEFINE n == Len(stack) - 1
<1>3. n \in Nat /\ 1 \in Int /\ n \in Int /\ n - 1 + 1 = n
  BY <1>1
<1>4. stack' = SubSeq(stack, 1, n) /\ \A i \in 1 .. n : stack[i] \in StackFrame
  BY <1>2 DEF Pop
<1> HIDE DEF n
<1>5. /\ stack' \in Seq(StackFrame)
      /\ Len(stack') = IF 1 <= n THEN n - 1 + 1 ELSE 0
      /\ \A i \in 1 .. n - 1 + 1 : stack'[i] = stack[1 + i - 1]
  BY <1>3, <1>4, SubSeqProperties
<1>6. Len(stack') = n /\ \A i \in 1 .. n : stack'[i] = stack[i]
  BY <1>3, <1>5
<1> QED BY <1>1, <1>5, <1>6 DEF n

\* A call.
LEMMA PushOK ==
  ASSUME TypeOK, StackOK, phase' = "finalizing",
         UNCHANGED <<builderVars, target_id>>,
         NEW frame \in StackFrame, frame.ids = <<>>, Push(frame),
         frame.kind = "operation" <=> Len(stack) > 0,
         frame.kind = "operation" => frame.ref \in Pointers /\ ~Resolved(frame.ref),
         frame.kind = "generator" => frame.ref \in 1 .. Len(generators),
         frame.kind = "assertion" => frame.ref \in 1 .. Len(assertions),
         frame.kind = "output" => frame.ref \in 1 .. Len(output_ops),
         \A j \in 2 .. Len(stack) : frame.ref < stack[j].ref
  PROVE  stack' \in Seq(StackFrame) /\ StackOK'
<1>1. /\ stack' \in Seq(StackFrame)
      /\ Len(stack') = Len(stack) + 1
      /\ \A k \in 1 .. Len(stack) : stack'[k] = stack[k]
      /\ stack'[Len(stack) + 1] = frame
      /\ Len(stack) \in Nat
  BY Pushed
<1>2. ASSUME NEW k \in 1 .. Len(stack)
      PROVE  FrameOK(k)'
  <2>1. FrameOK(k)
    BY DEF StackOK
  <2>2. \A j \in 1 .. k : stack'[j] = stack[j]
    BY <1>1
  <2>3. stack[k].kind = "operation" => stack[k].ref \notin DOMAIN target_id'
    BY <2>1 DEF FrameOK, Resolved
  <2> QED BY <2>1, <2>2, <2>3, FrameKept
<1>3. ASSUME NEW k, k = Len(stack) + 1
      PROVE  FrameOK(k)'
  <2>1. stack'[k] = frame /\ k \in Nat
    BY <1>1, <1>3
  <2>2. UNCHANGED <<ops, generators, assertions, output_ops, target_id>>
    BY DEF builderVars
  <2>3. Wanted(stack[k])' \in Seq(Nat)
    <3>1. CASE frame.kind = "generator"
      <4>1. generators[frame.ref] \in GeneratorDefinition
        BY <3>1, ElementOfSeq DEF TypeOK, HeapOK, RootsOK
      <4> QED BY <2>1, <2>2, <3>1, <4>1 DEF Wanted, GeneratorDefinition
    <3>2. CASE frame.kind = "assertion"
      <4>1. assertions[frame.ref] \in [left : Nat, right : Nat]
        BY <3>2, ElementOfSeq DEF TypeOK, HeapOK, RootsOK
      <4>2. Wanted(stack[k])' = <<assertions[frame.ref].left, assertions[frame.ref].right>>
        BY <2>1, <2>2, <3>2 DEF Wanted
      <4> QED BY <4>1, <4>2
    <3>3. CASE frame.kind = "output"
      <4>1. output_ops[frame.ref] \in Nat
        BY <3>3, ElementOfSeq DEF TypeOK, HeapOK, RootsOK
      <4>2. Wanted(stack[k])' = <<output_ops[frame.ref]>>
        BY <2>1, <2>2, <3>3 DEF Wanted
      <4> QED BY <4>1, <4>2
    <3>4. CASE frame.kind = "operation"
      <4>1. ops[frame.ref] \in Node
        BY <3>4, ElementOfSeq DEF TypeOK, HeapOK, NodesOK, Pointers
      <4> QED BY <2>1, <2>2, <3>4, <4>1 DEF Wanted, Node
    <3> QED BY <3>1, <3>2, <3>3, <3>4 DEF StackFrame
  <2>4. Len(frame.ids) = 0 /\ Len(frame.ids) <= Len(Wanted(stack[k])')
    BY <2>3, LenProperties
  <2>5. \A j \in 2 .. k - 1 : frame.ref < stack'[j].ref
    BY <1>1, <1>3
  <2>6. frame.kind = "operation" <=> k > 1
    BY <1>1, <1>3
  <2>7. frame.kind = "operation" => frame.ref \in Pointers' /\ ~Resolved(frame.ref)'
    BY <2>2 DEF Pointers, Resolved
  <2> QED BY <2>1, <2>2, <2>4, <2>5, <2>6, <2>7 DEF FrameOK
<1>4. \A k \in 1 .. Len(stack') : k \in 1 .. Len(stack) \/ k = Len(stack) + 1
  BY <1>1
<1> QED BY <1>1, <1>2, <1>3, <1>4 DEF StackOK

\* A return.
LEMMA PopOK ==
  ASSUME TypeOK, StackOK, stack # <<>>, Pop, phase' = "finalizing",
         UNCHANGED builderVars,
         DOMAIN target_id \subseteq DOMAIN target_id',
         \A p \in DOMAIN target_id' : p \in DOMAIN target_id \/ p = Top.ref
  PROVE  stack' \in Seq(StackFrame) /\ StackOK'
<1>1. Len(stack) \in Nat \ {0} /\ FrameOK(Len(stack))
  BY TopIsFrame
<1>2. /\ stack' \in Seq(StackFrame)
      /\ Len(stack') = Len(stack) - 1
      /\ \A k \in 1 .. Len(stack) - 1 : stack'[k] = stack[k]
  BY Popped
<1>3. ASSUME NEW k \in 1 .. Len(stack) - 1
      PROVE  FrameOK(k)'
  <2>1. k \in 1 .. Len(stack) /\ FrameOK(k)
    BY <1>1 DEF StackOK
  <2>2. \A j \in 1 .. k : stack'[j] = stack[j]
    BY <1>1, <1>2
  <2>3. ASSUME stack[k].kind = "operation"
        PROVE  stack[k].ref \notin DOMAIN target_id'
    <3>1. k > 1 /\ stack[k].ref \notin DOMAIN target_id
      BY <2>1, <2>3 DEF FrameOK, Resolved
    <3>2. Top.ref < stack[k].ref
      BY <1>1, <3>1 DEF FrameOK, Top
    <3>3. Top.ref \in Nat
      BY TopIsFrame DEF StackFrame
    <3> QED BY <3>1, <3>2, <3>3
  <2> QED BY <2>1, <2>2, <2>3, FrameKept
<1> QED BY <1>1, <1>2, <1>3 DEF StackOK

-----------------------------------------------------------------------------
(* Every step keeps TypeOK /\ StackOK                                      *)

\* The walk leaves the builder alone.
LEMMA HeapUnchanged ==
  ASSUME HeapOK, UNCHANGED builderVars
  PROVE  HeapOK' /\ Pointers' = Pointers
BY DEF HeapOK, NodesOK, NodeOK, RootsOK, OutputsOK, EndOfOutputs, ScalarNodes, Pointers,
       builderVars

\* A step of the walk that neither gives ids nor adds to the circuit: only the
\* stack is to be looked at.
LEMMA WalkKeepsTypes ==
  ASSUME TypeOK, UNCHANGED <<builderVars, builds>>, phase' = "finalizing",
         UNCHANGED <<target_id, global_target_id, circuit, op_count, total_op_count>>,
         stack' \in Seq(StackFrame)
  PROVE  TypeOK'
<1>1. HeapOK' /\ Pointers' = Pointers
  BY HeapUnchanged DEF TypeOK
<1> QED BY <1>1 DEF TypeOK

\* The frame of a call that starts.
LEMMA NewFrame ==
  ASSUME TypeOK, NEW ref \in Nat,
         NEW kind \in {"generator", "assertion", "output", "operation"}
  PROVE  /\ Frame(kind, ref) \in StackFrame
         /\ Frame(kind, ref).ids = <<>>
         /\ Frame(kind, ref).kind = kind
         /\ Frame(kind, ref).ref = ref
BY DEF Frame, StackFrame, TypeOK, FCircuit

\* The loops of finalize.
LEMMA LoopsOK ==
  ASSUME TypeOK, StackOK, visit_generator \/ visit_assertion \/ visit_output
  PROVE  TypeOK' /\ StackOK'
<1>1. /\ stack = <<>> /\ phase' = "finalizing"
      /\ UNCHANGED <<builderVars, builds, target_id, global_target_id, circuit,
                     op_count, total_op_count>>
  BY DEF visit_generator, visit_assertion, visit_output, Walking
<1>2. /\ Len(stack) = 0
      /\ Len(circuit.generators) \in Nat
      /\ Len(circuit.assertions) \in Nat
      /\ Len(circuit.output_ops) \in Nat
  BY <1>1, LenProperties DEF TypeOK, FCircuit
<1>3. Len(generators) \in Nat /\ Len(assertions) \in Nat /\ Len(output_ops) \in Nat
  BY LenProperties DEF TypeOK, HeapOK, RootsOK
<1>4. stack' \in Seq(StackFrame) /\ StackOK'
  <2>1. CASE visit_generator
    <3> DEFINE n == Len(circuit.generators) + 1
    <3>1. n \in 1 .. Len(generators) /\ n \in Nat /\ Push(Frame("generator", n))
      BY <1>2, <1>3, <2>1 DEF visit_generator
    <3> HIDE DEF n
    <3>2. \A j \in 2 .. Len(stack) : n < stack[j].ref
      BY <1>2
    <3> QED BY <1>1, <1>2, <3>1, <3>2, NewFrame, PushOK
  <2>2. CASE visit_assertion
    <3> DEFINE n == Len(circuit.assertions) + 1
    <3>1. n \in 1 .. Len(assertions) /\ n \in Nat /\ Push(Frame("assertion", n))
      BY <1>2, <1>3, <2>2 DEF visit_assertion
    <3> HIDE DEF n
    <3>2. \A j \in 2 .. Len(stack) : n < stack[j].ref
      BY <1>2
    <3> QED BY <1>1, <1>2, <3>1, <3>2, NewFrame, PushOK
  <2>3. CASE visit_output
    <3> DEFINE n == Len(circuit.output_ops) + 1
    <3>1. n \in 1 .. Len(output_ops) /\ n \in Nat /\ Push(Frame("output", n))
      BY <1>2, <1>3, <2>3 DEF visit_output, MoreOutputs
    <3> HIDE DEF n
    <3>2. \A j \in 2 .. Len(stack) : n < stack[j].ref
      BY <1>2
    <3> QED BY <1>1, <1>2, <3>1, <3>2, NewFrame, PushOK
  <2> QED BY <2>1, <2>2, <2>3
<1> QED BY <1>1, <1>4, WalkKeepsTypes

\* What the frame on top resolves next.
LEMMA ChildIsNode ==
  ASSUME TypeOK, StackOK, stack # <<>>, ~Complete
  PROVE  /\ Len(Top.ids) \in Nat
         /\ Len(Top.ids) + 1 \in 1 .. Len(Wanted(Top))
         /\ Child \in Pointers /\ Child \in Nat
         /\ Top.kind = "operation" => Child < Top.ref
<1>1. /\ Len(stack) \in Nat \ {0}
      /\ Top \in StackFrame
      /\ FrameOK(Len(stack))
  BY TopIsFrame
<1>2. /\ Wanted(Top) \in Seq(Nat)
      /\ \A i \in 1 .. Len(Wanted(Top)) :
           /\ Wanted(Top)[i] \in Pointers
           /\ Top.kind = "operation" => Wanted(Top)[i] < Top.ref
  BY <1>1, WantedNodes DEF Top
<1>3. Len(Top.ids) \in Nat /\ Len(Wanted(Top)) \in Nat
  BY <1>1, <1>2, LenProperties DEF StackFrame
<1>4. Len(Top.ids) + 1 \in 1 .. Len(Wanted(Top))
  BY <1>1, <1>3 DEF FrameOK, Top, Complete
<1> QED BY <1>2, <1>3, <1>4 DEF Child, Pointers

\* visit_op on an unresolved node.
LEMMA VisitOpOK ==
  ASSUME TypeOK, StackOK, visit_op
  PROVE  TypeOK' /\ StackOK'
<1>1. /\ stack # <<>> /\ ~Complete /\ ~Resolved(Child)
      /\ Push(Frame("operation", Child)) /\ phase' = "finalizing"
      /\ UNCHANGED <<builderVars, builds, target_id, global_target_id, circuit,
                     op_count, total_op_count>>
  BY DEF visit_op, Walking
<1>2. Len(stack) \in Nat \ {0} /\ Top \in StackFrame /\ FrameOK(Len(stack))
  BY <1>1, TopIsFrame
<1>3. /\ Child \in Pointers /\ Child \in Nat
      /\ Top.kind = "operation" => Child < Top.ref
  BY <1>1, ChildIsNode
<1>4. ASSUME NEW j \in 2 .. Len(stack)
      PROVE  Child < stack[j].ref
  <2>1. Top.kind = "operation" /\ Top.ref \in Nat
    BY <1>2 DEF FrameOK, Top, StackFrame
  <2>2. CASE j = Len(stack)
    BY <1>3, <2>1, <2>2 DEF Top
  <2>3. CASE j < Len(stack)
    <3>1. Top.ref < stack[j].ref
      BY <1>2, <2>3 DEF FrameOK, Top
    <3>2. stack[j].ref \in Nat
      <4>1. j \in 1 .. Len(stack)
        BY <1>2
      <4>2. stack[j] \in StackFrame
        BY <4>1, ElementOfSeq DEF TypeOK
      <4> QED BY <4>2 DEF StackFrame
    <3> QED BY <1>3, <2>1, <3>1, <3>2
  <2> QED BY <1>2, <2>2, <2>3
<1>5. stack' \in Seq(StackFrame) /\ StackOK'
  BY <1>1, <1>2, <1>3, <1>4, NewFrame, PushOK
<1> QED BY <1>1, <1>5, WalkKeepsTypes

\* visit_op on a resolved node.
LEMMA ReturnTargetOK ==
  ASSUME TypeOK, StackOK, return_target
  PROVE  TypeOK' /\ StackOK'
<1> DEFINE n == Len(stack)
           frame == [Top EXCEPT !.ids = Append(@, TargetOf(Child))]
<1>1. /\ stack # <<>> /\ ~Complete /\ Resolved(Child)
      /\ stack' = [stack EXCEPT ![n].ids = Append(@, TargetOf(Child))]
      /\ phase' = "finalizing"
      /\ UNCHANGED <<builderVars, builds, target_id, global_target_id, circuit,
                     op_count, total_op_count>>
  BY DEF return_target, Walking
<1>2. n \in Nat \ {0} /\ Top \in StackFrame /\ FrameOK(n)
  BY <1>1, TopIsFrame
<1>3. /\ Len(Top.ids) \in Nat
      /\ Len(Top.ids) + 1 \in 1 .. Len(Wanted(Top))
      /\ Child \in Pointers
  BY <1>1, ChildIsNode
<1>4. TargetOf(Child) \in Nat
  BY <1>1, <1>3, TargetOfResolved
<1>5. Top.ids \in Seq(Nat)
  BY <1>2 DEF StackFrame
<1>6. /\ Append(Top.ids, TargetOf(Child)) \in Seq(Nat)
      /\ Len(Append(Top.ids, TargetOf(Child))) = Len(Top.ids) + 1
  BY <1>4, <1>5, AppendProperties
<1>7. /\ frame \in StackFrame
      /\ frame.kind = Top.kind /\ frame.ref = Top.ref
      /\ Len(frame.ids) = Len(Top.ids) + 1
  BY <1>2, <1>6 DEF StackFrame
<1>8. stack' = [stack EXCEPT ![n] = frame]
  BY <1>1 DEF Top
<1> HIDE DEF frame
<1>9. /\ stack' \in Seq(StackFrame)
      /\ Len(stack') = n
      /\ \A k \in 1 .. n : stack'[k] = IF k = n THEN frame ELSE stack[k]
  BY <1>2, <1>7, <1>8, ExceptSeq DEF TypeOK
<1>10. ASSUME NEW k \in 1 .. n - 1
       PROVE  FrameOK(k)'
  <2>1. k \in 1 .. Len(stack) /\ FrameOK(k)
    BY <1>2 DEF StackOK
  <2>2. \A j \in 1 .. k : stack'[j] = stack[j]
    BY <1>2, <1>9
  <2>3. stack[k].kind = "operation" => stack[k].ref \notin DOMAIN target_id'
    BY <1>1, <2>1 DEF FrameOK, Resolved
  <2> QED BY <1>1, <2>1, <2>2, <2>3, FrameKept
<1>11. ASSUME NEW k, k = n
       PROVE  FrameOK(k)'
  <2>1. stack'[k] = frame /\ FrameOK(k) /\ stack[k] = Top
    BY <1>2, <1>9, <1>11 DEF Top
  <2>2. UNCHANGED <<ops, generators, assertions, output_ops, target_id>>
    BY <1>1 DEF builderVars
  <2>3. Wanted(stack[k])' = Wanted(Top)
    BY <1>7, <2>1, <2>2 DEF Wanted
  <2>4. \A p : Resolved(p)' <=> Resolved(p)
    BY <2>2 DEF Resolved
  <2>5. ASSUME NEW i \in 1 .. Len(frame.ids)
        PROVE  Resolved(Wanted(Top)[i])
    <3>1. CASE i = Len(Top.ids) + 1
      BY <1>1, <3>1 DEF Child
    <3>2. CASE i # Len(Top.ids) + 1
      <4>1. i \in 1 .. Len(Top.ids)
        BY <1>3, <1>7, <3>2
      <4> QED BY <2>1, <4>1 DEF FrameOK
    <3> QED BY <3>1, <3>2
  <2>6. Len(frame.ids) <= Len(Wanted(Top))
    BY <1>3, <1>7
  <2>7. \A j \in 2 .. k - 1 : frame.ref < stack'[j].ref
    <3>1. \A j \in 2 .. k - 1 : stack'[j] = stack[j] /\ Top.ref < stack[j].ref
      BY <1>2, <1>9, <1>11, <2>1 DEF FrameOK
    <3> QED BY <1>7, <3>1
  <2>8. /\ frame.kind = "operation" <=> k > 1
        /\ frame.kind = "operation" => frame.ref \in Pointers /\ ~Resolved(frame.ref)
        /\ frame.kind = "generator" => frame.ref \in 1 .. Len(generators)
        /\ frame.kind = "assertion" => frame.ref \in 1 .. Len(assertions)
        /\ frame.kind = "output" => frame.ref \in 1 .. Len(output_ops)
    BY <1>7, <2>1 DEF FrameOK
  <2>9. Pointers' = Pointers
    BY <2>2 DEF Pointers
  <2> QED BY <2>1, <2>2, <2>3, <2>4, <2>5, <2>6, <2>7, <2>8, <2>9 DEF FrameOK
<1>12. StackOK'
  BY <1>1, <1>2, <1>9, <1>10, <1>11 DEF StackOK
<1> QED BY <1>1, <1>9, <1>12, WalkKeepsTypes

\* A finished call: the targets of all the nodes it wanted are known.
LEMMA CompleteTop ==
  ASSUME TypeOK, StackOK, stack # <<>>, Complete
  PROVE  /\ Top \in StackFrame
         /\ Len(Top.ids) = Len(Wanted(Top))
         /\ \A i \in 1 .. Len(Wanted(Top)) : Resolved(Wanted(Top)[i])
         /\ Top.kind = "operation" => Top.ref \in Pointers /\ ~Resolved(Top.ref)
         /\ Top.kind = "generator" => Top.ref \in 1 .. Len(generators)
         /\ Top.kind = "assertion" => Top.ref \in 1 .. Len(assertions)
         /\ Top.kind = "output" => Top.ref \in 1 .. Len(output_ops)
<1>1. Top \in StackFrame /\ FrameOK(Len(stack))
  BY TopIsFrame
<1>2. Len(Top.ids) = Len(Wanted(Top))
  BY DEF Complete
<1> QED BY <1>1, <1>2 DEF FrameOK, Top

\* The tail of visit_op.
LEMMA EmitOperationOK ==
  ASSUME TypeOK, StackOK, emit_operation
  PROVE  TypeOK' /\ StackOK'
<1> DEFINE p == Top.ref
           op == ops[p]
           id == NextId(op.op_type)
           fop == [op_type |-> op.op_type, target_inputs |-> Top.ids,
                   constant_inputs |-> op.constants]
<1>1. /\ stack # <<>> /\ Complete /\ Top.kind = "operation"
      /\ target_id' = SetId(target_id, p, id)
      /\ global_target_id' = SetId(global_target_id, p, total_op_count)
      /\ total_op_count' = total_op_count + 1
      /\ op_count' = CountAfter(op.op_type)
      /\ circuit' = [circuit EXCEPT
           !.vector_operation_count = IF IsVector(op.op_type) THEN @ + 1 ELSE @,
           !.operations = Append(@, fop)]
      /\ Pop
      /\ phase = "finalizing" /\ phase' = phase
      /\ UNCHANGED <<builderVars, builds>>
  BY DEF emit_operation, Walking, NextGlobalId
<1>2. /\ Top \in StackFrame /\ p \in Pointers
  BY <1>1, CompleteTop
<1>3. op \in Node
  BY <1>2, ElementOfSeq DEF TypeOK, HeapOK, NodesOK, Pointers
<1>4. HeapOK' /\ Pointers' = Pointers
  BY <1>1, HeapUnchanged DEF TypeOK
<1>5. id \in Nat /\ CountAfter(op.op_type) \in Nat
  BY DEF NextId, CountAfter, TypeOK, FCircuit
<1>6. /\ DOMAIN target_id' = DOMAIN target_id \cup {p}
      /\ target_id' \in [DOMAIN target_id' -> Nat]
      /\ global_target_id' \in [DOMAIN target_id' -> Nat]
  <2> HIDE DEF id
  <2> QED BY <1>1, <1>5 DEF SetId, TypeOK
<1>7. fop \in FOperation
  BY <1>2, <1>3 DEF FOperation, StackFrame, Node
<1>8. circuit' \in FCircuit
  <2> HIDE DEF fop
  <2>1. Append(circuit.operations, fop) \in Seq(FOperation)
    BY <1>7, AppendProperties DEF TypeOK, FCircuit
  <2>2. PICK n \in Nat : n = IF IsVector(op.op_type) THEN circuit.vector_operation_count + 1
                             ELSE circuit.vector_operation_count
    BY DEF TypeOK, FCircuit
  <2>3. circuit' = [circuit EXCEPT !.vector_operation_count = n,
                                   !.operations = Append(circuit.operations, fop)]
    BY <1>1, <2>2
  <2> QED BY <2>1, <2>2, <2>3 DEF TypeOK, FCircuit
<1>9. stack' \in Seq(StackFrame) /\ StackOK'
  BY <1>1, <1>6, PopOK
<1>10. builds' \in Nat /\ op_count' \in Nat /\ total_op_count' \in Nat
  BY <1>1, <1>5 DEF TypeOK
<1>11. DOMAIN target_id' \subseteq Pointers'
  BY <1>2, <1>4, <1>6 DEF TypeOK
<1>12. phase' \in {"building", "finalizing", "built"}
  BY <1>1
<1> QED BY <1>4, <1>6, <1>8, <1>9, <1>10, <1>11, <1>12 DEF TypeOK

\* The end of the body of a loop of finalize.
LEMMA FinishOK ==
  ASSUME TypeOK, StackOK, finish_generator \/ finish_assertion \/ finish_output
  PROVE  TypeOK' /\ StackOK'
<1>1. /\ stack # <<>> /\ Complete /\ Pop /\ phase' = "finalizing"
      /\ UNCHANGED <<builderVars, builds, target_id, global_target_id, op_count,
                     total_op_count>>
  BY DEF finish_generator, finish_assertion, finish_output, Walking
<1>2. Top \in StackFrame /\ Len(Top.ids) = Len(Wanted(Top))
  BY <1>1, CompleteTop
<1>3. stack' \in Seq(StackFrame) /\ StackOK'
  BY <1>1, PopOK
<1>4. circuit' \in FCircuit
  <2>1. CASE finish_generator
    <3> DEFINE generator == generators[Top.ref]
               constants == CopiedConstants(generator)
               new == [generator_id |-> generator.generator_id,
                       op_dependency_id |-> Top.op_dependency_id,
                       target_inputs |-> Top.ids, constant_inputs |-> constants]
    <3>1. /\ Top.kind = "generator"
          /\ circuit' = [circuit EXCEPT !.generators = Append(@, new)]
      BY <2>1 DEF finish_generator
    <3>2. generator \in GeneratorDefinition
      BY <1>1, <3>1, CompleteTop, ElementOfSeq DEF TypeOK, HeapOK, RootsOK
    <3>3. constants \in Seq(Nat)
      <4>1. generator.constants \in Seq(Nat)
        BY <3>2 DEF GeneratorDefinition
      <4>2. /\ Len(generator.constants) \in Nat
            /\ \A i \in 1 .. Len(generator.constants) : generator.constants[i] \in Nat
        BY <4>1, LenProperties, ElementOfSeq
      <4>3. constants \in [1 .. Len(generator.constants) -> Nat]
        BY <4>2 DEF CopiedConstants
      <4> QED BY <4>2, <4>3, SeqDef
    <3>4. new \in FGenerator
      BY <1>2, <3>2, <3>3 DEF FGenerator, StackFrame, GeneratorDefinition
    <3> HIDE DEF new
    <3>5. Append(circuit.generators, new) \in Seq(FGenerator)
      BY <3>4, AppendProperties DEF TypeOK, FCircuit
    <3> QED BY <3>1, <3>5 DEF TypeOK, FCircuit
  <2>2. CASE finish_assertion
    <3> DEFINE new == [left |-> Top.ids[1], right |-> Top.ids[2]]
               Pair == [left : Nat, right : Nat]
    <3>1. /\ Top.kind = "assertion"
          /\ circuit' = [circuit EXCEPT !.assertions = Append(@, new)]
      BY <2>2 DEF finish_assertion
    <3>2. Len(Top.ids) = 2
      BY <1>2, <3>1 DEF Wanted
    <3>3. Top.ids[1] \in Nat /\ Top.ids[2] \in Nat
      BY <1>2, <3>2, ElementOfSeq DEF StackFrame
    <3>4. new \in Pair /\ circuit.assertions \in Seq(Pair)
      BY <3>3 DEF TypeOK, FCircuit
    <3> HIDE DEF new, Pair
    <3>5. Append(circuit.assertions, new) \in Seq(Pair)
      BY <3>4, AppendProperties
    <3> QED BY <3>1, <3>5 DEF TypeOK, FCircuit, Pair
  <2>3. CASE finish_output
    <3>1. /\ Top.kind = "output"
          /\ circuit' = [circuit EXCEPT !.output_ops = Append(@, Top.ids[1])]
      BY <2>3 DEF finish_output
    <3>2. Len(Top.ids) = 1
      BY <1>2, <3>1 DEF Wanted
    <3>3. Top.ids[1] \in Nat
      BY <1>2, <3>2, ElementOfSeq DEF StackFrame
    <3>4. Append(circuit.output_ops, Top.ids[1]) \in Seq(Nat)
      BY <3>3, AppendProperties DEF TypeOK, FCircuit
    <3> QED BY <3>1, <3>4 DEF TypeOK, FCircuit
  <2> QED BY <2>1, <2>2, <2>3
<1>5. HeapOK' /\ Pointers' = Pointers
  BY <1>1, HeapUnchanged DEF TypeOK
<1> QED BY <1>1, <1>3, <1>4, <1>5 DEF TypeOK

\* The calls of the builder between builds, build and its return.
LEMMA CallsOK ==
  ASSUME TypeOK, StackOK, BuilderCall \/ build \/ finish_build
  PROVE  TypeOK' /\ StackOK'
<1>1. stack = <<>> /\ stack' = <<>>
  BY DEF BuilderCall, build, finish_build, StackOK, finalizerVars, Walking
<1>2. StackOK'
  BY <1>1 DEF StackOK
<1>3. CASE BuilderCall
  <2>1. HeapOK' /\ HeapGrows
    BY <1>3, BuilderCallOK DEF BuilderCall, TypeOK
  <2>2. \A p : p \in Pointers => p \in Pointers'
    <3>1. Len(ops) \in Nat /\ Len(ops') \in Nat
      BY <2>1, LenProperties DEF TypeOK, HeapOK, NodesOK
    <3> QED BY <2>1, <3>1 DEF HeapGrows, Pointers
  <2>3. phase' = "building" /\ UNCHANGED <<builds, finalizerVars>>
    BY <1>3 DEF BuilderCall
  <2> QED BY <1>2, <2>1, <2>2, <2>3 DEF TypeOK, finalizerVars
<1>4. CASE build
  <2>1. /\ phase' = "finalizing"
        /\ builds' = builds + 1
        /\ circuit' = EmptyCircuit(input_target_count, generator_target_count)
        /\ op_count' = input_target_count + generator_target_count
        /\ total_op_count' = input_target_count + generator_target_count
        /\ UNCHANGED <<builderVars, target_id, global_target_id, stack>>
    BY <1>4 DEF build
  <2>2. input_target_count \in Nat /\ generator_target_count \in Nat
    BY DEF TypeOK, HeapOK
  <2>3. circuit' \in FCircuit
    BY <2>1, <2>2, EmptySeq DEF EmptyCircuit, FCircuit
  <2>4. HeapOK' /\ Pointers' = Pointers
    BY <2>1, HeapUnchanged DEF TypeOK
  <2> QED BY <1>2, <2>1, <2>2, <2>3, <2>4 DEF TypeOK
<1>5. CASE finish_build
  <2>1. phase' = "built" /\ UNCHANGED <<builderVars, builds, finalizerVars>>
    BY <1>5 DEF finish_build, Walking
  <2>2. HeapOK' /\ Pointers' = Pointers
    BY <2>1, HeapUnchanged DEF TypeOK
  <2> QED BY <1>2, <2>1, <2>2 DEF TypeOK, finalizerVars
<1> QED BY <1>3, <1>4, <1>5

\* The initial state is well formed.
LEMMA FinalizerInitOK ==
  ASSUME BuilderInit, FinalizerInit
  PROVE  TypeOK /\ StackOK
<1>1. HeapOK
  BY BuilderInitOK
<1>2. circuit \in FCircuit
  BY EmptySeq DEF FinalizerInit, EmptyCircuit, FCircuit
<1> QED BY <1>1, <1>2, EmptySeq DEF FinalizerInit, TypeOK, StackOK

\* TypeOK /\ StackOK is inductive.
LEMMA FinalizerStepOK ==
  ASSUME TypeOK, StackOK, [BuilderCall \/ build \/ Walk]_finalizeVars
  PROVE  TypeOK' /\ StackOK'
<1>1. CASE BuilderCall \/ build \/ finish_build
  BY <1>1, CallsOK
<1>2. CASE visit_generator \/ visit_assertion \/ visit_output
  BY <1>2, LoopsOK
<1>3. CASE return_target
  BY <1>3, ReturnTargetOK
<1>4. CASE visit_op
  BY <1>4, VisitOpOK
<1>5. CASE emit_operation
  BY <1>5, EmitOperationOK
<1>6. CASE finish_generator \/ finish_assertion \/ finish_output
  BY <1>6, FinishOK
<1>7. CASE UNCHANGED finalizeVars
  <2>1. UNCHANGED <<builderVars, finalizerVars, phase, builds>>
    BY <1>7 DEF finalizeVars
  <2>2. HeapOK' /\ Pointers' = Pointers
    BY <2>1, HeapUnchanged DEF TypeOK
  <2>3. TypeOK'
    BY <2>1, <2>2 DEF TypeOK, finalizerVars
  <2>4. ASSUME NEW k \in 1 .. Len(stack)
        PROVE  FrameOK(k)'
    <3>1. FrameOK(k) /\ stack' = stack /\ target_id' = target_id
      BY <2>1 DEF StackOK, finalizerVars
    <3>2. stack[k].kind = "operation" => stack[k].ref \notin DOMAIN target_id'
      BY <3>1 DEF FrameOK, Resolved
    <3> QED BY <2>1, <3>1, <3>2, FrameKept
  <2>5. StackOK'
    BY <2>1, <2>4 DEF StackOK, finalizerVars
  <2> QED BY <2>3, <2>5
<1> QED
  BY <1>1, <1>2, <1>3, <1>4, <1>5, <1>6, <1>7 DEF Walk

-----------------------------------------------------------------------------
(* Theorems                                                                *)

\* Every variable keeps its type and every pointer stays in range, in every
\* circuit and any number of builds.
THEOREM FinalizerTypeCorrect == FinalizerSpec => []TypeOK
<1>1. CircuitInit => TypeOK /\ StackOK
  BY FinalizerInitOK DEF CircuitInit
<1>2. TypeOK /\ StackOK /\ [BuilderCall \/ build \/ Walk]_finalizeVars
        => TypeOK' /\ StackOK'
  BY FinalizerStepOK
<1> QED BY <1>1, <1>2, PTL DEF FinalizerSpec

\* The call stack of visit_op is well formed: unresolved nodes, newest first.
THEOREM StackWellFormed == FinalizerSpec => []StackOK
<1>1. CircuitInit => TypeOK /\ StackOK
  BY FinalizerInitOK DEF CircuitInit
<1>2. TypeOK /\ StackOK /\ [BuilderCall \/ build \/ Walk]_finalizeVars
        => TypeOK' /\ StackOK'
  BY FinalizerStepOK
<1> QED BY <1>1, <1>2, PTL DEF FinalizerSpec

\* "Target ID already set" (core_base.cpp) is never thrown: no node is given an
\* id twice, by any build.
THEOREM TargetIdsSetOnce == FinalizerSpec => []TargetIdNeverSetTwice
<1>1. TypeOK /\ StackOK => TargetIdNeverSetTwice
  <2> SUFFICES ASSUME TypeOK, StackOK,
                      NEW i \in 1 .. Len(stack), NEW j \in 1 .. Len(stack),
                      stack[i].kind = "operation"
               PROVE  /\ stack[i].ref \notin DOMAIN target_id \cup DOMAIN global_target_id
                      /\ i # j /\ stack[j].kind = "operation" => stack[i].ref # stack[j].ref
    BY DEF TargetIdNeverSetTwice
  <2>1. FrameOK(i) /\ FrameOK(j)
    BY DEF StackOK
  <2>2. stack[i].ref \notin DOMAIN target_id \cup DOMAIN global_target_id
    BY <2>1 DEF FrameOK, Resolved, TypeOK
  <2>3. stack[i].ref \in Nat /\ stack[j].ref \in Nat /\ Len(stack) \in Nat
    <3>1. stack[i] \in StackFrame /\ stack[j] \in StackFrame
      BY ElementOfSeq DEF TypeOK
    <3> QED BY <3>1, LenProperties DEF StackFrame, TypeOK
  <2>4. ASSUME i # j, stack[j].kind = "operation"
        PROVE  stack[i].ref # stack[j].ref
    <3>1. i > 1 /\ j > 1
      BY <2>1, <2>4 DEF FrameOK
    <3>2. CASE i < j
      BY <2>1, <2>3, <3>1, <3>2 DEF FrameOK
    <3>3. CASE j < i
      BY <2>1, <2>3, <3>1, <3>3 DEF FrameOK
    <3> QED BY <2>3, <2>4, <3>2, <3>3
  <2> QED BY <2>2, <2>4
<1> QED BY <1>1, FinalizerTypeCorrect, StackWellFormed, PTL

\* Across any number of builds a node keeps the ids it was given first.
THEOREM IdsPermanent == FinalizerSpec => IdsArePermanent
<1> DEFINE Kept == \A p \in DOMAIN target_id :
                     /\ p \in DOMAIN target_id'
                     /\ target_id'[p] = target_id[p]
                     /\ global_target_id'[p] = global_target_id[p]
<1>1. ASSUME TypeOK, StackOK, [BuilderCall \/ build \/ Walk]_finalizeVars
      PROVE  [Kept]_finalizeVars
  <2>1. CASE UNCHANGED finalizeVars
    BY <2>1
  <2>2. CASE emit_operation
    <3> DEFINE p == Top.ref
    <3>1. /\ target_id' = SetId(target_id, p, NextId(ops[p].op_type))
          /\ global_target_id' = SetId(global_target_id, p, NextGlobalId)
          /\ stack # <<>> /\ Complete /\ Top.kind = "operation"
      BY <2>2 DEF emit_operation
    <3>2. p \notin DOMAIN target_id
      BY <1>1, <3>1, CompleteTop DEF Resolved
    <3>3. DOMAIN global_target_id = DOMAIN target_id
      BY <1>1 DEF TypeOK
    <3> HIDE DEF p
    <3>4. Kept
      BY <3>1, <3>2, <3>3 DEF SetId
    <3> QED BY <3>4
  <2>3. CASE UNCHANGED <<target_id, global_target_id>>
    BY <2>3
  <2>4. \/ UNCHANGED finalizeVars \/ emit_operation
        \/ UNCHANGED <<target_id, global_target_id>>
    BY <1>1 DEF BuilderCall, build, Walk, visit_generator, visit_assertion, visit_output,
                return_target, visit_op, finish_generator, finish_assertion,
                finish_output, finish_build, finalizerVars
  <2> QED BY <2>1, <2>2, <2>3, <2>4
<1>2. TypeOK /\ StackOK /\ [BuilderCall \/ build \/ Walk]_finalizeVars => [Kept]_finalizeVars
  BY <1>1
<1> QED
  BY <1>2, FinalizerTypeCorrect, StackWellFormed, PTL DEF FinalizerSpec, IdsArePermanent

\* What PostOrder needs: in the first build no global id has been handed out
\* beyond the counter.
GlobalIdsCounted ==
  /\ builds = 0 => phase = "building" /\ DOMAIN target_id = {}
  /\ builds = 1 => \A p \in DOMAIN target_id : global_target_id[p] < total_op_count

\* GlobalIdsCounted /\ PostOrder is inductive, given the types and the stack.
LEMMA PostOrderStep ==
  ASSUME TypeOK, StackOK, GlobalIdsCounted, PostOrder,
         [BuilderCall \/ build \/ Walk]_finalizeVars
  PROVE  GlobalIdsCounted' /\ PostOrder'
<1>1. Emitted = DOMAIN target_id
  BY DEF Emitted, TypeOK
<1>2. ASSUME UNCHANGED <<builderVars, target_id, global_target_id, total_op_count, builds>>,
             builds = 0 => phase' = "building"
      PROVE  GlobalIdsCounted' /\ PostOrder'
  <2>1. \A p : Resolved(p)' <=> Resolved(p)
    BY <1>2 DEF Resolved, builderVars
  <2> QED
    BY <1>2, <2>1 DEF GlobalIdsCounted, PostOrder, Emitted, builderVars
<1>3. CASE BuilderCall
  <2>1. /\ HeapGrows
        /\ phase' = "building"
        /\ UNCHANGED <<builds, finalizerVars>>
    BY <1>3, BuilderCallOK DEF BuilderCall, TypeOK
  <2>2. UNCHANGED <<target_id, global_target_id, total_op_count, builds>>
    BY <2>1 DEF finalizerVars
  <2>3. \A p \in Emitted : p \in Pointers /\ ops'[p] = ops[p]
    BY <1>1, <2>1 DEF TypeOK, HeapGrows
  <2>4. ASSUME builds = 1, NEW p \in Emitted, NEW i \in DOMAIN ops[p].inputs,
               NEW q, q = ops[p].inputs[i]
        PROVE  /\ Resolved(q)'
               /\ q \in Emitted => global_target_id[q] < global_target_id[p]
    <3>1. p \in Pointers
      BY <2>3
    <3>2. ops[p] \in Node
      BY <3>1, ElementOfSeq DEF TypeOK, HeapOK, NodesOK, Pointers
    <3>3. i \in 1 .. Len(ops[p].inputs)
      BY <3>2, LenProperties DEF Node
    <3>4. /\ Resolved(q)
          /\ q \in Emitted => global_target_id[q] < global_target_id[p]
      BY <2>4 DEF PostOrder
    <3>5. q \in Pointers
      <4>1. q \in 1 .. p - 1
        BY <2>4, <3>1, <3>3, NodeInputs DEF TypeOK
      <4>2. Len(ops) \in Nat
        BY LenProperties DEF TypeOK, HeapOK, NodesOK
      <4> QED BY <3>1, <4>1, <4>2 DEF Pointers
    <3>6. Resolved(q)'
      BY <2>1, <2>2, <3>4, <3>5 DEF Resolved, HeapGrows
    <3> QED BY <3>4, <3>6
  <2>5. GlobalIdsCounted'
    BY <2>1, <2>2 DEF GlobalIdsCounted
  <2>6. PostOrder'
    BY <2>2, <2>3, <2>4 DEF PostOrder, Emitted
  <2> QED BY <2>5, <2>6
<1>4. CASE build
  <2>1. /\ builds' = builds + 1 /\ builds \in Nat
        /\ UNCHANGED <<target_id, global_target_id>>
    BY <1>4 DEF build, TypeOK
  <2>2. builds' # 0 /\ (builds' = 1 => DOMAIN target_id = {})
    BY <2>1 DEF GlobalIdsCounted
  <2> QED BY <1>1, <2>1, <2>2 DEF GlobalIdsCounted, PostOrder, Emitted
<1>5. CASE emit_operation
  <2> DEFINE p == Top.ref
  <2>1. /\ target_id' = SetId(target_id, p, NextId(ops[p].op_type))
        /\ global_target_id' = SetId(global_target_id, p, total_op_count)
        /\ total_op_count' = total_op_count + 1
        /\ stack # <<>> /\ Complete /\ Top.kind = "operation"
        /\ phase = "finalizing"
        /\ UNCHANGED <<builderVars, builds>>
    BY <1>5 DEF emit_operation, Walking, NextGlobalId
  <2>2. /\ p \in Pointers /\ ~Resolved(p)
        /\ \A i \in 1 .. Len(ops[p].inputs) : Resolved(ops[p].inputs[i])
    BY <2>1, CompleteTop DEF Wanted
  <2> HIDE DEF p
  <2>3. /\ total_op_count \in Nat
        /\ global_target_id \in [DOMAIN target_id -> Nat]
        /\ DOMAIN target_id \subseteq Pointers
    BY DEF TypeOK
  <2>4. /\ Emitted' = Emitted \cup {p} /\ DOMAIN target_id' = DOMAIN target_id \cup {p}
        /\ p \notin DOMAIN target_id
        /\ global_target_id'[p] = total_op_count
        /\ \A q \in DOMAIN target_id : global_target_id'[q] = global_target_id[q]
    BY <1>1, <2>1, <2>2, <2>3 DEF SetId, Emitted, Resolved
  <2>5. GlobalIdsCounted'
    BY <2>1, <2>3, <2>4 DEF GlobalIdsCounted
  <2>6. ASSUME builds = 1, NEW r \in Emitted', NEW i \in DOMAIN ops[r].inputs
        PROVE  LET q == ops[r].inputs[i] IN
               /\ Resolved(q)'
               /\ q \in Emitted' => global_target_id'[q] < global_target_id'[r]
    <3> DEFINE q == ops[r].inputs[i]
    <3>1. r \in Pointers
      BY <1>1, <2>2, <2>3, <2>4
    <3>2. i \in 1 .. Len(ops[r].inputs)
      <4>1. ops[r] \in Node
        BY <3>1, ElementOfSeq DEF TypeOK, HeapOK, NodesOK, Pointers
      <4> QED BY <4>1, LenProperties DEF Node
    <3>3. q \in 1 .. r - 1 /\ r \in Nat
      BY <3>1, <3>2, NodeInputs DEF TypeOK
    <3>4. Resolved(q) => Resolved(q)'
      BY <2>1, <2>4 DEF Resolved, builderVars
    <3>5. CASE r = p
      <4>1. Resolved(q) /\ q # p
        BY <2>2, <3>2, <3>3, <3>5
      <4>2. q \in Emitted => global_target_id[q] < total_op_count
        BY <1>1, <2>6 DEF GlobalIdsCounted
      <4> HIDE DEF q
      <4>3. Resolved(q)' /\ (q \in Emitted' => global_target_id'[q] < global_target_id'[r])
        BY <1>1, <2>4, <3>4, <3>5, <4>1, <4>2
      <4> QED BY <4>3 DEF q
    <3>6. CASE r # p
      <4>1. r \in Emitted
        BY <2>4, <3>6
      <4>2. Resolved(q) /\ (q \in Emitted => global_target_id[q] < global_target_id[r])
        BY <2>6, <4>1 DEF PostOrder
      <4>3. q # p
        BY <2>2, <4>2
      <4> HIDE DEF q
      <4>4. Resolved(q)' /\ (q \in Emitted' => global_target_id'[q] < global_target_id'[r])
        BY <1>1, <2>4, <3>4, <4>1, <4>2, <4>3
      <4> QED BY <4>4 DEF q
    <3> QED BY <3>5, <3>6
  <2>7. PostOrder'
    BY <2>1, <2>6 DEF PostOrder, builderVars
  <2> QED BY <2>5, <2>7
<1>6. CASE \/ visit_generator \/ visit_assertion \/ visit_output \/ return_target \/ visit_op
           \/ finish_generator \/ finish_assertion \/ finish_output \/ finish_build
           \/ UNCHANGED finalizeVars
  <2>1. /\ UNCHANGED <<builderVars, target_id, global_target_id, total_op_count, builds>>
        /\ phase = "finalizing" \/ phase' = phase
    BY <1>6 DEF Walking, visit_generator, visit_assertion, visit_output, return_target,
                visit_op, finish_generator, finish_assertion, finish_output, finish_build,
                finalizeVars, finalizerVars
  <2>2. builds = 0 => phase' = "building"
    BY <2>1 DEF GlobalIdsCounted
  <2> QED BY <1>2, <2>1, <2>2
<1> QED BY <1>3, <1>4, <1>5, <1>6 DEF Walk

\* visit_op emits a node after the nodes it reads, so that the list of the first
\* build can be executed in order.
THEOREM EmittedInPostOrder == FinalizerSpec => []PostOrder
<1>1. CircuitInit => GlobalIdsCounted /\ PostOrder
  BY DEF CircuitInit, FinalizerInit, GlobalIdsCounted, PostOrder
<1>2. TypeOK /\ StackOK /\ GlobalIdsCounted /\ PostOrder
        /\ [BuilderCall \/ build \/ Walk]_finalizeVars => GlobalIdsCounted' /\ PostOrder'
  BY PostOrderStep
<1> QED
  BY <1>1, <1>2, FinalizerTypeCorrect, StackWellFormed, PTL DEF FinalizerSpec

-----------------------------------------------------------------------------
(* The first build                                                         *)

\* The circuit is being built for the first time, or is built and the author
\* has not gone on.
FirstBuild == builds = 1 /\ phase # "building"

-----------------------------------------------------------------------------
(* Counting operations                                                     *)

\* The operations before the k-th that write slots of the kind.
Passed(k, vector) ==
  {j \in 1 .. k - 1 : IsVector(Operations[j].op_type) = vector}

\* Slot in these terms.
LEMMA SlotCounts ==
  ASSUME NEW k, NEW vector, IsVector(Operations[k].op_type) = vector
  PROVE  Slot(k) = IF vector THEN Cardinality(Passed(k, vector))
                             ELSE FirstSlot + Cardinality(Passed(k, vector))
BY DEF Slot, Passed

\* There are finitely many.
LEMMA PassedFinite ==
  ASSUME NEW k \in Nat, NEW vector
  PROVE  IsFiniteSet(Passed(k, vector)) /\ Cardinality(Passed(k, vector)) \in Nat
<1>1. IsFiniteSet(1 .. k - 1)
  BY FS_Interval
<1>2. Passed(k, vector) \subseteq 1 .. k - 1
  BY DEF Passed
<1>3. IsFiniteSet(Passed(k, vector))
  BY <1>1, <1>2, FS_Subset
<1> QED BY <1>3, FS_CardinalityType

\* An operation is appended to the list.
Appended(fop) ==
  /\ circuit'.operations = Append(circuit.operations, fop)
  /\ UNCHANGED FirstSlot

\* The operations before it keep their places and their slots, and it is itself
\* given the slot its kind has come to.
LEMMA AppendedOperation ==
  ASSUME TypeOK, NEW fop \in FOperation, Appended(fop), NEW n, n = Len(Operations)
  PROVE  /\ n \in Nat /\ Len(Operations') = n + 1
         /\ \A k \in 1 .. n : Operations'[k] = Operations[k]
         /\ Operations'[n + 1] = fop
         /\ \A k \in 1 .. n + 1 : \A vector : Passed(k, vector)' = Passed(k, vector)
         /\ \A k \in 1 .. n : Slot(k)' = Slot(k)
         /\ Slot(n + 1)' = IF IsVector(fop.op_type) THEN Cardinality(Passed(n + 1, TRUE))
                           ELSE FirstSlot + Cardinality(Passed(n + 1, FALSE))
<1>1. /\ n \in Nat /\ Len(Operations') = n + 1
      /\ \A k \in 1 .. n : Operations'[k] = Operations[k]
      /\ Operations'[n + 1] = fop
  BY AppendProperties, LenProperties DEF Operations, Appended, TypeOK, FCircuit
<1>2. ASSUME NEW k \in 1 .. n + 1, NEW vector
      PROVE  Passed(k, vector)' = Passed(k, vector)
  <2>1. \A j \in 1 .. k - 1 : Operations'[j] = Operations[j]
    BY <1>1
  <2> QED BY <2>1 DEF Passed
<1>3. ASSUME NEW k \in 1 .. n
      PROVE  Slot(k)' = Slot(k)
  <2>1. Operations'[k] = Operations[k]
    BY <1>1
  <2>2. \A j \in 1 .. k - 1 : Operations'[j] = Operations[j]
    BY <1>1
  <2> QED BY <2>1, <2>2 DEF Slot, Appended
<1>4. Slot(n + 1)' = IF IsVector(fop.op_type) THEN Cardinality(Passed(n + 1, TRUE))
                     ELSE FirstSlot + Cardinality(Passed(n + 1, FALSE))
  <2>1. \A j \in 1 .. n + 1 - 1 : Operations'[j] = Operations[j]
    BY <1>1
  <2> DEFINE same == {j \in 1 .. n : IsVector(Operations[j].op_type) = IsVector(fop.op_type)}
             passed == {j \in 1 .. n + 1 - 1 :
                          IsVector(Operations'[j].op_type) = IsVector(Operations'[n + 1].op_type)}
  <2>2. Slot(n + 1)' = IF IsVector(fop.op_type) THEN Cardinality(same)
                       ELSE FirstSlot + Cardinality(same)
    <3>1. Slot(n + 1)' = IF IsVector(Operations'[n + 1].op_type) THEN Cardinality(passed)
                         ELSE FirstSlot' + Cardinality(passed)
      BY DEF Slot
    <3>2. passed = same
      BY <1>1, <2>1
    <3> HIDE DEF passed, same
    <3> QED BY <1>1, <3>1, <3>2 DEF Appended
  <2>3. same = Passed(n + 1, IsVector(fop.op_type))
    BY <1>1 DEF Passed
  <2>4. IsVector(fop.op_type) = TRUE \/ IsVector(fop.op_type) = FALSE
    BY DEF IsVector
  <2> HIDE DEF same
  <2> QED BY <2>2, <2>3, <2>4
<1> QED BY <1>1, <1>2, <1>3, <1>4

\* The counts after it.
LEMMA AppendedCounts ==
  ASSUME TypeOK, NEW fop \in FOperation, Appended(fop), NEW n, n = Len(Operations),
         NEW vector
  PROVE  Cardinality(Passed(n + 2, vector)') =
           IF IsVector(fop.op_type) = vector THEN Cardinality(Passed(n + 1, vector)) + 1
                                             ELSE Cardinality(Passed(n + 1, vector))
<1>1. /\ n \in Nat
      /\ \A k \in 1 .. n : Operations'[k] = Operations[k]
      /\ Operations'[n + 1] = fop
  BY AppendedOperation
<1>2. Passed(n + 2, vector)' = {j \in 1 .. n + 1 : IsVector(Operations'[j].op_type) = vector}
  BY <1>1 DEF Passed
<1>3. Passed(n + 1, vector) = {j \in 1 .. n : IsVector(Operations[j].op_type) = vector}
  BY <1>1 DEF Passed
<1>4. IsFiniteSet(Passed(n + 1, vector)) /\ n + 1 \notin Passed(n + 1, vector)
  BY <1>1, <1>3, PassedFinite
<1>5. CASE IsVector(fop.op_type) = vector
  <2>1. Passed(n + 2, vector)' = Passed(n + 1, vector) \cup {n + 1}
    BY <1>1, <1>2, <1>3, <1>5
  <2> QED BY <1>4, <1>5, <2>1, FS_AddElement
<1>6. CASE IsVector(fop.op_type) # vector
  <2>1. \A j \in 1 .. n + 1 :
          IsVector(Operations'[j].op_type) = vector <=> j \in Passed(n + 1, vector)
    <3>1. \A j \in 1 .. n + 1 : j \in 1 .. n \/ j = n + 1
      BY <1>1
    <3> QED BY <1>1, <1>3, <1>4, <1>6, <3>1
  <2>2. \A j \in Passed(n + 1, vector) : j \in 1 .. n + 1
    BY <1>1, <1>3
  <2>3. Passed(n + 2, vector)' = Passed(n + 1, vector)
    BY <1>2, <2>1, <2>2
  <2> QED BY <1>6, <2>3
<1> QED BY <1>5, <1>6

-----------------------------------------------------------------------------
(* The invariant                                                           *)

\* The number of slots of each kind that are written.
ScalarSlots == Cardinality(Passed(Len(Operations) + 1, FALSE))
VectorSlots == Cardinality(Passed(Len(Operations) + 1, TRUE))

\* The counters of the finalizer, of which the evaluator sees none, are those of
\* the list, and the circuit has the author's counts.
CountersOK ==
  /\ builds = 1 =>
       /\ total_op_count = FirstSlot + Len(Operations)
       /\ op_count = FirstSlot + ScalarSlots
       /\ circuit.vector_operation_count = VectorSlots
  /\ FirstBuild =>
       /\ circuit.input_target_count = input_target_count
       /\ circuit.generator_target_count = generator_target_count

\* What a call has resolved so far are the targets of the nodes it wants.
FrameTargets(k) ==
  \A i \in 1 .. Len(stack[k].ids) : stack[k].ids[i] = TargetOf(Wanted(stack[k])[i])

SlotsOK ==
  /\ CountersOK
  /\ FirstBuild => \A k \in 1 .. Len(stack) : FrameTargets(k)
  /\ IdsAreSlots

\* A resolved node keeps its target when another node is given an id.
LEMMA TargetsKept ==
  ASSUME UNCHANGED builderVars, NEW p, ~Resolved(p), NEW id,
         target_id' = target_id \/ target_id' = SetId(target_id, p, id)
  PROVE  \A q : Resolved(q) => Resolved(q)' /\ TargetOf(q)' = TargetOf(q) /\ q # p
<1>1. UNCHANGED <<ops, input_target_count>>
  BY DEF builderVars
<1> SUFFICES ASSUME NEW q, Resolved(q)
             PROVE  Resolved(q)' /\ TargetOf(q)' = TargetOf(q) /\ q # p
  OBVIOUS
<1>2. q # p
  OBVIOUS
<1>3. q \in DOMAIN target_id' <=> q \in DOMAIN target_id
  BY <1>2 DEF SetId
<1>4. q \in DOMAIN target_id => target_id'[q] = target_id[q]
  BY <1>2 DEF SetId
<1> QED BY <1>1, <1>2, <1>3, <1>4 DEF Resolved, TargetOf

\* So does a call that waits keep what it has resolved.
LEMMA FrameTargetsKept ==
  ASSUME NEW k \in 1 .. Len(stack), FrameOK(k), FrameTargets(k), stack'[k] = stack[k],
         UNCHANGED builderVars, \A q : Resolved(q) => TargetOf(q)' = TargetOf(q)
  PROVE  FrameTargets(k)'
<1>1. Wanted(stack[k])' = Wanted(stack[k])
  BY DEF Wanted, builderVars
<1>2. \A i \in 1 .. Len(stack[k].ids) : Resolved(Wanted(stack[k])[i])
  BY DEF FrameOK
<1> QED BY <1>1, <1>2 DEF FrameTargets

-----------------------------------------------------------------------------
(* Every step keeps the invariant                                          *)

\* A step that gives no ids: only the stack is to be looked at.
LEMMA QuietStep ==
  ASSUME SlotsOK, phase = "building" => phase' = "building",
         UNCHANGED <<builderVars, builds, target_id, global_target_id, op_count,
                     total_op_count>>,
         UNCHANGED <<circuit.input_target_count, circuit.generator_target_count,
                     circuit.vector_operation_count, circuit.operations>>,
         FirstBuild => \A k \in 1 .. Len(stack') : FrameTargets(k)'
  PROVE  SlotsOK'
<1>1. UNCHANGED <<ops, input_target_count, generator_target_count>>
  BY DEF builderVars
<1>2. FirstBuild' => FirstBuild
  BY DEF FirstBuild
<1>3. Operations' = Operations /\ FirstSlot' = FirstSlot
  BY DEF Operations, FirstSlot
<1>4. \A k : Slot(k)' = Slot(k)
  BY <1>3 DEF Slot
<1>5. ScalarSlots' = ScalarSlots /\ VectorSlots' = VectorSlots
  BY <1>3 DEF ScalarSlots, VectorSlots, Passed
<1>6. \A q : TargetOf(q)' = TargetOf(q)
  BY <1>1 DEF TargetOf
<1>7. CountersOK'
  BY <1>1, <1>2, <1>3, <1>5 DEF SlotsOK, CountersOK
<1>8. IdsAreSlots'
  BY <1>1, <1>3, <1>4, <1>6 DEF SlotsOK, IdsAreSlots, Emitted
<1> QED BY <1>2, <1>7, <1>8 DEF SlotsOK

\* Between builds, and the start and the end of one.
LEMMA SlotsAfterCall ==
  ASSUME TypeOK, StackOK, GlobalIdsCounted, SlotsOK, BuilderCall \/ build \/ finish_build
  PROVE  SlotsOK'
<1>1. stack = <<>> /\ stack' = <<>>
  BY DEF BuilderCall, build, finish_build, StackOK, finalizerVars, Walking
<1>2. CASE BuilderCall
  <2>1. /\ phase' = "building"
        /\ UNCHANGED <<builds, circuit, op_count, total_op_count>>
    BY <1>2 DEF BuilderCall, finalizerVars
  <2>2. CountersOK'
    BY <2>1 DEF SlotsOK, CountersOK, FirstBuild, FirstSlot, Operations, Passed, ScalarSlots,
                VectorSlots
  <2> QED BY <2>1, <2>2 DEF SlotsOK, IdsAreSlots, FirstBuild
<1>3. CASE build
  <2>1. /\ builds' = builds + 1 /\ builds \in Nat
        /\ circuit' = EmptyCircuit(input_target_count, generator_target_count)
        /\ op_count' = input_target_count + generator_target_count
        /\ total_op_count' = input_target_count + generator_target_count
        /\ UNCHANGED <<builderVars, target_id, global_target_id>>
    BY <1>3 DEF build, TypeOK
  <2>2. builds' = 1 => DOMAIN target_id = {}
    BY <2>1 DEF GlobalIdsCounted
  <2>3. /\ Operations' = <<>> /\ Len(Operations') = 0
        /\ FirstSlot' = input_target_count + generator_target_count
        /\ circuit'.vector_operation_count = 0
        /\ circuit'.input_target_count = input_target_count
        /\ circuit'.generator_target_count = generator_target_count
    BY <2>1 DEF Operations, FirstSlot, EmptyCircuit
  <2>4. input_target_count \in Nat /\ generator_target_count \in Nat
    BY DEF TypeOK, HeapOK
  <2>5. ScalarSlots' = 0 /\ VectorSlots' = 0
    BY <2>3, FS_EmptySet DEF Passed, ScalarSlots, VectorSlots
  <2>6. UNCHANGED <<input_target_count, generator_target_count>>
    BY <2>1 DEF builderVars
  <2>7. CountersOK'
    BY <2>1, <2>3, <2>4, <2>5, <2>6 DEF CountersOK
  <2>8. builds' = 1 => Emitted' = {} /\ Cardinality(Emitted)' = 0
    BY <2>1, <2>2, FS_EmptySet DEF Emitted, TypeOK
  <2>9. IdsAreSlots'
    BY <2>1, <2>3, <2>4, <2>8 DEF IdsAreSlots
  <2> QED BY <1>1, <2>7, <2>9 DEF SlotsOK
<1>4. CASE finish_build
  BY <1>1, <1>4, QuietStep DEF finish_build, Walking, finalizerVars
<1> QED BY <1>2, <1>3, <1>4

\* The steps that move the stack and give no ids.
LEMMA SlotsAfterMove ==
  ASSUME TypeOK, StackOK, SlotsOK,
         \/ visit_generator \/ visit_assertion \/ visit_output \/ visit_op
         \/ return_target \/ finish_generator \/ finish_assertion \/ finish_output
  PROVE  SlotsOK'
<1>1. /\ phase = "finalizing"
      /\ UNCHANGED <<builderVars, builds, target_id, global_target_id, op_count,
                     total_op_count>>
  BY DEF visit_generator, visit_assertion, visit_output, visit_op, return_target,
         finish_generator, finish_assertion, finish_output, Walking
<1>2. UNCHANGED <<circuit.input_target_count, circuit.generator_target_count,
                  circuit.vector_operation_count, circuit.operations>>
  <2>1. CASE UNCHANGED circuit
    BY <2>1
  <2>2. CASE finish_generator \/ finish_assertion \/ finish_output
    BY <2>2 DEF finish_generator, finish_assertion, finish_output, TypeOK, FCircuit
  <2> QED BY <2>1, <2>2 DEF visit_generator, visit_assertion, visit_output, visit_op,
                            return_target
<1>3. \A q : TargetOf(q)' = TargetOf(q)
  BY <1>1 DEF TargetOf, builderVars
<1>4. ASSUME FirstBuild, NEW k \in 1 .. Len(stack), stack'[k] = stack[k]
      PROVE  FrameTargets(k)'
  <2>1. FrameTargets(k) /\ FrameOK(k)
    BY <1>4 DEF SlotsOK, StackOK
  <2> QED BY <1>1, <1>3, <1>4, <2>1, FrameTargetsKept
<1>5. ASSUME FirstBuild
      PROVE  \A k \in 1 .. Len(stack') : FrameTargets(k)'
  <2>1. ASSUME NEW kind \in {"generator", "assertion", "output", "operation"},
               NEW ref \in Nat, Push(Frame(kind, ref))
        PROVE  \A k \in 1 .. Len(stack') : FrameTargets(k)'
    <3>1. Frame(kind, ref) \in StackFrame /\ Frame(kind, ref).ids = <<>>
      BY NewFrame
    <3> HIDE DEF Frame
    <3>2. /\ Len(stack') = Len(stack) + 1 /\ Len(stack) \in Nat
          /\ \A k \in 1 .. Len(stack) : stack'[k] = stack[k]
          /\ stack'[Len(stack) + 1].ids = <<>>
      BY <2>1, <3>1, Pushed
    <3>3. \A k : k = Len(stack) + 1 => FrameTargets(k)'
      BY <3>2 DEF FrameTargets
    <3>4. \A k \in 1 .. Len(stack') : k \in 1 .. Len(stack) \/ k = Len(stack) + 1
      BY <3>2
    <3> QED BY <1>4, <1>5, <3>2, <3>3, <3>4
  <2>2. CASE visit_generator
    <3>1. Len(circuit.generators) + 1 \in Nat
      BY LenProperties DEF TypeOK, FCircuit
    <3> QED BY <2>1, <2>2, <3>1 DEF visit_generator
  <2>3. CASE visit_assertion
    <3>1. Len(circuit.assertions) + 1 \in Nat
      BY LenProperties DEF TypeOK, FCircuit
    <3> QED BY <2>1, <2>3, <3>1 DEF visit_assertion
  <2>4. CASE visit_output
    <3>1. Len(circuit.output_ops) + 1 \in Nat
      BY LenProperties DEF TypeOK, FCircuit
    <3> QED BY <2>1, <2>4, <3>1 DEF visit_output
  <2>5. CASE visit_op
    <3>1. Child \in Nat
      BY <2>5, ChildIsNode DEF visit_op
    <3> QED BY <2>1, <2>5, <3>1 DEF visit_op
  <2>6. CASE return_target
    <3> DEFINE n == Len(stack)
               target == TargetOf(Child)
    <3>1. /\ stack # <<>> /\ ~Complete /\ Resolved(Child)
          /\ stack' = [stack EXCEPT ![n].ids = Append(@, target)]
      BY <2>6 DEF return_target
    <3>2. n \in Nat \ {0} /\ Top \in StackFrame /\ FrameOK(n) /\ FrameTargets(n)
      BY <1>5, <3>1, TopIsFrame DEF SlotsOK
    <3>3. Child \in Pointers /\ Len(Top.ids) \in Nat
      BY <3>1, ChildIsNode
    <3>4. target \in Nat
      BY <3>1, <3>3, TargetOfResolved
    <3> HIDE DEF target
    <3>5. /\ Len(Append(Top.ids, target)) = Len(Top.ids) + 1
          /\ \A i \in 1 .. Len(Top.ids) : Append(Top.ids, target)[i] = Top.ids[i]
          /\ Append(Top.ids, target)[Len(Top.ids) + 1] = target
      BY <3>2, <3>4, AppendProperties DEF StackFrame
    <3>6. /\ Len(stack') = n
          /\ \A k \in 1 .. n : k # n => stack'[k] = stack[k]
          /\ stack'[n] = [Top EXCEPT !.ids = Append(Top.ids, target)]
      <4>1. stack' = [stack EXCEPT ![n] = [Top EXCEPT !.ids = Append(Top.ids, target)]]
        BY <3>1 DEF Top
      <4>2. stack \in Seq(StackFrame) /\ DOMAIN stack = 1 .. n
        BY LenProperties DEF TypeOK
      <4> HIDE DEF n
      <4>3. DOMAIN stack' = 1 .. n /\ n \in 1 .. n
        BY <3>2, <4>1, <4>2
      <4> QED BY <3>2, <4>1, <4>2, <4>3
    <3>7. /\ stack'[n].ids = Append(Top.ids, target)
          /\ stack'[n].kind = Top.kind /\ stack'[n].ref = Top.ref
      BY <3>2, <3>6 DEF StackFrame
    <3>8. \A k : k = n => Wanted(stack[k])' = Wanted(Top)
      BY <1>1, <3>7 DEF Wanted, builderVars
    <3>9. ASSUME NEW k, k = n
          PROVE  FrameTargets(k)'
      <4>1. \A i \in 1 .. Len(Top.ids) : Top.ids[i] = TargetOf(Wanted(Top)[i])
        BY <3>2 DEF FrameTargets, Top
      <4>2. target = TargetOf(Wanted(Top)[Len(Top.ids) + 1])
        BY DEF Child, target
      <4>3. \A i \in 1 .. Len(Top.ids) + 1 : i \in 1 .. Len(Top.ids) \/ i = Len(Top.ids) + 1
        BY <3>3
      <4>4. \A i \in 1 .. Len(Top.ids) + 1 :
              Append(Top.ids, target)[i] = TargetOf(Wanted(Top)[i])
        BY <3>5, <4>1, <4>2, <4>3
      <4> QED BY <1>3, <3>5, <3>7, <3>8, <3>9, <4>4 DEF FrameTargets
    <3> QED BY <1>4, <1>5, <3>2, <3>6, <3>9
  <2>7. CASE finish_generator \/ finish_assertion \/ finish_output
    <3>1. stack # <<>> /\ Pop
      BY <2>7 DEF finish_generator, finish_assertion, finish_output
    <3>2. /\ Len(stack) \in Nat \ {0} /\ Len(stack') = Len(stack) - 1
          /\ \A k \in 1 .. Len(stack) - 1 : stack'[k] = stack[k]
      BY <3>1, Popped
    <3>3. \A k \in 1 .. Len(stack') : k \in 1 .. Len(stack) /\ stack'[k] = stack[k]
      BY <3>2
    <3> QED BY <1>4, <1>5, <3>3
  <2> QED BY <2>2, <2>3, <2>4, <2>5, <2>6, <2>7
<1> QED BY <1>1, <1>2, <1>5, QuietStep

\* What the tail of visit_op does, in terms of the node it finishes.
LEMMA Emission ==
  ASSUME TypeOK, StackOK, emit_operation
  PROVE  LET p   == Top.ref
             fop == [op_type |-> ops[p].op_type, target_inputs |-> Top.ids,
                     constant_inputs |-> ops[p].constants]
         IN
         /\ p \in Pointers /\ ~Resolved(p) /\ p \notin DOMAIN target_id
         /\ Top.kind = "operation" /\ FrameOK(Len(stack)) /\ Pop /\ stack # <<>>
         /\ Len(Top.ids) = Len(ops[p].inputs)
         /\ fop \in FOperation /\ Appended(fop)
         /\ target_id' = SetId(target_id, p, NextId(ops[p].op_type))
         /\ global_target_id' = SetId(global_target_id, p, total_op_count)
         /\ total_op_count' = total_op_count + 1
         /\ op_count' = CountAfter(ops[p].op_type)
         /\ circuit'.vector_operation_count =
              IF IsVector(ops[p].op_type) THEN circuit.vector_operation_count + 1
                                          ELSE circuit.vector_operation_count
         /\ circuit'.input_target_count = circuit.input_target_count
         /\ circuit'.generator_target_count = circuit.generator_target_count
         /\ circuit'.generators = circuit.generators
         /\ circuit'.assertions = circuit.assertions
         /\ circuit'.output_ops = circuit.output_ops
         /\ UNCHANGED <<builderVars, builds, phase>> /\ phase = "finalizing"
<1> DEFINE p == Top.ref
           op == ops[p]
           fop == [op_type |-> op.op_type, target_inputs |-> Top.ids,
                   constant_inputs |-> op.constants]
<1>1. /\ stack # <<>> /\ Complete /\ Top.kind = "operation" /\ Pop
      /\ target_id' = SetId(target_id, p, NextId(op.op_type))
      /\ global_target_id' = SetId(global_target_id, p, total_op_count)
      /\ total_op_count' = total_op_count + 1
      /\ op_count' = CountAfter(op.op_type)
      /\ circuit' = [circuit EXCEPT
           !.vector_operation_count = IF IsVector(op.op_type) THEN @ + 1 ELSE @,
           !.operations = Append(@, fop)]
      /\ phase = "finalizing"
      /\ UNCHANGED <<builderVars, builds, phase>>
  BY DEF emit_operation, Walking, NextGlobalId
<1>2. /\ Top \in StackFrame /\ p \in Pointers /\ ~Resolved(p)
      /\ Len(Top.ids) = Len(op.inputs)
  BY <1>1, CompleteTop DEF Wanted
<1>3. FrameOK(Len(stack))
  BY <1>1, TopIsFrame
<1>4. op \in Node
  BY <1>2, NodeInputs DEF TypeOK
<1>5. fop \in FOperation
  BY <1>2, <1>4 DEF FOperation, StackFrame, Node
<1> HIDE DEF fop
<1>6. /\ circuit'.operations = Append(circuit.operations, fop)
      /\ circuit'.vector_operation_count =
           IF IsVector(op.op_type) THEN circuit.vector_operation_count + 1
                                   ELSE circuit.vector_operation_count
      /\ circuit'.input_target_count = circuit.input_target_count
      /\ circuit'.generator_target_count = circuit.generator_target_count
      /\ circuit'.generators = circuit.generators
      /\ circuit'.assertions = circuit.assertions
      /\ circuit'.output_ops = circuit.output_ops
  BY <1>1 DEF TypeOK, FCircuit
<1>7. Appended(fop)
  BY <1>6 DEF Appended, FirstSlot
<1>8. p \notin DOMAIN target_id
  BY <1>2 DEF Resolved
<1> QED BY <1>1, <1>2, <1>3, <1>5, <1>6, <1>7, <1>8 DEF fop

\* The counters after the tail of visit_op.
LEMMA CountersAfterEmit ==
  ASSUME TypeOK, StackOK, CountersOK, emit_operation
  PROVE  CountersOK'
<1> DEFINE type == ops[Top.ref].op_type
<1>0. PICK n : n = Len(Operations)
  OBVIOUS
<1>1. PICK fop \in FOperation : fop.op_type = type /\ Appended(fop)
  BY Emission
<1>2. /\ n \in Nat /\ Len(Operations') = n + 1
  BY <1>0, <1>1, AppendedOperation
<1>3. /\ total_op_count' = total_op_count + 1
      /\ op_count' = CountAfter(type)
      /\ circuit'.vector_operation_count =
           IF IsVector(type) THEN circuit.vector_operation_count + 1
                             ELSE circuit.vector_operation_count
      /\ circuit'.input_target_count = circuit.input_target_count
      /\ circuit'.generator_target_count = circuit.generator_target_count
      /\ UNCHANGED <<builderVars, builds, phase>> /\ phase = "finalizing"
  BY Emission
<1>4. IsVector(type) = TRUE \/ IsVector(type) = FALSE
  BY DEF IsVector
<1> HIDE DEF type
<1>5. ScalarSlots' = IF IsVector(type) THEN ScalarSlots ELSE ScalarSlots + 1
  <2>1. ScalarSlots' = Cardinality(Passed(n + 2, FALSE)')
    BY <1>2 DEF ScalarSlots
  <2>2. ScalarSlots = Cardinality(Passed(n + 1, FALSE))
    BY <1>0 DEF ScalarSlots
  <2>3. Cardinality(Passed(n + 2, FALSE)') =
          IF IsVector(fop.op_type) = FALSE THEN Cardinality(Passed(n + 1, FALSE)) + 1
                                           ELSE Cardinality(Passed(n + 1, FALSE))
    BY <1>0, <1>1, AppendedCounts
  <2> QED BY <1>1, <1>4, <2>1, <2>2, <2>3
<1>6. VectorSlots' = IF IsVector(type) THEN VectorSlots + 1 ELSE VectorSlots
  <2>1. VectorSlots' = Cardinality(Passed(n + 2, TRUE)')
    BY <1>2 DEF VectorSlots
  <2>2. VectorSlots = Cardinality(Passed(n + 1, TRUE))
    BY <1>0 DEF VectorSlots
  <2>3. Cardinality(Passed(n + 2, TRUE)') =
          IF IsVector(fop.op_type) = TRUE THEN Cardinality(Passed(n + 1, TRUE)) + 1
                                          ELSE Cardinality(Passed(n + 1, TRUE))
    BY <1>0, <1>1, AppendedCounts
  <2> QED BY <1>1, <1>4, <2>1, <2>2, <2>3
<1>7. ScalarSlots \in Nat /\ VectorSlots \in Nat /\ FirstSlot \in Nat
  <2>1. n + 1 \in Nat
    BY <1>2
  <2>2. ScalarSlots \in Nat /\ VectorSlots \in Nat
    BY <1>0, <2>1, PassedFinite DEF ScalarSlots, VectorSlots
  <2> QED BY <2>2 DEF FirstSlot, TypeOK, FCircuit
<1>8. FirstSlot' = FirstSlot
  BY <1>3 DEF FirstSlot
<1>9. builds' = 1 =>
        /\ total_op_count' = FirstSlot' + Len(Operations')
        /\ op_count' = FirstSlot' + ScalarSlots'
        /\ circuit'.vector_operation_count = VectorSlots'
  BY <1>0, <1>2, <1>3, <1>5, <1>6, <1>7, <1>8 DEF CountersOK, CountAfter
<1>10. FirstBuild' => /\ circuit'.input_target_count = input_target_count'
                      /\ circuit'.generator_target_count = generator_target_count'
  BY <1>3 DEF CountersOK, FirstBuild, builderVars
<1> QED BY <1>9, <1>10 DEF CountersOK

\* What IdsAreSlots says of one emitted node.
SlotOf(p) ==
  LET k == global_target_id[p] - FirstSlot + 1 IN
  /\ k \in 1 .. Len(Operations)
  /\ Operations[k].op_type = ops[p].op_type
  /\ Slot(k) = target_id[p]
  /\ Len(Operations[k].target_inputs) = Len(ops[p].inputs)
  /\ \A i \in 1 .. Len(ops[p].inputs) :
       Operations[k].target_inputs[i] = TargetOf(ops[p].inputs[i])

\* Nodes emitted before keep their places, their slots and their inputs.
LEMMA OldSlotsKept ==
  ASSUME TypeOK, StackOK, PostOrder, builds = 1, emit_operation,
         NEW q \in Emitted, SlotOf(q)
  PROVE  SlotOf(q)' /\ q # Top.ref
<1>0. PICK p, k, n : /\ p = Top.ref /\ n = Len(Operations)
                     /\ k = global_target_id[q] - FirstSlot + 1
  OBVIOUS
<1>1. PICK fop \in FOperation : Appended(fop)
  BY Emission
<1>2. /\ n \in Nat /\ Len(Operations') = n + 1
      /\ \A j \in 1 .. n : Operations'[j] = Operations[j] /\ Slot(j)' = Slot(j)
  BY <1>0, <1>1, AppendedOperation
<1>3. /\ ~Resolved(p) /\ p \notin DOMAIN target_id
      /\ target_id' = SetId(target_id, p, NextId(ops[p].op_type))
      /\ global_target_id' = SetId(global_target_id, p, total_op_count)
      /\ UNCHANGED builderVars
  BY <1>0, Emission
<1>4. ops' = ops
  BY <1>3 DEF builderVars
<1>5. q \in DOMAIN target_id /\ q # p /\ q \in Pointers
  BY <1>3 DEF Emitted, TypeOK
<1>6. /\ k \in 1 .. n
      /\ Operations[k].op_type = ops[q].op_type
      /\ Slot(k) = target_id[q]
      /\ Len(Operations[k].target_inputs) = Len(ops[q].inputs)
      /\ \A i \in 1 .. Len(ops[q].inputs) :
           Operations[k].target_inputs[i] = TargetOf(ops[q].inputs[i])
  BY <1>0 DEF SlotOf
<1>7. target_id'[q] = target_id[q] /\ global_target_id'[q] = global_target_id[q]
  BY <1>3, <1>5 DEF SetId, Emitted
<1>8. \A r : Resolved(r) => TargetOf(r)' = TargetOf(r)
  BY <1>3, TargetsKept
<1>9. \A i \in 1 .. Len(ops[q].inputs) : Resolved(ops[q].inputs[i])
  <2>1. DOMAIN ops[q].inputs = 1 .. Len(ops[q].inputs)
    BY <1>5, NodeInputs DEF TypeOK
  <2> QED BY <2>1 DEF PostOrder
<1>10. k = global_target_id'[q] - FirstSlot' + 1
  BY <1>0, <1>1, <1>7 DEF Appended
<1>11. Operations'[k] = Operations[k] /\ Slot(k)' = Slot(k) /\ k \in 1 .. n + 1
  BY <1>2, <1>6
<1>12. /\ k \in 1 .. Len(Operations')
       /\ Operations'[k].op_type = ops'[q].op_type
       /\ Slot(k)' = target_id'[q]
       /\ Len(Operations'[k].target_inputs) = Len(ops'[q].inputs)
       /\ \A i \in 1 .. Len(ops'[q].inputs) :
            Operations'[k].target_inputs[i] = TargetOf(ops[q].inputs[i])'
  BY <1>2, <1>4, <1>6, <1>7, <1>8, <1>9, <1>11
<1> QED BY <1>0, <1>4, <1>5, <1>10, <1>12 DEF SlotOf

\* The node emitted is given the place behind the others, the slot its kind has
\* come to, and the targets of its inputs.
LEMMA NewSlot ==
  ASSUME TypeOK, StackOK, CountersOK, FrameTargets(Len(stack)), builds = 1,
         emit_operation, NEW p, p = Top.ref
  PROVE  SlotOf(p)'
<1>0. PICK n, ids : /\ p = Top.ref /\ n = Len(Operations) /\ ids = Top.ids
  OBVIOUS
<1>1. PICK fop \in FOperation :
        /\ fop.op_type = ops[p].op_type /\ fop.target_inputs = ids
        /\ Appended(fop)
  BY <1>0, Emission
<1>2. /\ n \in Nat /\ Len(Operations') = n + 1
      /\ Operations'[n + 1] = fop
      /\ Slot(n + 1)' = IF IsVector(fop.op_type) THEN Cardinality(Passed(n + 1, TRUE))
                        ELSE FirstSlot + Cardinality(Passed(n + 1, FALSE))
  BY <1>0, <1>1, AppendedOperation
<1>3. /\ ~Resolved(p) /\ FrameOK(Len(stack)) /\ Len(ids) = Len(ops[p].inputs)
      /\ stack[Len(stack)].kind = "operation" /\ stack # <<>> /\ Complete
      /\ target_id' = SetId(target_id, p, NextId(ops[p].op_type))
      /\ global_target_id' = SetId(global_target_id, p, total_op_count)
      /\ UNCHANGED builderVars
  BY <1>0, Emission DEF Top, emit_operation
<1>4. /\ target_id'[p] = NextId(ops[p].op_type)
      /\ global_target_id'[p] = total_op_count
  BY <1>3 DEF SetId
<1>5. Slot(n + 1)' = target_id'[p]
  BY <1>0, <1>1, <1>2, <1>4 DEF CountersOK, NextId, ScalarSlots, VectorSlots
<1>6. \A i \in 1 .. Len(ids) : /\ ids[i] = TargetOf(ops[p].inputs[i])
                              /\ Resolved(ops[p].inputs[i])
  <2>1. Wanted(stack[Len(stack)]) = ops[p].inputs
    BY <1>0, <1>3 DEF Wanted, Top
  <2> QED BY <1>0, <1>3, <2>1 DEF FrameTargets, FrameOK, Top
<1>7. \A i \in 1 .. Len(ids) : ids[i] = TargetOf(ops[p].inputs[i])'
  <2>1. \A r : Resolved(r) => TargetOf(r)' = TargetOf(r)
    BY <1>3, TargetsKept
  <2>2. \A r : r = ops[p].inputs => \A i \in 1 .. Len(ids) : ids[i] = TargetOf(r[i])'
    BY <1>6, <2>1
  <2>3. ops' = ops
    BY <1>3 DEF builderVars
  <2> QED BY <2>2, <2>3
<1>8. global_target_id'[p] - FirstSlot' + 1 = n + 1
  <2>1. FirstSlot \in Nat
    BY DEF FirstSlot, TypeOK, FCircuit
  <2>2. FirstSlot' = FirstSlot /\ global_target_id'[p] = FirstSlot + n
    BY <1>0, <1>1, <1>4 DEF Appended, CountersOK
  <2> QED BY <1>2, <2>1, <2>2
<1>9. ops' = ops
  BY <1>3 DEF builderVars
<1> QED BY <1>1, <1>2, <1>3, <1>5, <1>7, <1>8, <1>9 DEF SlotOf

\* The tail of visit_op keeps the invariant.
LEMMA SlotsAfterEmit ==
  ASSUME TypeOK, StackOK, PostOrder, SlotsOK, emit_operation
  PROVE  SlotsOK'
<1>0. PICK p : p = Top.ref
  OBVIOUS
<1>1. CountersOK' /\ CountersOK
  BY CountersAfterEmit DEF SlotsOK
<1>2. /\ ~Resolved(p) /\ p \notin Emitted /\ p \in Pointers
      /\ stack # <<>> /\ Pop /\ phase = "finalizing"
      /\ target_id' = SetId(target_id, p, NextId(ops[p].op_type))
      /\ Emitted' = Emitted \cup {p}
      /\ UNCHANGED <<builderVars, builds, phase>>
  <2>1. /\ ~Resolved(p) /\ p \notin DOMAIN target_id /\ p \in Pointers
        /\ stack # <<>> /\ Pop /\ phase = "finalizing"
        /\ target_id' = SetId(target_id, p, NextId(ops[p].op_type))
        /\ global_target_id' = SetId(global_target_id, p, total_op_count)
        /\ UNCHANGED <<builderVars, builds, phase>>
    BY <1>0, Emission
  <2>2. Emitted' = Emitted \cup {p}
    BY <2>1 DEF SetId, Emitted
  <2> QED BY <2>1, <2>2 DEF Emitted, TypeOK
<1>3. /\ Len(stack) \in Nat \ {0} /\ Len(stack') = Len(stack) - 1
      /\ \A k \in 1 .. Len(stack) - 1 : stack'[k] = stack[k]
  BY <1>2, Popped
<1>4. \A q : Resolved(q) => TargetOf(q)' = TargetOf(q)
  BY <1>2, TargetsKept
<1>5. ASSUME FirstBuild'
      PROVE  \A k \in 1 .. Len(stack') : FrameTargets(k)'
  <2>1. FirstBuild
    BY <1>2, <1>5 DEF FirstBuild
  <2>2. ASSUME NEW k \in 1 .. Len(stack')
        PROVE  k \in 1 .. Len(stack) /\ stack'[k] = stack[k] /\ FrameTargets(k) /\ FrameOK(k)
    BY <1>3, <2>1 DEF SlotsOK, StackOK
  <2> QED BY <1>2, <1>4, <2>2, FrameTargetsKept
<1>6. IdsAreSlots'
  <2> SUFFICES ASSUME builds' = 1
               PROVE  IdsAreSlots'
    BY DEF IdsAreSlots
  <2>1. builds = 1 /\ FirstBuild /\ FrameTargets(Len(stack))
    BY <1>2, <1>3 DEF SlotsOK, FirstBuild
  <2>2. /\ \A q \in Emitted : SlotOf(q)
        /\ Cardinality(Emitted) = Len(Operations)
    BY <1>2, <2>1 DEF SlotsOK, IdsAreSlots, SlotOf
  <2>3. \A q \in Emitted : SlotOf(q)'
    BY <2>1, <2>2, OldSlotsKept
  <2>4. \A q : q = p => SlotOf(q)'
    BY <1>0, <1>1, <2>1, NewSlot
  <2>5. \A q \in Emitted' : SlotOf(q)'
    BY <1>2, <2>3, <2>4
  <2>6. IsFiniteSet(Emitted)
    <3>1. IsFiniteSet(Pointers)
      <4>1. Len(ops) \in Int
        BY LenProperties DEF TypeOK, HeapOK, NodesOK
      <4> QED BY <4>1, FS_Interval DEF Pointers
    <3>2. Emitted \subseteq Pointers
      BY DEF TypeOK, Emitted
    <3> QED BY <3>1, <3>2, FS_Subset
  <2>7. Cardinality(Emitted') = Len(Operations) + 1
    BY <1>2, <2>2, <2>6, FS_AddElement
  <2>8. Len(Operations') = Len(Operations) + 1
    BY Emission, AppendedOperation
  <2>9. Cardinality(Emitted)' = Len(Operations')
    BY <2>7, <2>8
  <2>10. total_op_count' = FirstSlot' + Len(Operations')
    BY <1>1, <2>1 DEF CountersOK
  <2> QED BY <2>5, <2>9, <2>10 DEF IdsAreSlots, SlotOf
<1> QED BY <1>1, <1>5, <1>6 DEF SlotsOK

\* SlotsOK is inductive, given the types, the stack and the post-order.
LEMMA SlotsStep ==
  ASSUME TypeOK, StackOK, GlobalIdsCounted, PostOrder, SlotsOK,
         [BuilderCall \/ build \/ Walk]_finalizeVars
  PROVE  SlotsOK'
<1>1. CASE BuilderCall \/ build \/ finish_build
  BY <1>1, SlotsAfterCall
<1>2. CASE \/ visit_generator \/ visit_assertion \/ visit_output \/ visit_op
           \/ return_target \/ finish_generator \/ finish_assertion \/ finish_output
  BY <1>2, SlotsAfterMove
<1>3. CASE emit_operation
  BY <1>3, SlotsAfterEmit
<1>4. CASE UNCHANGED finalizeVars
  <2>1. UNCHANGED <<builderVars, finalizerVars, phase, builds>>
    BY <1>4 DEF finalizeVars
  <2>2. UNCHANGED <<target_id, global_target_id, circuit, op_count, total_op_count, stack>>
    BY <2>1 DEF finalizerVars
  <2>3. \A q : TargetOf(q)' = TargetOf(q)
    BY <2>1, <2>2 DEF TargetOf, builderVars
  <2>4. ASSUME FirstBuild, NEW k \in 1 .. Len(stack)
        PROVE  FrameTargets(k)'
    <3>1. FrameTargets(k) /\ FrameOK(k)
      BY <2>4 DEF SlotsOK, StackOK
    <3> QED BY <2>1, <2>2, <2>3, <3>1, FrameTargetsKept
  <2> QED BY <2>1, <2>2, <2>4, QuietStep
<1> QED BY <1>1, <1>2, <1>3, <1>4 DEF Walk

\* Before the first build there is nothing to count.
LEMMA SlotsInit ==
  ASSUME FinalizerInit
  PROVE  SlotsOK
BY DEF FinalizerInit, SlotsOK, CountersOK, FirstBuild, IdsAreSlots

\* In every circuit, the ids visit_op hands out in the first build are the
\* places the evaluator will count to, and the targets of an operation's inputs
\* are the slots their values will be in.
THEOREM IdsMatchSlots == FinalizerSpec => []IdsAreSlots
<1>1. CircuitInit => TypeOK /\ StackOK /\ GlobalIdsCounted /\ PostOrder /\ SlotsOK
  <2>1. CircuitInit => SlotsOK /\ GlobalIdsCounted /\ PostOrder
    BY SlotsInit DEF CircuitInit, FinalizerInit, GlobalIdsCounted, PostOrder
  <2> QED BY <2>1, FinalizerInitOK DEF CircuitInit
<1>2. TypeOK /\ StackOK /\ GlobalIdsCounted /\ PostOrder /\ SlotsOK
        /\ [BuilderCall \/ build \/ Walk]_finalizeVars
        => TypeOK' /\ StackOK' /\ GlobalIdsCounted' /\ PostOrder' /\ SlotsOK'
  BY FinalizerStepOK, PostOrderStep, SlotsStep
<1>3. SlotsOK => IdsAreSlots
  BY DEF SlotsOK
<1> QED BY <1>1, <1>2, <1>3, PTL DEF FinalizerSpec

-----------------------------------------------------------------------------
(* The list can be executed                                                *)

\* The value of a resolved node will be in its slot.
LEMMA ResolvedIsDefined ==
  ASSUME TypeOK, SlotsOK, FirstBuild, NEW q \in Pointers, Resolved(q),
         NEW vector, vector = IsVector(ops[q].op_type)
  PROVE  DefinedBefore(Len(Operations) + 1, vector, TargetOf(q))
<1>1. CASE q \in DOMAIN target_id
  <2>1. SlotOf(q)
    BY <1>1 DEF SlotsOK, IdsAreSlots, SlotOf, FirstBuild, Emitted, TypeOK
  <2>2. PICK k \in 1 .. Len(Operations) :
          Operations[k].op_type = ops[q].op_type /\ Slot(k) = target_id[q]
    BY <2>1 DEF SlotOf
  <2>3. k \in 1 .. Len(Operations) + 1 - 1
    BY LenProperties DEF Operations, TypeOK, FCircuit
  <2> QED BY <1>1, <2>2, <2>3 DEF DefinedBefore, TargetOf
<1>2. CASE q \notin DOMAIN target_id
  <2>1. ops[q].op_type \in {"INPUT", "GENERATOR_INPUT"}
    BY <1>2 DEF Resolved
  <2>2. NodeOK(q)
    BY NodeInputs DEF TypeOK
  <2>3. /\ input_target_count \in Nat /\ generator_target_count \in Nat
        /\ FirstSlot = input_target_count + generator_target_count
    BY DEF SlotsOK, CountersOK, TypeOK, HeapOK, FirstSlot
  <2>4. TargetOf(q) < FirstSlot
    BY <1>2, <2>1, <2>2, <2>3 DEF TargetOf, NodeOK
  <2>5. ~vector
    BY <2>1 DEF IsVector
  <2> QED BY <2>4, <2>5 DEF DefinedBefore
<1> QED BY <1>1, <1>2

\* So are the values of what a finished call has resolved: vectors for the call
\* that picks an element, single targets for the others.
LEMMA TopIsDefined ==
  ASSUME TypeOK, StackOK, SlotsOK, FirstBuild, stack # <<>>, Complete,
         NEW i \in 1 .. Len(Top.ids),
         NEW vector, vector = (Top.kind = "operation" /\ ops[Top.ref].op_type = "TARGET_AT")
  PROVE  DefinedBefore(Len(Operations) + 1, vector, Top.ids[i])
<1> DEFINE q == Wanted(Top)[i]
<1>1. Len(stack) \in Nat \ {0} /\ FrameOK(Len(stack)) /\ FrameTargets(Len(stack))
  BY TopIsFrame DEF SlotsOK
<1>2. Top.ids[i] = TargetOf(q)
  BY <1>1 DEF FrameTargets, Top
<1>3. Resolved(q) /\ i \in 1 .. Len(Wanted(Top))
  BY CompleteTop
<1>4. q \in Pointers /\ (Top.kind # "operation" => q \in ScalarNodes)
  BY <1>1, <1>3, WantedNodes DEF Top
<1>5. IsVector(ops[q].op_type) = vector
  <2>1. CASE Top.kind # "operation"
    BY <1>4, <2>1 DEF ScalarNodes, IsVector
  <2>2. CASE Top.kind = "operation"
    <3>1. Top.ref \in Pointers /\ Wanted(Top) = ops[Top.ref].inputs
      BY <2>2, CompleteTop DEF Wanted
    <3>2. IsVector(ops[q].op_type) <=> ops[Top.ref].op_type = "TARGET_AT"
      BY <1>3, <3>1, NodeInputs DEF TypeOK, NodeOK
    <3> QED BY <2>2, <3>2 DEF IsVector
  <2> QED BY <2>1, <2>2
<1> HIDE DEF q
<1> QED BY <1>2, <1>3, <1>4, <1>5, ResolvedIsDefined

\* What an operation appended leaves of what is defined.
LEMMA DefinedKept ==
  ASSUME TypeOK, NEW fop \in FOperation, Appended(fop), NEW n, n = Len(Operations),
         NEW k \in 1 .. n + 1, NEW vector, NEW id, DefinedBefore(k, vector, id)
  PROVE  DefinedBefore(k, vector, id)' /\ DefinedBefore(n + 2, vector, id)'
<1>1. /\ n \in Nat
      /\ \A j \in 1 .. n : Operations'[j] = Operations[j]
      /\ \A j \in 1 .. n : Slot(j)' = Slot(j)
  BY AppendedOperation
<1>2. FirstSlot' = FirstSlot
  BY DEF Appended
<1>3. CASE ~vector /\ id < FirstSlot
  BY <1>2, <1>3 DEF DefinedBefore
<1>4. CASE \E j \in 1 .. k - 1 : /\ IsVector(Operations[j].op_type) = vector
                               /\ Slot(j) = id
  <2>1. PICK j \in 1 .. k - 1 : IsVector(Operations[j].op_type) = vector /\ Slot(j) = id
    BY <1>4
  <2>2. j \in 1 .. n /\ j \in 1 .. n + 2 - 1
    BY <1>1
  <2>3. IsVector(Operations'[j].op_type) = vector /\ Slot(j)' = id
    BY <1>1, <2>1, <2>2
  <2> QED BY <2>1, <2>2, <2>3 DEF DefinedBefore
<1> QED BY <1>3, <1>4 DEF DefinedBefore

\* What FirstBuildExecutable says of the k-th operation, and of the rest of the
\* circuit.
InputsDefined(k) ==
  \A i \in DOMAIN Operations[k].target_inputs :
    DefinedBefore(k, Operations[k].op_type = "TARGET_AT", Operations[k].target_inputs[i])

Defined(id) == DefinedBefore(Len(Operations) + 1, FALSE, id)

RestDefined ==
  /\ \A a \in 1 .. Len(circuit.assertions) :
       Defined(circuit.assertions[a].left) /\ Defined(circuit.assertions[a].right)
  /\ \A o \in 1 .. Len(circuit.output_ops) : Defined(circuit.output_ops[o])
  /\ \A g \in 1 .. Len(circuit.generators) :
       \A i \in DOMAIN circuit.generators[g].target_inputs :
         Defined(circuit.generators[g].target_inputs[i])

\* FirstBuildExecutable in these terms.
LEMMA ExecutableParts ==
  FirstBuildExecutable <=>
    (builds = 1 => RestDefined /\ \A k \in 1 .. Len(Operations) : InputsDefined(k))
BY DEF FirstBuildExecutable, OperationsHaveInputs, InputsDefined, Defined, RestDefined

\* The tail of visit_op: the operation appended reads what is there.
LEMMA ExecutableAfterEmit ==
  ASSUME TypeOK, StackOK, SlotsOK, FirstBuildExecutable, emit_operation
  PROVE  FirstBuildExecutable'
<1> SUFFICES ASSUME builds' = 1
             PROVE  RestDefined' /\ \A k \in 1 .. Len(Operations') : InputsDefined(k)'
  BY DEF FirstBuildExecutable, OperationsHaveInputs, InputsDefined, Defined, RestDefined
<1>0. PICK n, p : n = Len(Operations) /\ p = Top.ref
  OBVIOUS
<1>1. PICK fop \in FOperation : /\ fop.op_type = ops[p].op_type
                              /\ fop.target_inputs = Top.ids /\ Appended(fop)
  BY <1>0, Emission
<1>2. /\ builds = 1 /\ phase = "finalizing" /\ stack # <<>> /\ Complete
      /\ Top.kind = "operation"
      /\ circuit'.generators = circuit.generators
      /\ circuit'.assertions = circuit.assertions
      /\ circuit'.output_ops = circuit.output_ops
  BY Emission DEF emit_operation
<1>3. RestDefined /\ \A k \in 1 .. n : InputsDefined(k)
  BY <1>0, <1>2, ExecutableParts
<1>4. /\ n \in Nat /\ Len(Operations') = n + 1 /\ Operations'[n + 1] = fop
      /\ \A k \in 1 .. n : Operations'[k] = Operations[k]
  BY <1>0, <1>1, AppendedOperation
<1>5. \A k \in 1 .. n + 1 : \A vector, id :
        DefinedBefore(k, vector, id)
          => DefinedBefore(k, vector, id)' /\ DefinedBefore(n + 2, vector, id)'
  BY <1>0, <1>1, DefinedKept
<1>6. RestDefined'
  <2>1. ASSUME NEW id, Defined(id)
        PROVE  Defined(id)'
    <3>1. DefinedBefore(n + 1, FALSE, id)
      BY <1>0, <2>1 DEF Defined
    <3>2. DefinedBefore(n + 2, FALSE, id)'
      <4>1. n + 1 \in 1 .. n + 1
        BY <1>4
      <4> QED BY <1>5, <3>1, <4>1
    <3>3. Len(Operations') + 1 = n + 2
      BY <1>4
    <3> QED BY <3>2, <3>3 DEF Defined
  <2> QED BY <1>2, <1>3, <2>1 DEF RestDefined
<1>7. \A k \in 1 .. n : InputsDefined(k)'
  <2> SUFFICES ASSUME NEW k \in 1 .. n
               PROVE  InputsDefined(k)'
    OBVIOUS
  <2>1. k \in 1 .. n + 1 /\ Operations'[k] = Operations[k] /\ InputsDefined(k)
    BY <1>3, <1>4
  <2> QED BY <1>5, <2>1 DEF InputsDefined
<1>8. \A k : k = n + 1 => InputsDefined(k)'
  <2> SUFFICES ASSUME NEW i \in DOMAIN fop.target_inputs, NEW k, k = n + 1
               PROVE  DefinedBefore(k, fop.op_type = "TARGET_AT", fop.target_inputs[i])'
    BY <1>4 DEF InputsDefined
  <2>1. i \in 1 .. Len(Top.ids)
    <3>1. Top.ids \in Seq(Nat)
      BY <1>2, TopIsFrame DEF StackFrame
    <3> QED BY <1>1, <3>1, LenProperties
  <2>2. FirstBuild
    BY <1>2 DEF FirstBuild
  <2>3. DefinedBefore(Len(Operations) + 1, fop.op_type = "TARGET_AT", Top.ids[i])
    BY <1>0, <1>1, <1>2, <2>1, <2>2, TopIsDefined
  <2> QED BY <1>0, <1>1, <1>4, <1>5, <2>3
<1>9. \A k \in 1 .. Len(Operations') : k \in 1 .. n \/ k = n + 1
  BY <1>4
<1> QED BY <1>6, <1>7, <1>8, <1>9

\* The end of the body of a loop of finalize: its targets are there.
LEMMA ExecutableAfterFinish ==
  ASSUME TypeOK, StackOK, SlotsOK, FirstBuildExecutable,
         finish_generator \/ finish_assertion \/ finish_output
  PROVE  FirstBuildExecutable'
<1> SUFFICES ASSUME builds' = 1
             PROVE  RestDefined' /\ \A k \in 1 .. Len(Operations') : InputsDefined(k)'
  BY DEF FirstBuildExecutable, OperationsHaveInputs, InputsDefined, Defined, RestDefined
<1>1. /\ builds = 1 /\ phase = "finalizing" /\ stack # <<>> /\ Complete
      /\ Top.kind \in {"generator", "assertion", "output"}
  BY DEF finish_generator, finish_assertion, finish_output, Walking
<1>2. Operations' = Operations /\ FirstSlot' = FirstSlot
  BY DEF finish_generator, finish_assertion, finish_output, TypeOK, FCircuit, Operations,
         FirstSlot
<1>3. \A k : Slot(k)' = Slot(k)
  BY <1>2 DEF Slot
<1>4. /\ \A k, vector, id : DefinedBefore(k, vector, id)' <=> DefinedBefore(k, vector, id)
      /\ \A id : Defined(id)' <=> Defined(id)
  BY <1>2, <1>3 DEF DefinedBefore, Defined
<1>5. RestDefined /\ \A k \in 1 .. Len(Operations) : InputsDefined(k)
  BY <1>1, ExecutableParts
<1>6. \A k \in 1 .. Len(Operations') : InputsDefined(k)'
  BY <1>2, <1>4, <1>5 DEF InputsDefined
<1>7. \A i \in 1 .. Len(Top.ids) : Defined(Top.ids[i])
  BY <1>1, TopIsDefined DEF FirstBuild, Defined
<1>8. Top.ids \in Seq(Nat) /\ Len(Top.ids) = Len(Wanted(Top))
  BY <1>1, CompleteTop DEF StackFrame
<1>9. CASE finish_generator
  <2> DEFINE new == [generator_id |-> generators[Top.ref].generator_id,
                     op_dependency_id |-> Top.op_dependency_id,
                     target_inputs |-> Top.ids,
                     constant_inputs |-> CopiedConstants(generators[Top.ref])]
  <2>1. /\ circuit'.generators = Append(circuit.generators, new)
        /\ circuit'.assertions = circuit.assertions
        /\ circuit'.output_ops = circuit.output_ops
    BY <1>9 DEF finish_generator, TypeOK, FCircuit
  <2>2. new.target_inputs = Top.ids
    OBVIOUS
  <2>3. \A i \in DOMAIN new.target_inputs : Defined(new.target_inputs[i])
    BY <1>7, <1>8, <2>2, LenProperties
  <2> HIDE DEF new
  <2>4. /\ Len(circuit'.generators) = Len(circuit.generators) + 1
        /\ Len(circuit.generators) \in Nat
        /\ \A g \in 1 .. Len(circuit.generators) :
             circuit'.generators[g] = circuit.generators[g]
        /\ circuit'.generators[Len(circuit.generators) + 1] = new
    BY <2>1, AppendProperties, LenProperties DEF TypeOK, FCircuit
  <2>5. \A g \in 1 .. Len(circuit'.generators) :
          circuit'.generators[g] = new \/ g \in 1 .. Len(circuit.generators)
    BY <2>4
  <2>6. \A g \in 1 .. Len(circuit'.generators) :
          \A i \in DOMAIN circuit'.generators[g].target_inputs :
            Defined(circuit'.generators[g].target_inputs[i])
    BY <1>5, <2>3, <2>4, <2>5 DEF RestDefined
  <2> QED BY <1>4, <1>5, <1>6, <2>1, <2>6 DEF RestDefined
<1>10. CASE finish_assertion
  <2> DEFINE new == [left |-> Top.ids[1], right |-> Top.ids[2]]
             Pair == [left : Nat, right : Nat]
  <2>1. /\ circuit'.assertions = Append(circuit.assertions, new)
        /\ circuit'.generators = circuit.generators
        /\ circuit'.output_ops = circuit.output_ops
    BY <1>10 DEF finish_assertion, TypeOK, FCircuit
  <2>2. Len(Top.ids) = 2
    BY <1>8, <1>10 DEF finish_assertion, Wanted
  <2>3. Defined(new.left) /\ Defined(new.right)
    BY <1>7, <2>2
  <2>a. Top.ids[1] \in Nat /\ Top.ids[2] \in Nat
    BY <1>8, <2>2, ElementOfSeq
  <2>b. new \in Pair
    BY <2>a
  <2>c. circuit.assertions \in Seq(Pair)
    BY DEF TypeOK, FCircuit
  <2>4. new \in Pair /\ circuit.assertions \in Seq(Pair)
    BY <2>b, <2>c
  <2> HIDE DEF new, Pair
  <2>5. /\ Len(circuit'.assertions) = Len(circuit.assertions) + 1
        /\ Len(circuit.assertions) \in Nat
        /\ \A a \in 1 .. Len(circuit.assertions) :
             circuit'.assertions[a] = circuit.assertions[a]
        /\ circuit'.assertions[Len(circuit.assertions) + 1] = new
    BY <2>1, <2>4, AppendProperties, LenProperties
  <2>6. \A a \in 1 .. Len(circuit'.assertions) :
          circuit'.assertions[a] = new \/ a \in 1 .. Len(circuit.assertions)
    BY <2>5
  <2>7. \A a \in 1 .. Len(circuit'.assertions) :
          Defined(circuit'.assertions[a].left) /\ Defined(circuit'.assertions[a].right)
    BY <1>5, <2>3, <2>5, <2>6 DEF RestDefined
  <2> QED BY <1>4, <1>5, <1>6, <2>1, <2>7 DEF RestDefined
<1>11. CASE finish_output
  <2> DEFINE new == Top.ids[1]
  <2>1. /\ circuit'.output_ops = Append(circuit.output_ops, new)
        /\ circuit'.generators = circuit.generators
        /\ circuit'.assertions = circuit.assertions
    BY <1>11 DEF finish_output, TypeOK, FCircuit
  <2>2. Len(Top.ids) = 1
    BY <1>8, <1>11 DEF finish_output, Wanted
  <2>3. Defined(new) /\ new \in Nat
    BY <1>7, <1>8, <2>2, ElementOfSeq
  <2> HIDE DEF new
  <2>4. /\ Len(circuit'.output_ops) = Len(circuit.output_ops) + 1
        /\ Len(circuit.output_ops) \in Nat
        /\ \A o \in 1 .. Len(circuit.output_ops) :
             circuit'.output_ops[o] = circuit.output_ops[o]
        /\ circuit'.output_ops[Len(circuit.output_ops) + 1] = new
    BY <2>1, <2>3, AppendProperties, LenProperties DEF TypeOK, FCircuit
  <2>5. \A o \in 1 .. Len(circuit'.output_ops) : Defined(circuit'.output_ops[o])
    BY <1>5, <2>3, <2>4 DEF RestDefined
  <2> QED BY <1>4, <1>5, <1>6, <2>1, <2>5 DEF RestDefined
<1> QED BY <1>9, <1>10, <1>11

\* Every step keeps the list executable.
LEMMA ExecutableStep ==
  ASSUME TypeOK, StackOK, GlobalIdsCounted, SlotsOK, FirstBuildExecutable,
         [BuilderCall \/ build \/ Walk]_finalizeVars
  PROVE  FirstBuildExecutable'
<1>1. CASE emit_operation
  BY <1>1, ExecutableAfterEmit
<1>2. CASE finish_generator \/ finish_assertion \/ finish_output
  BY <1>2, ExecutableAfterFinish
<1>3. CASE build
  <2>1. circuit' = EmptyCircuit(input_target_count, generator_target_count)
    BY <1>3 DEF build
  <2>2. /\ Operations' = <<>> /\ circuit'.assertions = <<>>
        /\ circuit'.output_ops = <<>> /\ circuit'.generators = <<>>
    BY <2>1 DEF EmptyCircuit, Operations
  <2> QED BY <2>2 DEF FirstBuildExecutable, OperationsHaveInputs
<1>4. CASE UNCHANGED <<circuit, builds>>
  <2>1. Operations' = Operations /\ FirstSlot' = FirstSlot
    BY <1>4 DEF Operations, FirstSlot
  <2>2. \A k : Slot(k)' = Slot(k)
    BY <2>1 DEF Slot
  <2>3. \A k, vector, id : DefinedBefore(k, vector, id)' <=> DefinedBefore(k, vector, id)
    BY <2>1, <2>2 DEF DefinedBefore
  <2> QED BY <1>4, <2>1, <2>3 DEF FirstBuildExecutable, OperationsHaveInputs
<1>5. \/ emit_operation \/ finish_generator \/ finish_assertion \/ finish_output \/ build
      \/ UNCHANGED <<circuit, builds>>
  BY DEF BuilderCall, Walk, Walking, visit_generator, visit_assertion, visit_output,
         visit_op, return_target, finish_build, finalizeVars, finalizerVars
<1> QED BY <1>1, <1>2, <1>3, <1>4, <1>5

\* In every circuit, the list of the first build can be executed in one pass: an
\* operation reads slots written before it, and assertions, outputs and
\* generators read slots the circuit writes.
THEOREM ExecutableInOnePass == FinalizerSpec => []FirstBuildExecutable
<1>1. CircuitInit => /\ TypeOK /\ StackOK /\ GlobalIdsCounted /\ PostOrder /\ SlotsOK
                     /\ FirstBuildExecutable
  <2>1. CircuitInit => SlotsOK /\ GlobalIdsCounted /\ PostOrder /\ FirstBuildExecutable
    BY SlotsInit DEF CircuitInit, FinalizerInit, GlobalIdsCounted, PostOrder,
                     FirstBuildExecutable
  <2> QED BY <2>1, FinalizerInitOK DEF CircuitInit
<1>2. TypeOK /\ StackOK /\ GlobalIdsCounted /\ PostOrder /\ SlotsOK
        /\ FirstBuildExecutable /\ [BuilderCall \/ build \/ Walk]_finalizeVars
        => /\ TypeOK' /\ StackOK' /\ GlobalIdsCounted' /\ PostOrder' /\ SlotsOK'
           /\ FirstBuildExecutable'
  BY FinalizerStepOK, PostOrderStep, SlotsStep, ExecutableStep
<1> QED BY <1>1, <1>2, PTL DEF FinalizerSpec

-----------------------------------------------------------------------------
(* What is needed                                                          *)
(*                                                                         *)
(* Every call on the stack of visit_op was made by the one below it, for   *)
(* the input it resolves next; so an operation that is appended is wanted  *)
(* by a loop of finalize, which was given a root, or by an operation that  *)
(* will be appended after it.                                              *)

\* The k-th call was made for what the call below it resolves next.
Linked(k) ==
  /\ Len(stack[k - 1].ids) < Len(Wanted(stack[k - 1]))
  /\ stack[k].ref = Wanted(stack[k - 1])[Len(stack[k - 1].ids) + 1]

Chain == \A k \in 2 .. Len(stack) : Linked(k)

\* The loops of finalize take their elements in order, and have resolved what
\* those before the current one want.
LoopsInOrder ==
  /\ \A g \in 1 .. Len(circuit.generators) :
       \A i \in DOMAIN generators[g].inputs : Resolved(generators[g].inputs[i])
  /\ \A a \in 1 .. Len(circuit.assertions) :
       Resolved(assertions[a].left) /\ Resolved(assertions[a].right)
  /\ \A o \in 1 .. Len(circuit.output_ops) : Resolved(output_ops[o])
  /\ stack # <<>> =>
       /\ stack[1].kind = "generator" => stack[1].ref = Len(circuit.generators) + 1
       /\ stack[1].kind = "assertion" => stack[1].ref = Len(circuit.assertions) + 1
       /\ stack[1].kind = "output" => stack[1].ref = Len(circuit.output_ops) + 1
  /\ phase = "built" =>
       /\ Len(circuit.generators) = Len(generators)
       /\ Len(circuit.assertions) = Len(assertions)
       /\ Len(circuit.output_ops) = Len(output_ops)

IsInput(p, q) == \E i \in DOMAIN ops[q].inputs : ops[q].inputs[i] = p

\* An emitted node is a root, or an input of a node that is emitted or being
\* visited.
Needed(p) ==
  \/ p \in Roots
  \/ \E q \in Emitted : IsInput(p, q)
  \/ \E k \in 2 .. Len(stack) : IsInput(p, stack[k].ref)

NeedsOK ==
  /\ Chain
  /\ FirstBuild => LoopsInOrder /\ \A p \in Emitted : Needed(p)

-----------------------------------------------------------------------------
(* The links of the stack                                                  *)

\* A call and the one that made it stay as they are.
LEMMA LinkKept ==
  ASSUME UNCHANGED builderVars, NEW k, Linked(k),
         stack'[k - 1] = stack[k - 1], stack'[k].ref = stack[k].ref
  PROVE  Linked(k)'
<1>1. \A frame : frame = stack[k - 1] => Wanted(frame)' = Wanted(frame)
  BY DEF Wanted, builderVars
<1>2. Wanted(stack[k - 1])' = Wanted(stack[k - 1])
  BY DEF Wanted, builderVars
<1> QED BY <1>2 DEF Linked

\* What a step of the walk does to the stack: a loop of finalize starts, a call
\* is made, its result is returned to a caller, or the call on top ends.
LEMMA StackMoves ==
  ASSUME TypeOK, StackOK, Walk
  PROVE  /\ UNCHANGED <<builderVars, builds>>
         /\ \/ UNCHANGED stack
            \/ /\ stack = <<>> /\ Len(stack') = 1
               /\ stack'[1].kind \in {"generator", "assertion", "output"}
            \/ /\ visit_op /\ Len(stack') = Len(stack) + 1 /\ Len(stack) \in Nat \ {0}
               /\ \A k \in 1 .. Len(stack) : stack'[k] = stack[k]
               /\ stack'[Len(stack) + 1].ref = Child
            \/ /\ return_target /\ Len(stack') = Len(stack) /\ Len(stack) \in Nat \ {0}
               /\ \A k \in 1 .. Len(stack) - 1 : stack'[k] = stack[k]
               /\ stack'[Len(stack)].ref = Top.ref /\ stack'[Len(stack)].kind = Top.kind
            \/ /\ Pop /\ Len(stack') = Len(stack) - 1 /\ Len(stack) \in Nat \ {0}
               /\ emit_operation \/ (stack # <<>> /\ Top.kind # "operation")
               /\ \A k \in 1 .. Len(stack) - 1 : stack'[k] = stack[k]
<1>1. UNCHANGED <<builderVars, builds>>
  BY DEF Walk, Walking, visit_generator, visit_assertion, visit_output, visit_op,
         return_target, emit_operation, finish_generator, finish_assertion, finish_output,
         finish_build
<1>2. CASE visit_generator \/ visit_assertion \/ visit_output
  <2>1. PICK ref \in Nat, kind \in {"generator", "assertion", "output"} :
          stack = <<>> /\ Push(Frame(kind, ref))
    <3>1. /\ Len(circuit.generators) + 1 \in Nat
          /\ Len(circuit.assertions) + 1 \in Nat
          /\ Len(circuit.output_ops) + 1 \in Nat
      BY LenProperties DEF TypeOK, FCircuit
    <3>2. CASE visit_generator
      BY <3>1, <3>2 DEF visit_generator
    <3>3. CASE visit_assertion
      BY <3>1, <3>3 DEF visit_assertion
    <3>4. CASE visit_output
      BY <3>1, <3>4 DEF visit_output
    <3> QED BY <1>2, <3>2, <3>3, <3>4
  <2>2. Frame(kind, ref) \in StackFrame /\ Frame(kind, ref).kind = kind
    BY NewFrame
  <2> HIDE DEF Frame
  <2>3. /\ Len(stack') = Len(stack) + 1
        /\ stack'[Len(stack) + 1] = Frame(kind, ref)
    BY <2>1, <2>2, Pushed
  <2>4. Len(stack) = 0
    BY <2>1
  <2>5. Len(stack') = 1 /\ stack'[1] = Frame(kind, ref)
    BY <2>3, <2>4
  <2> QED BY <1>1, <2>1, <2>2, <2>5
<1>3. CASE visit_op
  <2>1. stack # <<>> /\ ~Complete /\ Push(Frame("operation", Child))
    BY <1>3 DEF visit_op
  <2>2. Child \in Nat
    BY <2>1, ChildIsNode
  <2>3. /\ Frame("operation", Child) \in StackFrame
        /\ Frame("operation", Child).ref = Child
    BY <2>2, NewFrame
  <2> HIDE DEF Frame
  <2>4. Len(stack) \in Nat \ {0}
    BY <2>1, TopIsFrame
  <2> QED BY <1>1, <1>3, <2>1, <2>3, <2>4, Pushed
<1>4. CASE return_target
  <2>1. PICK n, ids : /\ n = Len(stack) /\ stack # <<>>
                      /\ stack' = [stack EXCEPT ![n] = [stack[n] EXCEPT !.ids = ids]]
    BY <1>4 DEF return_target
  <2>2. n \in Nat \ {0} /\ stack[n] \in StackFrame /\ Top = stack[n]
    BY <2>1, TopIsFrame DEF Top
  <2>3. stack \in Seq(StackFrame) /\ DOMAIN stack = 1 .. n
    BY <2>1, LenProperties DEF TypeOK
  <2>4. DOMAIN stack' = 1 .. n /\ n \in 1 .. n
    BY <2>1, <2>2, <2>3
  <2>5. /\ \A k \in 1 .. n - 1 : stack'[k] = stack[k]
        /\ stack'[n].ref = stack[n].ref /\ stack'[n].kind = stack[n].kind
    BY <2>1, <2>2, <2>3 DEF StackFrame
  <2>6. Len(stack') = n
    <3>1. stack' \in Seq(StackFrame)
      BY <1>4, ReturnTargetOK DEF TypeOK
    <3> QED BY <2>2, <2>4, <3>1, LenProperties
  <2> QED BY <1>1, <1>4, <2>1, <2>2, <2>5, <2>6
<1>5. CASE emit_operation \/ finish_generator \/ finish_assertion \/ finish_output
  <2>1. stack # <<>> /\ Pop /\ (emit_operation \/ Top.kind # "operation")
    BY <1>5 DEF emit_operation, finish_generator, finish_assertion, finish_output
  <2>2. /\ Len(stack') = Len(stack) - 1 /\ Len(stack) \in Nat \ {0}
        /\ \A k \in 1 .. Len(stack) - 1 : stack'[k] = stack[k]
    BY <2>1, Popped
  <2> QED BY <1>1, <2>1, <2>2
<1>6. CASE finish_build
  BY <1>1, <1>6 DEF finish_build, finalizerVars
<1> QED BY <1>2, <1>3, <1>4, <1>5, <1>6 DEF Walk

\* Every step of the walk keeps the links.
LEMMA ChainStep ==
  ASSUME TypeOK, StackOK, Chain, Walk
  PROVE  Chain'
<1>1. UNCHANGED builderVars
  BY StackMoves
<1>2. ASSUME NEW k \in 2 .. Len(stack), stack'[k - 1] = stack[k - 1],
             stack'[k].ref = stack[k].ref
      PROVE  Linked(k)'
  BY <1>1, <1>2, LinkKept DEF Chain
<1>3. CASE UNCHANGED stack
  BY <1>2, <1>3 DEF Chain
<1>4. CASE Len(stack') = 1
  BY <1>4 DEF Chain
<1>5. CASE /\ visit_op /\ Len(stack') = Len(stack) + 1 /\ Len(stack) \in Nat \ {0}
           /\ \A k \in 1 .. Len(stack) : stack'[k] = stack[k]
           /\ stack'[Len(stack) + 1].ref = Child
  <2>1. PICK n \in Nat \ {0} : n = Len(stack)
    BY <1>5
  <2>2. /\ Len(Top.ids) < Len(Wanted(Top)) /\ Top = stack[n] /\ stack'[n] = Top
        /\ stack'[n + 1].ref = Wanted(Top)[Len(Top.ids) + 1]
    <3>1. stack # <<>> /\ ~Complete
      BY <1>5 DEF visit_op
    <3>2. Len(Top.ids) + 1 \in 1 .. Len(Wanted(Top)) /\ Len(Top.ids) \in Nat
      BY <3>1, ChildIsNode
    <3>3. Len(Wanted(Top)) \in Int
      <4>1. FrameOK(Len(stack))
        BY <3>1, TopIsFrame
      <4>2. Wanted(Top) \in Seq(Nat)
        BY <1>5, <4>1, WantedNodes DEF Top
      <4> QED BY <4>2, LenProperties
    <3>4. Len(Top.ids) < Len(Wanted(Top))
      BY <3>2, <3>3
    <3> QED BY <1>5, <2>1, <3>4 DEF Child, Top
  <2>3. \A frame : frame = Top => Wanted(frame)' = Wanted(frame)
    BY <1>1 DEF Wanted, builderVars
  <2>4. \A k : k = n + 1 => Linked(k)'
    <3>1. \A k : k = n + 1 => stack'[k - 1] = Top
      BY <2>1, <2>2
    <3>2. \A k : k = n + 1 => stack'[k].ref = Wanted(Top)[Len(Top.ids) + 1]
      BY <2>2
    <3>3. \A k : k = n + 1 => Wanted(stack[k - 1])' = Wanted(Top)
      BY <1>1, <3>1 DEF Wanted, builderVars
    <3> QED BY <2>2, <3>1, <3>2, <3>3 DEF Linked
  <2>5. ASSUME NEW k \in 2 .. n
        PROVE  Linked(k)'
    <3>1. k - 1 \in 1 .. n /\ k \in 1 .. n
      BY <2>1
    <3> QED BY <1>2, <1>5, <2>1, <3>1
  <2>6. \A k \in 2 .. Len(stack') : k \in 2 .. n \/ k = n + 1
    BY <1>5, <2>1
  <2> QED BY <2>4, <2>5, <2>6 DEF Chain
<1>6. CASE /\ return_target /\ Len(stack') = Len(stack) /\ Len(stack) \in Nat \ {0}
           /\ \A k \in 1 .. Len(stack) - 1 : stack'[k] = stack[k]
           /\ stack'[Len(stack)].ref = Top.ref
  <2>1. ASSUME NEW k \in 2 .. Len(stack)
        PROVE  stack'[k - 1] = stack[k - 1] /\ stack'[k].ref = stack[k].ref
    <3>1. k - 1 \in 1 .. Len(stack) - 1
      BY <1>6
    <3>2. k = Len(stack) \/ k \in 1 .. Len(stack) - 1
      BY <1>6
    <3> QED BY <1>6, <3>1, <3>2 DEF Top
  <2> QED BY <1>2, <1>6, <2>1 DEF Chain
<1>7. CASE /\ Len(stack') = Len(stack) - 1 /\ Len(stack) \in Nat \ {0}
           /\ \A k \in 1 .. Len(stack) - 1 : stack'[k] = stack[k]
  <2>1. \A k \in 2 .. Len(stack') :
          /\ k \in 2 .. Len(stack)
          /\ stack'[k - 1] = stack[k - 1] /\ stack'[k].ref = stack[k].ref
    BY <1>7
  <2> QED BY <1>2, <2>1 DEF Chain
<1> QED BY <1>3, <1>4, <1>5, <1>6, <1>7, StackMoves

-----------------------------------------------------------------------------
(* Nothing dead                                                            *)

\* What the author asks for are roots.
LEMMA RootKinds ==
  /\ \A g \in 1 .. Len(generators) : \A i \in DOMAIN generators[g].inputs :
       generators[g].inputs[i] \in Roots
  /\ \A a \in 1 .. Len(assertions) :
       assertions[a].left \in Roots /\ assertions[a].right \in Roots
  /\ \A o \in 1 .. Len(output_ops) : output_ops[o] \in Roots
  /\ \A p \in Roots :
       \/ \E g \in 1 .. Len(generators) : \E i \in DOMAIN generators[g].inputs :
            p = generators[g].inputs[i]
       \/ \E a \in 1 .. Len(assertions) : p = assertions[a].left \/ p = assertions[a].right
       \/ \E o \in 1 .. Len(output_ops) : p = output_ops[o]
<1> DEFINE Inputs == UNION {{generators[g].inputs[i] : i \in DOMAIN generators[g].inputs} :
                              g \in 1 .. Len(generators)}
           Left == {assertions[a].left : a \in 1 .. Len(assertions)}
           Right == {assertions[a].right : a \in 1 .. Len(assertions)}
           Outputs == {output_ops[o] : o \in 1 .. Len(output_ops)}
<1>1. Roots = Inputs \cup Left \cup Right \cup Outputs
  BY DEF Roots
<1>2. \A p : p \in Inputs <=>
         \E g \in 1 .. Len(generators) : \E i \in DOMAIN generators[g].inputs :
           p = generators[g].inputs[i]
  OBVIOUS
<1>3. /\ \A p : p \in Left <=> \E a \in 1 .. Len(assertions) : p = assertions[a].left
      /\ \A p : p \in Right <=> \E a \in 1 .. Len(assertions) : p = assertions[a].right
      /\ \A p : p \in Outputs <=> \E o \in 1 .. Len(output_ops) : p = output_ops[o]
  OBVIOUS
<1> HIDE DEF Inputs, Left, Right, Outputs
<1> QED BY <1>1, <1>2, <1>3

\* The loops of finalize want the roots.
LEMMA LoopsWantRoots ==
  ASSUME TypeOK, NEW k \in 1 .. Len(stack), FrameOK(k), stack[k].kind # "operation",
         NEW i \in 1 .. Len(Wanted(stack[k]))
  PROVE  Wanted(stack[k])[i] \in Roots
<1>1. stack[k] \in StackFrame
  BY ElementOfSeq DEF TypeOK
<1>2. CASE stack[k].kind = "generator"
  <2>1. PICK g \in 1 .. Len(generators) : Wanted(stack[k]) = generators[g].inputs
    BY <1>2 DEF FrameOK, Wanted
  <2>2. generators[g] \in GeneratorDefinition
    BY ElementOfSeq DEF TypeOK, HeapOK, RootsOK
  <2>3. i \in DOMAIN generators[g].inputs
    BY <2>1, <2>2, LenProperties DEF GeneratorDefinition
  <2>4. generators[g].inputs[i] \in {generators[g].inputs[j] : j \in DOMAIN generators[g].inputs}
    BY <2>3
  <2>5. generators[g].inputs[i] \in Roots
    BY <2>4, RootKinds
  <2> QED BY <2>1, <2>5
<1>3. CASE stack[k].kind = "assertion"
  <2>1. PICK a \in 1 .. Len(assertions) :
          Wanted(stack[k]) = <<assertions[a].left, assertions[a].right>>
    BY <1>3 DEF FrameOK, Wanted
  <2>2. i = 1 \/ i = 2
    BY <2>1
  <2>3. assertions[a].left \in Roots /\ assertions[a].right \in Roots
    BY RootKinds
  <2> QED BY <2>1, <2>2, <2>3
<1>4. CASE stack[k].kind = "output"
  <2>1. PICK o \in 1 .. Len(output_ops) : Wanted(stack[k]) = <<output_ops[o]>>
    BY <1>4 DEF FrameOK, Wanted
  <2>2. i = 1
    BY <2>1
  <2>3. output_ops[o] \in Roots
    BY RootKinds
  <2> QED BY <2>1, <2>2, <2>3
<1> QED BY <1>1, <1>2, <1>3, <1>4 DEF StackFrame

\* A visited node is a root or an input of the node visited below it.
LEMMA TopIsNeeded ==
  ASSUME TypeOK, StackOK, Chain, stack # <<>>, Top.kind = "operation"
  PROVE  \/ Top.ref \in Roots
         \/ \E k \in 2 .. Len(stack) - 1 : IsInput(Top.ref, stack[k].ref)
<1>1. PICK n \in Nat \ {0, 1} : n = Len(stack)
  BY TopIsFrame DEF FrameOK, Top
<1>2. Linked(n) /\ Top = stack[n] /\ FrameOK(n - 1) /\ n - 1 \in 1 .. Len(stack)
  BY <1>1 DEF Chain, StackOK, Top
<1> DEFINE caller == stack[n - 1]
           i == Len(caller.ids) + 1
<1>3. Top.ref = Wanted(caller)[i] /\ Len(caller.ids) < Len(Wanted(caller))
  BY <1>2 DEF Linked
<1>4. i \in 1 .. Len(Wanted(caller))
  <2>1. caller \in StackFrame
    BY <1>2, ElementOfSeq DEF TypeOK
  <2>2. Wanted(caller) \in Seq(Nat)
    BY <1>2, WantedNodes
  <2>3. Len(caller.ids) \in Nat /\ Len(Wanted(caller)) \in Nat
    BY <2>1, <2>2, LenProperties DEF StackFrame
  <2> QED BY <1>3, <2>3
<1>5. CASE caller.kind # "operation"
  BY <1>2, <1>3, <1>4, <1>5, LoopsWantRoots
<1>6. CASE caller.kind = "operation"
  <2>1. n - 1 \in 2 .. Len(stack) - 1 /\ caller.ref \in Pointers
    BY <1>1, <1>2, <1>6 DEF FrameOK
  <2>2. Wanted(caller) = ops[caller.ref].inputs
    BY <1>6 DEF Wanted
  <2>3. i \in DOMAIN ops[caller.ref].inputs
    BY <1>4, <2>1, <2>2, NodeInputs DEF TypeOK
  <2>4. IsInput(Top.ref, caller.ref)
    BY <1>3, <2>2, <2>3 DEF IsInput
  <2> QED BY <2>1, <2>4
<1> QED BY <1>5, <1>6

\* Every step of the walk keeps the emitted nodes needed, and what it emits is.
LEMMA NeededStep ==
  ASSUME TypeOK, StackOK, Chain, Walk, \A p \in Emitted : Needed(p)
  PROVE  \A p \in Emitted' : Needed(p)'
<1>1. /\ UNCHANGED <<ops, generators, assertions, output_ops>>
      /\ Roots' = Roots
  <2>1. UNCHANGED builderVars
    BY StackMoves
  <2> QED BY <2>1 DEF Roots, builderVars
<1>2. \A p, q : IsInput(p, q)' <=> IsInput(p, q)
  BY <1>1 DEF IsInput
<1>3. CASE emit_operation
  <2>1. PICK r, n : r = Top.ref /\ n = Len(stack)
    OBVIOUS
  <2>2. /\ stack # <<>> /\ Top.kind = "operation" /\ Pop /\ Top = stack[n]
        /\ global_target_id' = SetId(global_target_id, r, total_op_count)
    BY <1>3, <2>1, Emission DEF Top
  <2>3. Emitted' = Emitted \cup {r}
    BY <2>2 DEF Emitted, SetId
  <2>4. /\ n \in Nat \ {0} /\ Len(stack') = n - 1
        /\ \A k \in 1 .. n - 1 : stack'[k] = stack[k]
    BY <2>1, <2>2, Popped
  <2>5. ASSUME NEW p, NEW k \in 2 .. n - 1, IsInput(p, stack[k].ref)
        PROVE  Needed(p)'
    <3>1. k \in 2 .. Len(stack') /\ stack'[k] = stack[k]
      BY <2>4
    <3> QED BY <1>2, <2>5, <3>1 DEF Needed
  <2>6. ASSUME NEW p \in Emitted
        PROVE  Needed(p)'
    <3>1. CASE p \in Roots
      BY <1>1, <3>1 DEF Needed
    <3>2. CASE \E q \in Emitted : IsInput(p, q)
      BY <1>2, <2>3, <3>2 DEF Needed
    <3>3. CASE \E k \in 2 .. n : IsInput(p, stack[k].ref)
      <4>1. PICK k \in 2 .. n : IsInput(p, stack[k].ref)
        BY <3>3
      <4>2. CASE k = n
        BY <1>2, <2>1, <2>2, <2>3, <4>1, <4>2 DEF Needed
      <4>3. CASE k # n
        BY <2>4, <2>5, <4>1, <4>3
      <4> QED BY <4>2, <4>3
    <3> QED BY <2>1, <3>1, <3>2, <3>3 DEF Needed
  <2>7. Needed(r)'
    BY <1>1, <2>1, <2>2, <2>5, TopIsNeeded DEF Needed
  <2> QED BY <2>3, <2>6, <2>7
<1>4. CASE ~emit_operation
  <2>1. Emitted' = Emitted
    BY <1>4 DEF Walk, visit_generator, visit_assertion, visit_output, visit_op,
                return_target, finish_generator, finish_assertion, finish_output,
                finish_build, finalizerVars, Emitted
  <2>2. ASSUME NEW k \in 2 .. Len(stack)
        PROVE  k \in 2 .. Len(stack') /\ stack'[k].ref = stack[k].ref
    <3>1. Len(stack) \in Nat
      BY LenProperties DEF TypeOK
    <3>2. CASE stack = <<>>
      BY <3>2
    <3>3. CASE stack # <<>> /\ Top.kind # "operation"
      <4>1. Len(stack) <= 1
        BY <3>1, <3>3, TopIsFrame DEF FrameOK, Top
      <4> QED BY <4>1
    <3>4. CASE UNCHANGED stack
      BY <3>4
    <3>5. CASE /\ Len(stack') = Len(stack) + 1
               /\ \A j \in 1 .. Len(stack) : stack'[j] = stack[j]
      BY <3>1, <3>5
    <3>6. CASE /\ Len(stack') = Len(stack)
               /\ \A j \in 1 .. Len(stack) - 1 : stack'[j] = stack[j]
               /\ stack'[Len(stack)].ref = Top.ref
      BY <3>1, <3>6 DEF Top
    <3> QED BY <1>4, <3>2, <3>3, <3>4, <3>5, <3>6, StackMoves
  <2> QED BY <1>1, <1>2, <2>1, <2>2 DEF Needed
<1> QED BY <1>3, <1>4

-----------------------------------------------------------------------------
(* Nothing missing                                                         *)

\* What is resolved stays resolved during a walk.
LEMMA ResolvedStays ==
  ASSUME TypeOK, StackOK, Walk
  PROVE  \A q : Resolved(q) => Resolved(q)'
<1>1. UNCHANGED ops
  <2>1. UNCHANGED builderVars
    BY StackMoves
  <2> QED BY <2>1 DEF builderVars
<1>2. CASE emit_operation
  <2>1. PICK p, id : target_id' = SetId(target_id, p, id)
    BY <1>2 DEF emit_operation
  <2> QED BY <1>1, <2>1 DEF SetId, Resolved
<1>3. CASE UNCHANGED target_id
  BY <1>1, <1>3 DEF Resolved
<1>4. emit_operation \/ UNCHANGED target_id
  BY DEF Walk, visit_generator, visit_assertion, visit_output, visit_op, return_target,
         finish_generator, finish_assertion, finish_output, finish_build, finalizerVars
<1> QED BY <1>2, <1>3, <1>4

\* A loop's element is resolved when the loop ends its body.
LEMMA LoopsAfterFinish ==
  ASSUME TypeOK, StackOK, LoopsInOrder,
         finish_generator \/ finish_assertion \/ finish_output
  PROVE  LoopsInOrder'
<1>1. /\ stack # <<>> /\ Complete /\ Top.kind # "operation" /\ Pop
      /\ UNCHANGED <<builderVars, target_id, phase>> /\ phase = "finalizing"
  BY DEF finish_generator, finish_assertion, finish_output, Walking
<1>2. UNCHANGED <<ops, generators, assertions, output_ops>>
  BY <1>1 DEF builderVars
<1>3. \A q : Resolved(q)' <=> Resolved(q)
  BY <1>1, <1>2 DEF Resolved
<1>4. Len(stack) = 1 /\ stack[1] = Top /\ Len(stack') = 0
  <2>1. Len(stack) = 1
    <3>1. PICK n \in Nat \ {0} : n = Len(stack) /\ FrameOK(n)
      BY <1>1, TopIsFrame
    <3>2. ~(n > 1)
      BY <1>1, <3>1 DEF FrameOK, Top
    <3>3. n = 1
      BY <3>2
    <3> QED BY <3>1, <3>3
  <2> QED BY <1>1, <2>1, Popped DEF Top
<1>5. stack' = <<>>
  BY <1>1, <1>4, Popped, EmptySeq
<1>6. \A i \in 1 .. Len(Wanted(Top)) : Resolved(Wanted(Top)[i])
  BY <1>1, CompleteTop
<1>7. CASE finish_generator
  <2>1. PICK new \in FGenerator : circuit' = [circuit EXCEPT !.generators = Append(@, new)]
    <3>1. PICK new : circuit' = [circuit EXCEPT !.generators = Append(@, new)]
      BY <1>7 DEF finish_generator
    <3>2. circuit'.generators = Append(circuit.generators, new)
      BY <3>1 DEF TypeOK, FCircuit
    <3>3. circuit'.generators \in Seq(FGenerator) /\ circuit.generators \in Seq(FGenerator)
      BY <1>7, FinishOK DEF TypeOK, FCircuit
    <3>4. Append(circuit.generators, new)[Len(circuit.generators) + 1] \in FGenerator
      <4>1. Len(circuit.generators) + 1 \in 1 .. Len(Append(circuit.generators, new))
        BY <3>2, <3>3, LenProperties
      <4> QED BY <3>2, <3>3, <4>1, ElementOfSeq
    <3> QED BY <3>1, <3>3, <3>4
  <2>2. /\ Len(circuit'.generators) = Len(circuit.generators) + 1
        /\ Len(circuit.generators) \in Nat
        /\ circuit'.assertions = circuit.assertions
        /\ circuit'.output_ops = circuit.output_ops
    BY <2>1, AppendProperties, LenProperties DEF TypeOK, FCircuit
  <2>3. Top.kind = "generator" /\ Top.ref = Len(circuit.generators) + 1
    BY <1>1, <1>4, <1>7 DEF finish_generator, LoopsInOrder
  <2>4. \A i \in DOMAIN generators[Top.ref].inputs : Resolved(generators[Top.ref].inputs[i])
    <3>1. generators[Top.ref] \in GeneratorDefinition
      BY <1>1, <2>3, CompleteTop, ElementOfSeq DEF TypeOK, HeapOK, RootsOK
    <3>2. DOMAIN generators[Top.ref].inputs = 1 .. Len(Wanted(Top))
      BY <2>3, <3>1, LenProperties DEF GeneratorDefinition, Wanted
    <3> QED BY <1>6, <2>3, <3>2 DEF Wanted
  <2>5. \A g \in 1 .. Len(circuit'.generators) : g \in 1 .. Len(circuit.generators) \/ g = Top.ref
    BY <2>2, <2>3
  <2>6. \A g \in 1 .. Len(circuit'.generators) :
          \A i \in DOMAIN generators[g].inputs : Resolved(generators[g].inputs[i])
    BY <2>4, <2>5 DEF LoopsInOrder
  <2> QED BY <1>1, <1>2, <1>3, <1>5, <2>2, <2>6 DEF LoopsInOrder
<1>8. CASE finish_assertion
  <2> DEFINE Pair == [left : Nat, right : Nat]
  <2>1. PICK new : circuit' = [circuit EXCEPT !.assertions = Append(@, new)]
    BY <1>8 DEF finish_assertion
  <2>2. /\ Len(circuit'.assertions) = Len(circuit.assertions) + 1
        /\ Len(circuit.assertions) \in Nat
        /\ circuit'.generators = circuit.generators
        /\ circuit'.output_ops = circuit.output_ops
    <3>1. circuit.assertions \in Seq(Pair)
      BY DEF TypeOK, FCircuit
    <3> HIDE DEF Pair
    <3> QED BY <2>1, <3>1, LenProperties DEF TypeOK, FCircuit
  <2>3. Top.kind = "assertion" /\ Top.ref = Len(circuit.assertions) + 1
    BY <1>1, <1>4, <1>8 DEF finish_assertion, LoopsInOrder
  <2>4. Resolved(assertions[Top.ref].left) /\ Resolved(assertions[Top.ref].right)
    <3> DEFINE left == assertions[Top.ref].left
               right == assertions[Top.ref].right
    <3>1. Wanted(Top) = <<left, right>>
      BY <2>3 DEF Wanted
    <3> HIDE DEF left, right
    <3>2. Resolved(left) /\ Resolved(right)
      BY <1>6, <3>1
    <3> QED BY <3>2 DEF left, right
  <2>5. \A a \in 1 .. Len(circuit'.assertions) : a \in 1 .. Len(circuit.assertions) \/ a = Top.ref
    BY <2>2, <2>3
  <2>6. \A a \in 1 .. Len(circuit'.assertions) :
          Resolved(assertions[a].left) /\ Resolved(assertions[a].right)
    BY <2>4, <2>5 DEF LoopsInOrder
  <2> QED BY <1>1, <1>2, <1>3, <1>5, <2>2, <2>6 DEF LoopsInOrder
<1>9. CASE finish_output
  <2>1. PICK new : circuit' = [circuit EXCEPT !.output_ops = Append(@, new)]
    BY <1>9 DEF finish_output
  <2>2. /\ Len(circuit'.output_ops) = Len(circuit.output_ops) + 1
        /\ Len(circuit.output_ops) \in Nat
        /\ circuit'.generators = circuit.generators
        /\ circuit'.assertions = circuit.assertions
    BY <2>1, LenProperties DEF TypeOK, FCircuit
  <2>3. Top.kind = "output" /\ Top.ref = Len(circuit.output_ops) + 1
    BY <1>1, <1>4, <1>9 DEF finish_output, LoopsInOrder
  <2>4. Resolved(output_ops[Top.ref])
    <3> DEFINE p == output_ops[Top.ref]
    <3>1. Wanted(Top) = <<p>>
      BY <2>3 DEF Wanted
    <3> HIDE DEF p
    <3>2. Resolved(p)
      BY <1>6, <3>1
    <3> QED BY <3>2 DEF p
  <2>5. \A o \in 1 .. Len(circuit'.output_ops) : o \in 1 .. Len(circuit.output_ops) \/ o = Top.ref
    BY <2>2, <2>3
  <2>6. \A o \in 1 .. Len(circuit'.output_ops) : Resolved(output_ops[o])
    BY <2>4, <2>5 DEF LoopsInOrder
  <2> QED BY <1>1, <1>2, <1>3, <1>5, <2>2, <2>6 DEF LoopsInOrder
<1> QED BY <1>7, <1>8, <1>9

\* The other steps of the walk: the loops start in order, and go on until they
\* have gone through all.
LEMMA LoopsStep ==
  ASSUME TypeOK, StackOK, LoopsInOrder, Walk
  PROVE  LoopsInOrder'
<1>1. /\ UNCHANGED <<generators, assertions, output_ops>>
      /\ \A q : Resolved(q) => Resolved(q)'
  <2>1. UNCHANGED builderVars
    BY StackMoves
  <2> QED BY <2>1, ResolvedStays DEF builderVars
<1>2. CASE finish_generator \/ finish_assertion \/ finish_output
  BY <1>2, LoopsAfterFinish
<1>3. CASE ~(finish_generator \/ finish_assertion \/ finish_output)
  <2>1. /\ circuit'.generators = circuit.generators
        /\ circuit'.assertions = circuit.assertions
        /\ circuit'.output_ops = circuit.output_ops
    <3>1. CASE emit_operation
      BY <3>1, Emission
    <3>2. CASE UNCHANGED circuit
      BY <3>2
    <3> QED BY <1>3, <3>1, <3>2 DEF Walk, visit_generator, visit_assertion, visit_output,
                visit_op, return_target, finish_build, finalizerVars
  <2>2. /\ \A g \in 1 .. Len(circuit'.generators) :
             \A i \in DOMAIN generators'[g].inputs : Resolved(generators[g].inputs[i])'
        /\ \A a \in 1 .. Len(circuit'.assertions) :
             Resolved(assertions[a].left)' /\ Resolved(assertions[a].right)'
        /\ \A o \in 1 .. Len(circuit'.output_ops) : Resolved(output_ops[o])'
    <3>1. /\ \A p, g, i : p = generators[g].inputs[i] => p = generators'[g].inputs[i]
          /\ \A p, a : p = assertions[a].left => p = assertions'[a].left
          /\ \A p, a : p = assertions[a].right => p = assertions'[a].right
          /\ \A p, o : p = output_ops[o] => p = output_ops'[o]
      BY <1>1
    <3> QED BY <1>1, <2>1, <3>1 DEF LoopsInOrder, Resolved, TargetOf
  <2>3. stack' # <<>> =>
          /\ stack'[1].kind = "generator" => stack'[1].ref = Len(circuit'.generators) + 1
          /\ stack'[1].kind = "assertion" => stack'[1].ref = Len(circuit'.assertions) + 1
          /\ stack'[1].kind = "output" => stack'[1].ref = Len(circuit'.output_ops) + 1
    <3>1. CASE visit_generator \/ visit_assertion \/ visit_output
      <4>1. PICK kind \in {"generator", "assertion", "output"}, ref \in Nat :
              /\ stack = <<>> /\ Push(Frame(kind, ref))
              /\ kind = "generator" => ref = Len(circuit.generators) + 1
              /\ kind = "assertion" => ref = Len(circuit.assertions) + 1
              /\ kind = "output" => ref = Len(circuit.output_ops) + 1
        <5>1. /\ Len(circuit.generators) + 1 \in Nat
              /\ Len(circuit.assertions) + 1 \in Nat
              /\ Len(circuit.output_ops) + 1 \in Nat
          BY LenProperties DEF TypeOK, FCircuit
        <5>2. CASE visit_generator
          BY <5>1, <5>2 DEF visit_generator
        <5>3. CASE visit_assertion
          BY <5>1, <5>3 DEF visit_assertion
        <5>4. CASE visit_output
          BY <5>1, <5>4 DEF visit_output
        <5> QED BY <3>1, <5>2, <5>3, <5>4
      <4>2. /\ Frame(kind, ref) \in StackFrame
            /\ Frame(kind, ref).kind = kind /\ Frame(kind, ref).ref = ref
        BY NewFrame
      <4> HIDE DEF Frame
      <4>3. stack'[Len(stack) + 1] = Frame(kind, ref) /\ Len(stack) = 0
        BY <4>1, <4>2, Pushed
      <4>4. stack'[1] = Frame(kind, ref)
        BY <4>3
      <4> QED BY <2>1, <4>1, <4>2, <4>4
    <3>2. CASE stack # <<>> /\ stack'[1].kind = stack[1].kind /\ stack'[1].ref = stack[1].ref
      BY <2>1, <3>2 DEF LoopsInOrder
    <3>3. CASE UNCHANGED stack
      BY <2>1, <3>3 DEF LoopsInOrder
    <3>4. CASE visit_op \/ return_target \/ emit_operation
      <4>1. stack # <<>> /\ Len(stack) \in Nat \ {0}
        BY <3>4, TopIsFrame DEF visit_op, return_target, emit_operation
      <4>2. CASE visit_op
        <5>1. PICK frame \in StackFrame : Push(frame)
          <6>1. Child \in Nat
            BY <4>2, ChildIsNode DEF visit_op
          <6> QED BY <4>2, <6>1, NewFrame DEF visit_op
        <5>2. stack'[1] = stack[1]
          BY <4>1, <5>1, Pushed
        <5> QED BY <3>2, <4>1, <5>2
      <4>3. CASE return_target
        <5>1. PICK n, ids : /\ n = Len(stack)
                            /\ stack' = [stack EXCEPT ![n] = [stack[n] EXCEPT !.ids = ids]]
          BY <4>3 DEF return_target
        <5>2. stack \in Seq(StackFrame) /\ 1 \in DOMAIN stack /\ stack[1] \in StackFrame
          BY <4>1, LenProperties, ElementOfSeq DEF TypeOK
        <5>3. stack'[1].kind = stack[1].kind /\ stack'[1].ref = stack[1].ref
          BY <5>1, <5>2 DEF StackFrame
        <5> QED BY <3>2, <4>1, <5>3
      <4>4. CASE emit_operation
        <5>1. Pop /\ Top.kind = "operation"
          BY <4>4 DEF emit_operation
        <5>2. Len(stack) > 1
          BY <4>1, <5>1, TopIsFrame DEF FrameOK, Top
        <5>3. stack'[1] = stack[1]
          BY <4>1, <5>1, <5>2, Popped
        <5> QED BY <3>2, <4>1, <5>3
      <4> QED BY <3>4, <4>2, <4>3, <4>4
    <3> QED BY <1>3, <3>1, <3>3, <3>4 DEF Walk, finish_build, finalizerVars
  <2>4. phase' = "built" =>
          /\ Len(circuit'.generators) = Len(generators')
          /\ Len(circuit'.assertions) = Len(assertions')
          /\ Len(circuit'.output_ops) = Len(output_ops')
    <3>1. CASE finish_build
      BY <1>1, <2>1, <3>1 DEF finish_build
    <3>2. CASE ~finish_build
      BY <1>3, <3>2 DEF Walk, Walking, visit_generator, visit_assertion, visit_output,
                visit_op, return_target, emit_operation
    <3> QED BY <3>1, <3>2
  <2> QED BY <2>2, <2>3, <2>4 DEF LoopsInOrder
<1> QED BY <1>2, <1>3

-----------------------------------------------------------------------------
(* The invariant holds                                                     *)

\* Every step keeps NeedsOK.
LEMMA NeedsStep ==
  ASSUME TypeOK, StackOK, GlobalIdsCounted, NeedsOK,
         [BuilderCall \/ build \/ Walk]_finalizeVars
  PROVE  NeedsOK'
<1>1. CASE BuilderCall
  <2>1. stack = <<>> /\ stack' = <<>> /\ phase' = "building"
    BY <1>1 DEF BuilderCall, StackOK, finalizerVars
  <2> QED BY <2>1 DEF NeedsOK, Chain, FirstBuild
<1>2. CASE build
  <2>1. /\ stack = <<>> /\ stack' = <<>> /\ phase' = "finalizing" /\ builds' = builds + 1
        /\ circuit' = EmptyCircuit(input_target_count, generator_target_count)
        /\ UNCHANGED global_target_id /\ builds \in Nat
    BY <1>2 DEF build, StackOK, TypeOK
  <2>2. builds' = 1 => Emitted' = {}
    BY <2>1 DEF GlobalIdsCounted, Emitted, TypeOK
  <2>3. circuit'.generators = <<>> /\ circuit'.assertions = <<>> /\ circuit'.output_ops = <<>>
    BY <2>1 DEF EmptyCircuit
  <2>4. LoopsInOrder'
    BY <2>1, <2>3 DEF LoopsInOrder
  <2> QED BY <2>1, <2>2, <2>4 DEF NeedsOK, Chain, FirstBuild
<1>3. CASE Walk
  <2>1. Chain'
    BY <1>3, ChainStep DEF NeedsOK
  <2>2. FirstBuild' => FirstBuild
    BY <1>3, StackMoves DEF FirstBuild, Walk, Walking, visit_generator, visit_assertion,
       visit_output, visit_op, return_target, emit_operation, finish_generator,
       finish_assertion, finish_output, finish_build
  <2> QED BY <1>3, <2>1, <2>2, LoopsStep, NeededStep DEF NeedsOK
<1>4. CASE UNCHANGED finalizeVars
  <2>1. UNCHANGED <<ops, generators, assertions, output_ops, phase, builds, target_id,
                    global_target_id, circuit, stack>>
    BY <1>4 DEF finalizeVars, builderVars, finalizerVars
  <2>2. Chain'
    BY <2>1 DEF NeedsOK, Chain, Linked, Wanted
  <2>3. \A q : Resolved(q)' <=> Resolved(q)
    BY <2>1 DEF Resolved
  <2>4. LoopsInOrder => LoopsInOrder'
    BY <2>1, <2>3 DEF LoopsInOrder
  <2>5. Roots' = Roots
    BY <2>1 DEF Roots
  <2>6. \A p : Needed(p)' <=> Needed(p)
    BY <2>1, <2>5 DEF Needed, Emitted, IsInput
  <2> QED BY <2>1, <2>2, <2>4, <2>6 DEF NeedsOK, FirstBuild, Emitted
<1> QED BY <1>1, <1>2, <1>3, <1>4

\* Where the first build has ended, everything is there and nothing is dead.
LEMMA NeedsAtEnd ==
  ASSUME TypeOK, StackOK, PostOrder, NeedsOK
  PROVE  NothingMissingNothingDead
<1> SUFFICES ASSUME builds = 1, phase = "built"
             PROVE  /\ \A p \in Roots : Resolved(p)
                    /\ \A p \in Emitted : \A i \in DOMAIN ops[p].inputs :
                         Resolved(ops[p].inputs[i])
                    /\ \A p \in Emitted \ Roots :
                         \E q \in Emitted : \E i \in DOMAIN ops[q].inputs : ops[q].inputs[i] = p
  BY DEF NothingMissingNothingDead
<1>1. stack = <<>> /\ LoopsInOrder /\ \A p \in Emitted : Needed(p)
  BY DEF StackOK, NeedsOK, FirstBuild
<1>2. \A p \in Roots : Resolved(p)
  BY <1>1, RootKinds DEF LoopsInOrder
<1>3. \A p \in Emitted : \A i \in DOMAIN ops[p].inputs : Resolved(ops[p].inputs[i])
  BY DEF PostOrder
<1>4. ASSUME NEW p \in Emitted, p \notin Roots
      PROVE  \E q \in Emitted : IsInput(p, q)
  BY <1>1, <1>4 DEF Needed
<1> QED BY <1>2, <1>3, <1>4 DEF IsInput

\* In every circuit, a finished first build holds what the generators, the
\* assertions and the outputs need, and no operation that none of them does.
THEOREM BuildIsComplete == FinalizerSpec => []NothingMissingNothingDead
<1>1. CircuitInit => TypeOK /\ StackOK /\ GlobalIdsCounted /\ PostOrder /\ NeedsOK
  <2>1. CircuitInit => GlobalIdsCounted /\ PostOrder /\ NeedsOK
    BY DEF CircuitInit, FinalizerInit, GlobalIdsCounted, PostOrder, NeedsOK, Chain, FirstBuild
  <2> QED BY <2>1, FinalizerInitOK DEF CircuitInit
<1>2. TypeOK /\ StackOK /\ GlobalIdsCounted /\ PostOrder /\ NeedsOK
        /\ [BuilderCall \/ build \/ Walk]_finalizeVars
        => TypeOK' /\ StackOK' /\ GlobalIdsCounted' /\ PostOrder' /\ NeedsOK'
  BY FinalizerStepOK, PostOrderStep, NeedsStep
<1>3. TypeOK /\ StackOK /\ PostOrder /\ NeedsOK => NothingMissingNothingDead
  BY NeedsAtEnd
<1> QED BY <1>1, <1>2, <1>3, PTL DEF FinalizerSpec

-----------------------------------------------------------------------------
(* The outputs of generators                                               *)

-----------------------------------------------------------------------------
(* The builder's side                                                      *)

\* No target of a generator is taken outside a generator.
NoStrayInputs == MaxStrayInputs = 0

\* The outputs of the first g generators.
Outputs(g) == IF g = 0 THEN 0 ELSE EndOfOutputs(g)

InRow ==
  /\ \A g \in 1 .. Len(generators) :
       /\ generators[g].num_outputs \in GeneratorBits
       /\ generators[g].start_generator_output_index = Outputs(g - 1)
  /\ generator_target_count = Outputs(Len(generators))

IsOutput(p, index) ==
  ops[p].op_type = "GENERATOR_INPUT" /\ ops[p].constants[1] = index

OutputFrom(p, index) ==
  ops[p].op_type = "GENERATOR_INPUT" /\ ops[p].constants[1] >= index

\* Every output has a node.
OutputsHaveNodes ==
  \A index \in 0 .. generator_target_count - 1 : \E p \in Pointers : IsOutput(p, index)

\* A generator's argument is older than its outputs, and than those of later
\* generators.
ArgumentsOlder ==
  \A g \in 1 .. Len(generators), p \in Pointers :
    OutputFrom(p, generators[g].start_generator_output_index) =>
      generators[g].inputs[1] < p

\* The assertion that the first output of a generator is a bit.
BitCheck(a, g) ==
  /\ assertions[a].left \in Pointers
  /\ ops[assertions[a].left].op_type = "MUL"
  /\ IsOutput(ops[assertions[a].left].inputs[1], Outputs(g - 1))

\* No assertion up to it refers to a node as new as the outputs of later ones.
CheckedFirst(a, g) ==
  /\ BitCheck(a, g)
  /\ \A b \in 1 .. a, p \in Pointers :
       OutputFrom(p, Outputs(g)) => assertions[b].left < p /\ assertions[b].right < p

OutputsChecked ==
  \A g \in 1 .. Len(generators) : \E a \in 1 .. Len(assertions) : CheckedFirst(a, g)

\* The constants in the heap are the author's and those of the bit sums.
Coefficients ==
  Literals \cup {0, 1} \cup UNION {{2 ^ i : i \in 1 .. bits - 1} : bits \in GeneratorBits}

ConstantsOK ==
  \A p \in Pointers : ops[p].op_type = "CONSTANT" => ops[p].constants[1] \in Coefficients

GeneratorsOK ==
  InRow /\ OutputsHaveNodes /\ ArgumentsOlder /\ OutputsChecked

-----------------------------------------------------------------------------

\* The types of what InRow is about.
LEMMA OutputsAreNat ==
  ASSUME HeapOK
  PROVE  /\ Len(generators) \in Nat /\ generator_target_count \in Nat
         /\ \A g \in 1 .. Len(generators) :
              /\ generators[g] \in GeneratorDefinition
              /\ generators[g].num_outputs \in Nat
              /\ generators[g].start_generator_output_index \in Nat
              /\ EndOfOutputs(g) \in Nat /\ Outputs(g) = EndOfOutputs(g)
         /\ \A g \in 0 .. Len(generators) : Outputs(g) \in Nat
<1>1. generators \in Seq(GeneratorDefinition) /\ Len(generators) \in Nat
  BY LenProperties DEF HeapOK, RootsOK
<1>2. \A g \in 1 .. Len(generators) : generators[g] \in GeneratorDefinition
  BY <1>1, ElementOfSeq
<1>3. \A g \in 1 .. Len(generators) :
        /\ generators[g].num_outputs \in Nat
        /\ generators[g].start_generator_output_index \in Nat
  BY <1>2 DEF GeneratorDefinition
<1> QED BY <1>1, <1>2, <1>3 DEF EndOfOutputs, Outputs, HeapOK

\* The assertions.
LEMMA AssertionsAre ==
  ASSUME HeapOK
  PROVE  /\ Len(assertions) \in Nat /\ Len(ops) \in Nat
         /\ \A a \in 1 .. Len(assertions) :
              /\ assertions[a].left \in Pointers /\ assertions[a].right \in Pointers
              /\ assertions[a].left \in Nat /\ assertions[a].right \in Nat
<1>1. Len(assertions) \in Nat /\ Len(ops) \in Nat
  BY LenProperties DEF HeapOK, RootsOK, NodesOK
<1>2. \A p \in ScalarNodes : p \in Pointers /\ p \in Nat
  BY <1>1, ScalarsAreNodes DEF Pointers
<1> QED BY <1>1, <1>2 DEF HeapOK, RootsOK

\* Assertions are added to those there are.
AssertionsGrow ==
  /\ Len(assertions) <= Len(assertions')
  /\ \A a \in 1 .. Len(assertions) : assertions'[a] = assertions[a]

\* The nodes a call allocates.
Fresh == {p \in Pointers' : p \notin Pointers}

\* A call that has nothing to do with generators.
PlainCall ==
  /\ HeapGrows /\ AssertionsGrow
  /\ \A p \in Fresh :
       /\ ops'[p].op_type # "GENERATOR_INPUT"
       /\ ops'[p].op_type = "CONSTANT" => ops'[p].constants[1] \in Literals
  /\ UNCHANGED <<generators, generator_target_count>>

\* Calls that allocate nodes and leave the rest.
LEMMA PlainAllocation ==
  ASSUME HeapOK, HeapGrows, NEW nodes \in Seq(Node), ops' = ops \o nodes,
         UNCHANGED <<assertions, generators, generator_target_count>>,
         \A k \in 1 .. Len(nodes) :
           /\ nodes[k].op_type # "GENERATOR_INPUT"
           /\ nodes[k].op_type = "CONSTANT" => nodes[k].constants[1] \in Literals
  PROVE  PlainCall
<1>1. /\ Len(ops') = Len(ops) + Len(nodes)
      /\ \A p \in 1 .. Len(ops) + Len(nodes) :
           ops'[p] = IF p <= Len(ops) THEN ops[p] ELSE nodes[p - Len(ops)]
      /\ Len(ops) \in Nat /\ Len(nodes) \in Nat
  BY ConcatProperties, LenProperties DEF HeapOK, NodesOK
<1>2. ASSUME NEW p \in Fresh
      PROVE  /\ ops'[p].op_type # "GENERATOR_INPUT"
             /\ ops'[p].op_type = "CONSTANT" => ops'[p].constants[1] \in Literals
  <2>1. /\ p \in 1 .. Len(ops) + Len(nodes) /\ ~(p <= Len(ops))
        /\ p - Len(ops) \in 1 .. Len(nodes)
    BY <1>1 DEF Fresh, Pointers
  <2> QED BY <1>1, <2>1
<1>3. AssertionsGrow
  BY AssertionsAre DEF AssertionsGrow
<1> QED BY <1>2, <1>3 DEF PlainCall

\* Every call of the author's is one of these three kinds.
LEMMA CallKinds ==
  ASSUME HeapOK, BuilderNext
  PROVE  \/ PlainCall
         \/ add_generator_input
         \/ \E arg \in ScalarNodes, bits \in GeneratorBits :
              GeneratorArg(ops[arg].op_type) /\ new_generator(arg, bits)
<1>0. HeapGrows /\ Len(ops) \in Nat
  BY BuilderCallOK, LenProperties DEF HeapOK, NodesOK
<1>1. ASSUME NEW node \in Node, node.op_type # "GENERATOR_INPUT",
             node.op_type = "CONSTANT" => node.constants[1] \in Literals,
             Insert(<<node>>), UNCHANGED <<assertions, generators, generator_target_count>>
      PROVE  PlainCall
  <2>1. /\ <<node>> \in Seq(Node) /\ Len(<<node>>) = 1 /\ <<node>>[1] = node
        /\ ops' = ops \o <<node>>
    BY <1>1 DEF Insert
  <2>2. \A k \in 1 .. Len(<<node>>) : <<node>>[k] = node
    BY <2>1
  <2> QED BY <1>0, <1>1, <2>1, <2>2, PlainAllocation
<1>2. CASE add_input
  <2> DEFINE node == ACInputOp(input_target_count)
  <2>1. /\ Insert(<<node>>) /\ UNCHANGED <<assertions, generators, generator_target_count>>
        /\ input_target_count \in Nat
    BY <1>2 DEF add_input, HeapOK
  <2>2. node \in Node /\ node.op_type = "INPUT"
    BY <1>0, <2>1, LeafPlaced DEF Placed, ACInputOp, Operation
  <2> HIDE DEF node
  <2> QED BY <1>1, <2>1, <2>2
<1>3. CASE constant
  <2>1. PICK c \in Literals : Allocate(<<ACConstantOp(c)>>)
    BY <1>3 DEF constant
  <2> DEFINE node == ACConstantOp(c)
  <2>2. /\ node \in Node /\ node.op_type = "CONSTANT" /\ node.constants[1] = c
    BY <1>0, LeafPlaced DEF Placed, ACConstantOp, Operation, ConstantWords
  <2>3. Insert(<<node>>) /\ UNCHANGED <<assertions, generators, generator_target_count>>
    BY <2>1 DEF Allocate
  <2> HIDE DEF node
  <2> QED BY <1>1, <2>2, <2>3
<1>4. CASE negate
  <2>1. PICK p \in ScalarNodes : Allocate(<<UnaryOperation("NEG", p)>>)
    BY <1>4 DEF negate
  <2> DEFINE node == UnaryOperation("NEG", p)
  <2>2. node \in Node
    BY <1>0, ScalarsAreNodes, OperationPlaced DEF Pointers, Placed
  <2>3. node.op_type = "NEG"
    BY DEF UnaryOperation, Operation
  <2>4. Insert(<<node>>) /\ UNCHANGED <<assertions, generators, generator_target_count>>
    BY <2>1 DEF Allocate
  <2> HIDE DEF node
  <2> QED BY <1>1, <2>2, <2>3, <2>4
<1>5. CASE binary
  <2>1. PICK type \in BinaryOps, left \in ScalarNodes, right \in ScalarNodes :
          Allocate(<<BinaryOperation(type, left, right)>>)
    BY <1>5 DEF binary
  <2> DEFINE node == BinaryOperation(type, left, right)
  <2>2. node \in Node
    BY <1>0, ScalarsAreNodes, OperationPlaced DEF Pointers, Placed
  <2>3. node.op_type \notin {"GENERATOR_INPUT", "CONSTANT"}
    BY DEF BinaryOperation, Operation, BinaryOps
  <2>4. Insert(<<node>>) /\ UNCHANGED <<assertions, generators, generator_target_count>>
    BY <2>1 DEF Allocate
  <2> HIDE DEF node
  <2> QED BY <1>1, <2>2, <2>3, <2>4
<1>6. CASE hash_no_pad
  <2>1. PICK n \in HashArities : \E in \in [1 .. n -> ScalarNodes] :
          Allocate(<<VectorInputOperation("POSEIDON_HASH", in)>>
                     \o [i \in 1 .. HASH_SIZE |-> TargetAtOperation(Len(ops) + 1, i - 1)])
    BY <1>6 DEF hash_no_pad
  <2>2. PICK in \in [1 .. n -> ScalarNodes] :
          Allocate(<<VectorInputOperation("POSEIDON_HASH", in)>>
                     \o [i \in 1 .. HASH_SIZE |-> TargetAtOperation(Len(ops) + 1, i - 1)])
    BY <2>1
  <2> DEFINE hash == VectorInputOperation("POSEIDON_HASH", in)
             A == <<hash>>
             B == [i \in 1 .. HASH_SIZE |-> TargetAtOperation(Len(ops) + 1, i - 1)]
             nodes == A \o B
  <2>3. nodes \in Seq(Node)
    <3>1. n \in Nat
      BY AuthorAssumption
    <3> QED BY <1>0, <3>1, HashNodes DEF NewNodes, HeapOK
  <2>4. \A k \in 1 .. Len(nodes) : nodes[k].op_type \notin {"GENERATOR_INPUT", "CONSTANT"}
    <3>1. hash.op_type = "POSEIDON_HASH"
      BY DEF VectorInputOperation, Operation
    <3>2. /\ DOMAIN B = 1 .. HASH_SIZE /\ HASH_SIZE = 4
          /\ \A i \in 1 .. HASH_SIZE : B[i].op_type = "TARGET_AT"
      BY DEF TargetAtOperation, Operation, HASH_SIZE
    <3> DEFINE T == {hash} \cup {B[i] : i \in 1 .. 4}
    <3>3. A \in Seq(T) /\ Len(A) = 1 /\ A[1] = hash
      OBVIOUS
    <3>4. B \in [1 .. 4 -> T]
      BY <3>2
    <3>5. B \in Seq(T) /\ Len(B) = 4
      BY <3>4, SeqDef DEF HASH_SIZE
    <3> HIDE DEF A, B, T, hash
    <3>6. /\ Len(A \o B) = Len(A) + Len(B)
          /\ \A k \in 1 .. Len(A) + Len(B) :
               (A \o B)[k] = IF k <= Len(A) THEN A[k] ELSE B[k - Len(A)]
      BY <3>3, <3>5, ConcatProperties
    <3>7. /\ Len(nodes) = 5
          /\ \A k \in 1 .. 5 : nodes[k] = IF k <= 1 THEN A[k] ELSE B[k - 1]
      BY <3>3, <3>5, <3>6
    <3>8. ASSUME NEW k \in 1 .. 5
          PROVE  nodes[k].op_type \in {"POSEIDON_HASH", "TARGET_AT"}
      <4>1. CASE k = 1
        BY <3>1, <3>3, <3>7, <4>1
      <4>2. CASE k # 1
        <5>1. k - 1 \in 1 .. HASH_SIZE /\ ~(k <= 1)
          BY <3>2, <4>2
        <5> QED BY <3>2, <3>7, <5>1
      <4> QED BY <4>1, <4>2
    <3> HIDE DEF nodes
    <3> QED BY <3>7, <3>8
  <2>5. ops' = ops \o nodes /\ UNCHANGED <<assertions, generators, generator_target_count>>
    BY <2>2 DEF Allocate, Insert
  <2> HIDE DEF nodes
  <2> QED BY <1>0, <2>3, <2>4, <2>5, PlainAllocation
<1>7. ASSUME UNCHANGED <<ops, generators, generator_target_count>>, AssertionsGrow
      PROVE  PlainCall
  BY <1>0, <1>7 DEF PlainCall, Fresh, Pointers
<1>8. CASE add_generator \/ \E p \in ScalarNodes : register_output(p)
  <2>1. UNCHANGED <<ops, assertions, generators, generator_target_count>>
    BY <1>8 DEF add_generator, register_output
  <2> QED BY <1>7, <2>1, AssertionsAre DEF AssertionsGrow
<1>9. CASE \E left, right \in ScalarNodes : connect(left, right)
  <2>1. PICK pair : /\ assertions' = Append(assertions, pair)
                    /\ pair \in [left : Nat, right : Nat]
                    /\ UNCHANGED <<ops, generators, generator_target_count>>
    BY <1>9 DEF connect, ScalarNodes
  <2>2. /\ Len(assertions') = Len(assertions) + 1
        /\ \A a \in 1 .. Len(assertions) : assertions'[a] = assertions[a]
    BY <2>1, AppendProperties DEF HeapOK, RootsOK
  <2> QED BY <1>7, <2>1, <2>2, AssertionsAre DEF AssertionsGrow
<1> QED
  BY <1>2, <1>3, <1>4, <1>5, <1>6, <1>8, <1>9 DEF BuilderNext

\* What constrain allocates for the outputs of the generator.
LEMMA ConstrainContents ==
  ASSUME NodesOK, NEW bits \in GeneratorBits, generator_target_count \in Nat,
         NEW nodes, nodes = constrain(Len(ops), bits)
  PROVE  /\ nodes \in Seq(Node) /\ Len(nodes) = 6 * bits - 1
         /\ \A i \in 0 .. bits - 1 : nodes[3 + 3 * i] = ACGeneratorInputOp(generator_target_count + i)
         /\ nodes[5] = BinaryOperation("MUL", Len(ops) + 3, Len(ops) + 4)
         /\ \A k \in 1 .. Len(nodes) :
              /\ nodes[k].op_type = "CONSTANT" => nodes[k].constants[1] \in Coefficients
              /\ nodes[k].op_type = "GENERATOR_INPUT" =>
                   nodes[k].constants[1] < generator_target_count + bits
<1> DEFINE base == Len(ops)
           A == <<ACConstantOp(1), ACConstantOp(0)>>
           B == [j \in 1 .. 3 * bits |->
                   ConstrainBit(base, (j - 1) \div 3)[((j - 1) % 3) + 1]]
           C == [j \in 1 .. 3 * (bits - 1) |->
                   AccumulateBit(base, bits, ((j - 1) \div 3) + 1)[((j - 1) % 3) + 1]]
<1>1. bits \in Nat \ {0} /\ 3 * bits \in Nat /\ 3 * (bits - 1) \in Nat
  BY AuthorAssumption
<1>2. base \in Nat
  BY LenProperties DEF NodesOK
<1>3. /\ nodes \in Seq(Node) /\ Len(nodes) = 2 + 3 * bits + 3 * (bits - 1)
      /\ \A k \in 1 .. Len(nodes) : SumNode(nodes[k], base, generator_target_count + bits)
  BY ConstrainNodes DEF NewNodes
<1>4. nodes = (A \o B) \o C
  BY DEF constrain
<1>5. \A j \in 1 .. 3 * bits :
        /\ B[j] \in Node /\ B[j].op_type # "CONSTANT"
  <2> SUFFICES ASSUME NEW j \in 1 .. 3 * bits
               PROVE  B[j] \in Node /\ B[j].op_type # "CONSTANT"
    OBVIOUS
  <2>1. B[j] \in Node
    BY <1>1, <1>2, BitNodes DEF Placed
  <2>2. (j - 1) % 3 \in 0 .. 2
    BY <1>1
  <2>3. \A t : /\ ConstrainBit(base, t)[1].op_type = "GENERATOR_INPUT"
               /\ ConstrainBit(base, t)[2].op_type = "SUB"
               /\ ConstrainBit(base, t)[3].op_type = "MUL"
    BY DEF ConstrainBit, ACGeneratorInputOp, BinaryOperation, Operation
  <2>4. ((j - 1) % 3) + 1 \in {1, 2, 3}
    BY <2>2
  <2> QED BY <2>1, <2>3, <2>4
<1>6. \A j \in 1 .. 3 * (bits - 1) :
        C[j] \in Node /\ (C[j].op_type = "CONSTANT" => C[j].constants[1] \in Coefficients)
  <2> SUFFICES ASSUME NEW j \in 1 .. 3 * (bits - 1)
               PROVE  /\ C[j] \in Node
                      /\ C[j].op_type = "CONSTANT" => C[j].constants[1] \in Coefficients
    OBVIOUS
  <2>1. C[j] \in Node
    BY <1>1, <1>2, SumNodes DEF Placed
  <2> DEFINE t == ((j - 1) \div 3) + 1
             m == (j - 1) % 3
  <2>2. t \in 1 .. bits - 1 /\ m \in 0 .. 2 /\ m + 1 \in {1, 2, 3}
    BY <1>1
  <2>3. C[j] = AccumulateBit(base, bits, t)[m + 1]
    OBVIOUS
  <2> HIDE DEF t, m, C
  <2>4. /\ AccumulateBit(base, bits, t)[1].op_type = "CONSTANT"
        /\ AccumulateBit(base, bits, t)[1].constants = <<2 ^ t>>
        /\ AccumulateBit(base, bits, t)[2].op_type = "MUL"
        /\ AccumulateBit(base, bits, t)[3].op_type = "ADD"
    BY DEF AccumulateBit, ACConstantOp, BinaryOperation, Operation
  <2>5. 2 ^ t \in Coefficients
    BY <2>2 DEF Coefficients
  <2> QED BY <2>1, <2>2, <2>3, <2>4, <2>5
<1>7. /\ A \in Seq(Node) /\ Len(A) = 2
      /\ A[1] = ACConstantOp(1) /\ A[2] = ACConstantOp(0)
  <2>1. ACConstantOp(1) \in Node /\ ACConstantOp(0) \in Node
    BY <1>2, LeafPlaced DEF Placed, ConstantWords
  <2> QED BY <2>1
<1>8. B \in Seq(Node) /\ Len(B) = 3 * bits
  <2>1. B \in [1 .. 3 * bits -> Node]
    BY <1>5
  <2> QED BY <2>1, <1>1, SeqDef
<1>9. C \in Seq(Node) /\ Len(C) = 3 * (bits - 1)
  <2>1. C \in [1 .. 3 * (bits - 1) -> Node]
    BY <1>6
  <2> QED BY <2>1, <1>1, SeqDef
<1>10. /\ \A i \in 0 .. bits - 1 : B[3 * i + 1] = ACGeneratorInputOp(generator_target_count + i)
       /\ B[3] = BinaryOperation("MUL", base + 3, base + 4)
  <2>1. ASSUME NEW i \in 0 .. bits - 1
        PROVE  B[3 * i + 1] = ACGeneratorInputOp(generator_target_count + i)
    <3>1. 3 * i + 1 \in 1 .. 3 * bits /\ (3 * i) \div 3 = i /\ (3 * i) % 3 = 0 /\ 3 * i + 1 - 1 = 3 * i
      BY <1>1
    <3>2. B[3 * i + 1] = ConstrainBit(base, i)[1]
      BY <3>1
    <3> QED BY <3>2 DEF ConstrainBit
  <2>2. B[3] = BinaryOperation("MUL", base + 3, base + 4)
    <3>1. 3 \in 1 .. 3 * bits /\ (3 - 1) \div 3 = 0 /\ (3 - 1) % 3 = 2
      BY <1>1
    <3>2. B[3] = ConstrainBit(base, 0)[3]
      BY <3>1
    <3>3. BitInput(base, 0) = base + 3 /\ BitInput(base, 0) + 1 = base + 4
      BY <1>2 DEF BitInput
    <3> QED BY <3>2, <3>3 DEF ConstrainBit
  <2> QED BY <2>1, <2>2
<1> HIDE DEF A, B, C, base
<1>11. /\ A \o B \in Seq(Node) /\ Len(A \o B) = 2 + 3 * bits
       /\ \A k \in 1 .. 2 + 3 * bits : (A \o B)[k] = IF k <= 2 THEN A[k] ELSE B[k - 2]
  <2>1. /\ A \o B \in Seq(Node) /\ Len(A \o B) = Len(A) + Len(B)
        /\ \A k \in 1 .. Len(A) + Len(B) :
             (A \o B)[k] = IF k <= Len(A) THEN A[k] ELSE B[k - Len(A)]
    BY <1>7, <1>8, ConcatProperties
  <2> QED BY <2>1, <1>7, <1>8
<1>12. \A k \in 1 .. Len(nodes) :
         nodes[k] = IF k <= 2 + 3 * bits THEN (A \o B)[k] ELSE C[k - (2 + 3 * bits)]
  <2> DEFINE D == A \o B
  <2>1. D \in Seq(Node) /\ Len(D) = 2 + 3 * bits /\ nodes = D \o C
    BY <1>4, <1>11
  <2> HIDE DEF D
  <2>2. \A k \in 1 .. Len(D) + Len(C) :
          (D \o C)[k] = IF k <= Len(D) THEN D[k] ELSE C[k - Len(D)]
    BY <2>1, <1>9, ConcatProperties
  <2> QED BY <2>1, <2>2, <1>3, <1>9 DEF D
<1>13. ASSUME NEW k \in 1 .. Len(nodes)
       PROVE  nodes[k].op_type = "CONSTANT" => nodes[k].constants[1] \in Coefficients
  <2>1. CASE k = 1 \/ k = 2
    <3>1. k \in 1 .. 2 + 3 * bits /\ k <= 2 /\ k <= 2 + 3 * bits
      BY <1>1, <2>1
    <3>2. nodes[k] = A[k]
      BY <3>1, <1>11, <1>12
    <3>3. nodes[k] = ACConstantOp(1) \/ nodes[k] = ACConstantOp(0)
      BY <3>2, <2>1, <1>7
    <3>4. nodes[k].constants = <<1>> \/ nodes[k].constants = <<0>>
      BY <3>3 DEF ACConstantOp, Operation
    <3> QED BY <3>4 DEF Coefficients
  <2>2. CASE k \in 3 .. 2 + 3 * bits
    <3>1. k \in 1 .. 2 + 3 * bits /\ ~(k <= 2) /\ k <= 2 + 3 * bits /\ k - 2 \in 1 .. 3 * bits
      BY <1>1, <2>2
    <3>2. nodes[k] = B[k - 2]
      BY <3>1, <1>11, <1>12
    <3> QED BY <3>1, <3>2, <1>5
  <2>3. CASE k \in 3 + 3 * bits .. Len(nodes)
    <3>1. ~(k <= 2 + 3 * bits) /\ k - (2 + 3 * bits) \in 1 .. 3 * (bits - 1)
      BY <1>1, <1>3, <2>3
    <3>2. nodes[k] = C[k - (2 + 3 * bits)]
      BY <3>1, <1>12
    <3> QED BY <3>1, <3>2, <1>6
  <2> QED BY <1>1, <1>3, <2>1, <2>2, <2>3
<1>14. ASSUME NEW i \in 0 .. bits - 1
       PROVE  nodes[3 + 3 * i] = ACGeneratorInputOp(generator_target_count + i)
  <2>1. /\ 3 + 3 * i \in 1 .. 2 + 3 * bits /\ 3 + 3 * i \in 1 .. Len(nodes)
        /\ ~(3 + 3 * i <= 2) /\ 3 + 3 * i <= 2 + 3 * bits
        /\ 3 + 3 * i - 2 = 3 * i + 1
    BY <1>1, <1>3
  <2>2. PICK k : k = 3 + 3 * i
    OBVIOUS
  <2>3. nodes[k] = (A \o B)[k]
    BY <2>1, <2>2, <1>12
  <2>4. (A \o B)[k] = B[k - 2]
    BY <2>1, <2>2, <1>11
  <2> QED BY <2>1, <2>2, <2>3, <2>4, <1>10
<1>15. nodes[5] = BinaryOperation("MUL", base + 3, base + 4)
  <2>1. /\ 5 \in 1 .. 2 + 3 * bits /\ 5 \in 1 .. Len(nodes)
        /\ ~(5 <= 2) /\ 5 <= 2 + 3 * bits /\ 5 - 2 = 3
    BY <1>1, <1>3
  <2>2. nodes[5] = (A \o B)[5]
    BY <2>1, <1>12
  <2>3. (A \o B)[5] = B[5 - 2]
    BY <2>1, <1>11
  <2> QED BY <2>1, <2>2, <2>3, <1>10
<1>16. Len(nodes) = 6 * bits - 1
  BY <1>1, <1>3
<1>17. ASSUME NEW k \in 1 .. Len(nodes), nodes[k].op_type = "GENERATOR_INPUT"
       PROVE  nodes[k].constants[1] < generator_target_count + bits
  BY <1>1, <1>3, <1>17 DEF SumNode
<1> QED BY <1>3, <1>13, <1>14, <1>15, <1>16, <1>17 DEF base

\* A set of naturals has a least element.
LEMMA LeastIndex ==
  ASSUME NEW T \in SUBSET Nat, T # {}
  PROVE  \E x \in T : \A y \in T : x <= y
<1> DEFINE R == OpToRel(<, Nat)
<1>1. IsWellFoundedOn(R, Nat)
  BY NatLessThanWellFounded
<1>2. \A x, y \in Nat : y < x => <<y, x>> \in R
  BY DEF OpToRel
<1> HIDE DEF R
<1>3. \E x \in T : \A y \in T : ~ (<<y, x>> \in R)
  BY <1>1, WFMin
<1>4. PICK x \in T : \A y \in T : ~ (<<y, x>> \in R)
  BY <1>3
<1>5. ASSUME NEW y \in T
      PROVE  x <= y
  <2>1. x \in Nat /\ y \in Nat
    OBVIOUS
  <2>2. ~(y < x)
    BY <1>2, <1>4, <2>1
  <2> QED BY <2>1, <2>2
<1> QED BY <1>5

\* When outputs are only numbered by new_generator, they are those of the
\* generators, and add_generator_input, outside a generator, is not called.
LEMMA OutputsAreCounted ==
  ASSUME HeapOK, InRow
  PROVE  GeneratorOutputs = generator_target_count
<1>0. PICK N : N = Len(generators)
  OBVIOUS
<1> DEFINE Step(f) == [g \in 0 .. N |->
                         IF g = 0 THEN 0 ELSE f[g - 1] + generators[g].num_outputs]
           sum == CHOOSE f : f = Step(f)
           row == [g \in 0 .. N |-> Outputs(g)]
<1>1. N \in Nat /\ \A g \in 1 .. N : Outputs(g) = Outputs(g - 1) + generators[g].num_outputs
  BY <1>0, OutputsAreNat DEF InRow, EndOfOutputs
<1>2. Outputs(0) = 0
  BY DEF Outputs
<1>3. \A g \in 1 .. N : row[g - 1] = Outputs(g - 1)
  BY <1>1
<1>4. row = Step(row)
  BY <1>1, <1>2, <1>3
<1>5. sum = Step(sum)
  <2> HIDE DEF Step, row
  <2> QED BY <1>4
<1>6. GeneratorOutputs = sum[N]
  BY <1>0 DEF GeneratorOutputs
<1> HIDE DEF sum
<1>7. /\ sum[0] = 0
      /\ \A g \in 1 .. N : sum[g] = sum[g - 1] + generators[g].num_outputs
  BY <1>1, <1>5
<1> DEFINE T == {g \in 0 .. N : sum[g] # Outputs(g)}
<1>8. T = {}
  <2> SUFFICES ASSUME T # {}
               PROVE  FALSE
    OBVIOUS
  <2>1. PICK g \in T : \A h \in T : g <= h
    <3>1. T \in SUBSET Nat
      OBVIOUS
    <3> HIDE DEF T
    <3> QED BY <3>1, LeastIndex
  <2>2. g \in 1 .. N /\ sum[g] # Outputs(g)
    BY <1>1, <1>2, <1>7
  <2>3. g - 1 \in 0 .. N /\ ~(g <= g - 1)
    BY <1>1, <2>2
  <2>4. sum[g - 1] = Outputs(g - 1)
    BY <2>1, <2>3
  <2> QED BY <1>1, <1>7, <2>2, <2>4
<1> QED BY <1>0, <1>1, <1>6, <1>8 DEF InRow

\* A check stays one.
LEMMA BitCheckKept ==
  ASSUME HeapOK, \A p \in Pointers : ops'[p] = ops[p] /\ p \in Pointers',
         NEW a, NEW g, BitCheck(a, g), assertions'[a] = assertions[a],
         Outputs(g - 1)' = Outputs(g - 1)
  PROVE  BitCheck(a, g)'
<1> DEFINE q == assertions[a].left
<1>1. q \in Pointers /\ ops[q].op_type = "MUL" /\ IsOutput(ops[q].inputs[1], Outputs(g - 1))
  BY DEF BitCheck
<1>2. ops[q].inputs[1] \in Pointers
  <2>1. Len(ops[q].inputs) = 2
    BY <1>1, NodeInputs DEF NodeOK, Arity, BinaryOps, IsVector
  <2> QED BY <1>1, <2>1, NodeInputs
<1>3. ops'[q] = ops[q] /\ q \in Pointers' /\ ops'[ops[q].inputs[1]] = ops[ops[q].inputs[1]]
  BY <1>1, <1>2
<1> QED BY <1>1, <1>3 DEF BitCheck, IsOutput

\* Calls that have nothing to do with generators.
LEMMA GeneratorsAfterPlainCall ==
  ASSUME HeapOK, GeneratorsOK, PlainCall
  PROVE  GeneratorsOK'
<1>1. /\ Len(ops) \in Nat /\ Len(ops) <= Len(ops')
      /\ \A p \in Pointers : ops'[p] = ops[p] /\ p \in Pointers'
      /\ \A p \in Pointers' : p \in Pointers \/ ops'[p].op_type # "GENERATOR_INPUT"
      /\ UNCHANGED <<generators, generator_target_count>>
  BY AssertionsAre DEF PlainCall, HeapGrows, Fresh, Pointers
<1>2. \A p \in Pointers' : \A n : OutputFrom(p, n)' => p \in Pointers /\ OutputFrom(p, n)
  BY <1>1 DEF OutputFrom
<1>3. InRow' /\ \A g : Outputs(g)' = Outputs(g)
  BY <1>1 DEF InRow, GeneratorsOK, Outputs, EndOfOutputs
<1>4. OutputsHaveNodes'
  <2>1. \A p \in Pointers : \A index : IsOutput(p, index) => IsOutput(p, index)'
    BY <1>1 DEF IsOutput
  <2> QED BY <1>1, <2>1 DEF OutputsHaveNodes, GeneratorsOK
<1>5. ArgumentsOlder'
  BY <1>1, <1>2 DEF ArgumentsOlder, GeneratorsOK
<1>6. OutputsChecked'
  <2> SUFFICES ASSUME NEW g \in 1 .. Len(generators)
               PROVE  \E a \in 1 .. Len(assertions') : CheckedFirst(a, g)'
    BY <1>1 DEF OutputsChecked
  <2>1. PICK a \in 1 .. Len(assertions) : CheckedFirst(a, g)
    BY DEF OutputsChecked, GeneratorsOK
  <2>2. a \in 1 .. Len(assertions') /\ \A b \in 1 .. a : assertions'[b] = assertions[b]
    BY <2>1, AssertionsAre DEF PlainCall, AssertionsGrow
  <2>3. BitCheck(a, g)'
    <3>1. BitCheck(a, g) /\ assertions'[a] = assertions[a] /\ Outputs(g - 1)' = Outputs(g - 1)
      BY <1>3, <2>1, <2>2, AssertionsAre DEF CheckedFirst
    <3> QED BY <1>1, <3>1, BitCheckKept
  <2>4. ASSUME NEW b \in 1 .. a, NEW p \in Pointers', OutputFrom(p, Outputs(g))'
        PROVE  assertions'[b].left < p /\ assertions'[b].right < p
    BY <1>2, <1>3, <2>1, <2>2, <2>4 DEF CheckedFirst
  <2> QED BY <2>2, <2>3, <2>4 DEF CheckedFirst
<1> QED BY <1>3, <1>4, <1>5, <1>6 DEF GeneratorsOK

\* new_generator: its outputs come next, have nodes, and the first of them is
\* checked before anything else can refer to later ones.
LEMMA GeneratorsAfterNew ==
  ASSUME HeapOK, GeneratorsOK, NEW arg \in ScalarNodes, NEW bits \in GeneratorBits,
         new_generator(arg, bits)
  PROVE  GeneratorsOK'
<1>0. PICK base, N, nodes : /\ base = Len(ops) /\ N = Len(generators)
                            /\ nodes = constrain(base, bits)
  OBVIOUS
<1>1. /\ ops' = ops \o nodes
      /\ assertions' = assertions \o ConstrainAssertions(base, bits, arg)
      /\ generator_target_count' = generator_target_count + bits
      /\ base \in Nat /\ N \in Nat /\ bits \in Nat \ {0} /\ generator_target_count \in Nat
      /\ arg \in 1 .. base
  BY <1>0, AssertionsAre, OutputsAreNat, AuthorAssumption DEF new_generator, ScalarNodes
<1>2. /\ nodes \in Seq(Node) /\ Len(nodes) = 6 * bits - 1
      /\ \A i \in 0 .. bits - 1 : nodes[3 + 3 * i] = ACGeneratorInputOp(generator_target_count + i)
      /\ nodes[5] = BinaryOperation("MUL", base + 3, base + 4)
      /\ \A k \in 1 .. Len(nodes) : nodes[k].op_type = "GENERATOR_INPUT" =>
           nodes[k].constants[1] < generator_target_count + bits
  BY <1>0, <1>1, ConstrainContents DEF HeapOK
<1>3. /\ Len(ops') = base + 6 * bits - 1
      /\ \A p \in 1 .. base : ops'[p] = ops[p]
      /\ \A k \in 1 .. 6 * bits - 1 : ops'[base + k] = nodes[k]
  <2>1. /\ Len(ops') = base + Len(nodes)
        /\ \A p \in 1 .. base + Len(nodes) : ops'[p] = IF p <= base THEN ops[p] ELSE nodes[p - base]
    <3>1. ops \in Seq(Node) /\ base = Len(ops)
      BY <1>0 DEF HeapOK, NodesOK
    <3>2. /\ Len(ops \o nodes) = Len(ops) + Len(nodes)
          /\ \A p \in 1 .. Len(ops) + Len(nodes) :
               (ops \o nodes)[p] = IF p <= Len(ops) THEN ops[p] ELSE nodes[p - Len(ops)]
      BY <1>2, <3>1, ConcatProperties
    <3> QED BY <1>1, <3>1, <3>2
  <2>2. ASSUME NEW k \in 1 .. 6 * bits - 1
        PROVE  ops'[base + k] = nodes[k]
    <3>1. PICK p : p = base + k
      OBVIOUS
    <3>2. p \in 1 .. base + Len(nodes) /\ ~(p <= base) /\ p - base = k
      <4>1. base \in Nat /\ bits \in Nat \ {0} /\ Len(nodes) = 6 * bits - 1
        BY <1>1, <1>2
      <4> QED BY <3>1, <4>1
    <3> QED BY <2>1, <3>1, <3>2
  <2>3. \A p \in 1 .. base : ops'[p] = ops[p]
    BY <1>1, <1>2, <2>1
  <2> QED BY <1>1, <1>2, <2>1, <2>2, <2>3
<1>4. /\ \A p \in Pointers : ops'[p] = ops[p] /\ p \in Pointers'
      /\ \A p \in Pointers' \ Pointers : \E k \in 1 .. 6 * bits - 1 : p = base + k
  <2>1. \A p \in Pointers' \ Pointers : p - base \in 1 .. 6 * bits - 1 /\ p = base + (p - base)
    BY <1>0, <1>1, <1>3 DEF Pointers
  <2> QED BY <1>0, <1>1, <1>3, <2>1 DEF Pointers
<1>5. /\ Len(generators') = N + 1
      /\ \A g \in 1 .. N : generators'[g] = generators[g]
      /\ generators'[N + 1].inputs = <<arg>>
      /\ generators'[N + 1].num_outputs = bits
      /\ generators'[N + 1].start_generator_output_index = generator_target_count
  <2> DEFINE definition == [generator_id |-> BitSum, inputs |-> <<arg>>,
                            constants |-> <<bits>>, num_outputs |-> num_outputs(<<bits>>),
                            start_generator_output_index |-> generator_target_count]
  <2>1. definition \in GeneratorDefinition
    BY <1>1 DEF GeneratorDefinition, num_outputs
  <2>2. /\ definition.inputs = <<arg>> /\ definition.num_outputs = bits
        /\ definition.start_generator_output_index = generator_target_count
    BY DEF num_outputs
  <2>3. generators' = Append(generators, definition) /\ generators \in Seq(GeneratorDefinition)
    BY DEF new_generator, HeapOK, RootsOK
  <2> HIDE DEF definition
  <2> QED BY <1>0, <2>1, <2>2, <2>3, AppendProperties
<1>6. /\ \A g \in 0 .. N : Outputs(g)' = Outputs(g) /\ Outputs(g) \in Nat
      /\ Outputs(N) = generator_target_count
      /\ Outputs(N + 1)' = generator_target_count + bits
  <2>1. \A g \in 0 .. N : Outputs(g)' = Outputs(g)
    BY <1>1, <1>5 DEF Outputs, EndOfOutputs
  <2>2. \A n : n = N + 1 => Outputs(n)' = generator_target_count + bits
    BY <1>1, <1>5 DEF Outputs, EndOfOutputs
  <2>3. Outputs(N) = generator_target_count
    BY <1>0 DEF GeneratorsOK, InRow
  <2> QED BY <1>0, <2>1, <2>2, <2>3, OutputsAreNat
<1>7. InRow'
  <2>1. ASSUME NEW g \in 1 .. N + 1
        PROVE  /\ generators'[g].num_outputs \in GeneratorBits
               /\ generators'[g].start_generator_output_index = Outputs(g - 1)'
    <3>1. CASE g = N + 1
      <4>1. g - 1 = N /\ N \in 0 .. N
        BY <1>1, <3>1
      <4> QED BY <1>5, <1>6, <3>1, <4>1
    <3>2. CASE g \in 1 .. N
      <4>1. g - 1 \in 0 .. N
        BY <1>1, <3>2
      <4>2. \A n : n = g - 1 => Outputs(n)' = Outputs(n)
        BY <1>6, <4>1
      <4> QED BY <1>0, <1>5, <3>2, <4>2 DEF GeneratorsOK, InRow
    <3> QED BY <1>1, <3>1, <3>2
  <2>2. generator_target_count' = Outputs(Len(generators))'
    <3>1. \A n : n = N + 1 => Outputs(n)' = generator_target_count'
      BY <1>1, <1>6
    <3> QED BY <1>5, <3>1
  <2> QED BY <1>5, <2>1, <2>2 DEF InRow
<1>8. OutputsHaveNodes'
  <2> SUFFICES ASSUME NEW index \in 0 .. generator_target_count + bits - 1
               PROVE  \E p \in Pointers' : IsOutput(p, index)'
    BY <1>1 DEF OutputsHaveNodes
  <2>1. CASE index < generator_target_count
    <3>1. PICK p \in Pointers : IsOutput(p, index)
      BY <1>1, <2>1 DEF GeneratorsOK, OutputsHaveNodes
    <3> QED BY <1>4, <3>1 DEF IsOutput
  <2>2. CASE ~(index < generator_target_count)
    <3>1. PICK i \in 0 .. bits - 1 : index = generator_target_count + i
      <4>1. index - generator_target_count \in 0 .. bits - 1
        BY <1>1, <2>2
      <4>2. index = generator_target_count + (index - generator_target_count)
        BY <1>1
      <4> QED BY <4>1, <4>2
    <3>2. PICK k : k = 3 + 3 * i
      OBVIOUS
    <3>3. k \in 1 .. 6 * bits - 1 /\ base + k \in Pointers'
      BY <1>1, <1>3, <3>2 DEF Pointers
    <3>4. ops'[base + k] = ACGeneratorInputOp(index)
      BY <1>2, <1>3, <3>1, <3>2, <3>3
    <3>5. IsOutput(base + k, index)'
      BY <3>4 DEF IsOutput, ACGeneratorInputOp, Operation
    <3> QED BY <3>3, <3>5
  <2> QED BY <2>1, <2>2
<1>9. ArgumentsOlder'
  <2> SUFFICES ASSUME NEW g \in 1 .. N + 1, NEW p \in Pointers',
                      OutputFrom(p, generators[g].start_generator_output_index)'
               PROVE  generators'[g].inputs[1] < p
    BY <1>5 DEF ArgumentsOlder
  <2>1. ASSUME p \notin Pointers
        PROVE  generators'[g].inputs[1] \in 1 .. base /\ base < p
    <3>1. base < p
      BY <1>1, <1>4, <2>1
    <3>2. CASE g = N + 1
      BY <1>1, <1>5, <3>1, <3>2
    <3>3. CASE g \in 1 .. N
      <4>1. generators[g].inputs[1] \in ScalarNodes
        BY <1>0, <3>3 DEF HeapOK, RootsOK
      <4>2. generators[g].inputs[1] \in 1 .. base
        BY <1>0, <4>1 DEF ScalarNodes
      <4> QED BY <1>5, <3>1, <3>3, <4>2
    <3> QED BY <1>1, <3>2, <3>3
  <2>2. ASSUME p \in Pointers
        PROVE  g \in 1 .. N /\ OutputFrom(p, generators[g].start_generator_output_index)
    <3>1. ops'[p] = ops[p] /\ ops[p].op_type = "GENERATOR_INPUT"
      BY <1>4, <2>2 DEF OutputFrom
    <3>2. ops[p].constants[1] \in 0 .. generator_target_count - 1
      BY <2>2, <3>1, NodeInputs DEF NodeOK
    <3>3. g # N + 1
      BY <1>1, <1>5, <3>1, <3>2 DEF OutputFrom
    <3>4. g \in 1 .. N
      BY <1>1, <3>3
    <3> QED BY <1>5, <3>1, <3>4 DEF OutputFrom
  <2>3. CASE p \in Pointers
    BY <1>0, <1>5, <2>2, <2>3 DEF GeneratorsOK, ArgumentsOlder
  <2>4. CASE p \notin Pointers
    <3>1. p \in Nat
      BY DEF Pointers
    <3> QED BY <1>1, <2>1, <2>4, <3>1
  <2> QED BY <2>3, <2>4
<1>10. /\ Len(assertions) \in Nat
       /\ Len(assertions') = Len(assertions) + bits + 1
       /\ \A a \in 1 .. Len(assertions) : assertions'[a] = assertions[a]
       /\ assertions'[Len(assertions) + 1] = [left |-> base + 5, right |-> base + 2]
  <2> DEFINE new == ConstrainAssertions(base, bits, arg)
  <2>1. new \in Seq([left : Nat, right : Nat])
    <3>1. PICK size \in Nat : size = base + 2 + 3 * bits + 3 * (bits - 1)
      BY <1>1
    <3>2. Nat \in SUBSET Nat /\ base + 1 .. size \subseteq Nat /\ arg \in Nat
      BY <1>1
    <3> QED BY <1>1, <3>1, <3>2, ConstrainRoots
  <2>2. Len(new) = bits + 1 /\ new[1] = [left |-> base + 5, right |-> base + 2]
    <3> DEFINE Pair == [left : Nat, right : Nat]
               A == [i \in 1 .. bits |-> [left |-> BitProduct(base, i - 1), right |-> base + 2]]
               B == <<[left |-> arg, right |-> BitsTotal(base, bits)]>>
    <3>1. \A i \in 1 .. bits : A[i] \in Pair
      BY <1>1 DEF BitProduct
    <3>2. [left |-> arg, right |-> BitsTotal(base, bits)] \in Pair
      BY <1>1 DEF BitsTotal, BitInput
    <3>3. A \in [1 .. bits -> Pair]
      BY <3>1
    <3>4. A \in Seq(Pair) /\ Len(A) = bits
      BY <1>1, <3>3, SeqDef
    <3>5. B \in Seq(Pair) /\ Len(B) = 1
      BY <3>2
    <3>6. A[1] = [left |-> base + 5, right |-> base + 2]
      <4>1. 1 \in 1 .. bits /\ BitProduct(base, 0) = base + 5
        BY <1>1 DEF BitProduct
      <4> QED BY <4>1
    <3>7. new = A \o B
      BY DEF ConstrainAssertions
    <3> HIDE DEF A, B, Pair, new
    <3>8. /\ Len(A \o B) = Len(A) + Len(B)
          /\ \A k \in 1 .. Len(A) + Len(B) :
               (A \o B)[k] = IF k <= Len(A) THEN A[k] ELSE B[k - Len(A)]
      BY <3>4, <3>5, ConcatProperties
    <3>9. 1 \in 1 .. Len(A) + Len(B) /\ 1 <= Len(A)
      BY <1>1, <3>4, <3>5
    <3> QED BY <3>4, <3>5, <3>6, <3>7, <3>8, <3>9
  <2> HIDE DEF new
  <2>3. /\ Len(assertions') = Len(assertions) + Len(new)
        /\ \A a \in 1 .. Len(assertions) + Len(new) :
             assertions'[a] = IF a <= Len(assertions) THEN assertions[a]
                              ELSE new[a - Len(assertions)]
    BY <1>1, <2>1, ConcatProperties DEF HeapOK, RootsOK, new
  <2> QED BY <1>1, <2>2, <2>3, AssertionsAre
<1>11. OutputsChecked'
  <2> SUFFICES ASSUME NEW g \in 1 .. N + 1
               PROVE  \E a \in 1 .. Len(assertions') : CheckedFirst(a, g)'
    BY <1>5 DEF OutputsChecked
  <2>1. CASE g \in 1 .. N
    <3>1. PICK a \in 1 .. Len(assertions) : CheckedFirst(a, g)
      BY <1>0, <2>1 DEF OutputsChecked, GeneratorsOK
    <3>2. /\ a \in 1 .. Len(assertions')
          /\ \A b \in 1 .. a : assertions'[b] = assertions[b] /\ b \in 1 .. Len(assertions)
      <4>1. Len(assertions) \in Nat /\ Len(assertions) <= Len(assertions') /\ Len(assertions') \in Nat
        BY <1>1, <1>10
      <4>2. \A b \in 1 .. a : b \in 1 .. Len(assertions)
        BY <3>1, <4>1
      <4> QED BY <1>10, <3>1, <4>1, <4>2
    <3>3. BitCheck(a, g)'
      <4>1. g - 1 \in 0 .. N
        BY <1>1, <2>1
      <4>2. \A n : n = g - 1 => Outputs(n)' = Outputs(n)
        BY <1>6, <4>1
      <4>3. assertions'[a] = assertions[a] /\ BitCheck(a, g)
        BY <1>10, <3>1 DEF CheckedFirst
      <4> QED BY <1>4, <4>2, <4>3, BitCheckKept
    <3>4. ASSUME NEW b \in 1 .. a, NEW p \in Pointers', OutputFrom(p, Outputs(g))'
          PROVE  assertions'[b].left < p /\ assertions'[b].right < p
      <4>1. CASE p \in Pointers
        <5>1. OutputFrom(p, Outputs(g))
          BY <1>4, <1>6, <2>1, <3>4, <4>1 DEF OutputFrom
        <5> QED BY <3>1, <3>2, <4>1, <5>1 DEF CheckedFirst
      <4>2. CASE p \notin Pointers
        <5>1. base < p /\ p \in Nat
          BY <1>1, <1>4, <4>2
        <5>2. /\ assertions[b].left \in 1 .. base /\ assertions[b].right \in 1 .. base
              /\ assertions'[b] = assertions[b]
          BY <1>0, <3>2, AssertionsAre DEF Pointers
        <5> QED BY <1>1, <5>1, <5>2
      <4> QED BY <4>1, <4>2
    <3> QED BY <3>2, <3>3, <3>4 DEF CheckedFirst
  <2>2. CASE g = N + 1
    <3>1. PICK a : a = Len(assertions) + 1
      OBVIOUS
    <3>2. a \in 1 .. Len(assertions')
      BY <1>1, <1>10, <3>1
    <3>3. BitCheck(a, g)'
      <4>1. assertions'[a].left = base + 5 /\ base + 5 \in Pointers' /\ base + 3 \in Pointers'
        BY <1>1, <1>3, <1>10, <3>1 DEF Pointers
      <4>2. 5 \in 1 .. 6 * bits - 1 /\ 3 \in 1 .. 6 * bits - 1 /\ 0 \in 0 .. bits - 1
        BY <1>1
      <4>3. /\ ops'[base + 5] = BinaryOperation("MUL", base + 3, base + 4)
            /\ ops'[base + 3] = ACGeneratorInputOp(generator_target_count + 0)
        BY <1>2, <1>3, <4>2
      <4>4. /\ ops'[base + 5].op_type = "MUL" /\ ops'[base + 5].inputs[1] = base + 3
            /\ ops'[base + 3].op_type = "GENERATOR_INPUT"
            /\ ops'[base + 3].constants[1] = generator_target_count
        BY <1>1, <4>3 DEF BinaryOperation, ACGeneratorInputOp, Operation
      <4>5. \A n : n = g - 1 => Outputs(n)' = generator_target_count
        <5>1. g - 1 = N /\ N \in 0 .. N
          BY <1>1, <2>2
        <5> QED BY <1>6, <5>1
      <4> QED BY <4>1, <4>4, <4>5 DEF BitCheck, IsOutput
    <3>4. ASSUME NEW p \in Pointers'
          PROVE  ~OutputFrom(p, Outputs(g))'
      <4>1. PICK c, limit : c = ops'[p].constants[1] /\ limit = generator_target_count'
        OBVIOUS
      <4>2. ops'[p].op_type = "GENERATOR_INPUT" => c \in 0 .. limit - 1
        <5>1. HeapOK'
          BY NewGenerator
        <5> QED BY <4>1, <5>1 DEF HeapOK, NodesOK, NodeOK
      <4>3. \A n : n = N + 1 => Outputs(n)' = limit
        BY <1>1, <1>6, <4>1
      <4>4. limit \in Nat
        BY <1>1, <4>1
      <4>5. ops'[p].op_type = "GENERATOR_INPUT" => ~(c >= limit)
        BY <4>2, <4>4
      <4> QED BY <2>2, <4>1, <4>3, <4>5 DEF OutputFrom
    <3> QED BY <3>2, <3>3, <3>4 DEF CheckedFirst
  <2> QED BY <1>1, <2>1, <2>2
<1> QED BY <1>7, <1>8, <1>9, <1>11 DEF GeneratorsOK

\* GeneratorsOK is kept by every call, as long as no target of a generator is
\* taken outside one.
LEMMA GeneratorsCallOK ==
  ASSUME NoStrayInputs, HeapOK, GeneratorsOK, BuilderNext
  PROVE  GeneratorsOK'
<1>1. ~add_generator_input
  <2>1. GeneratorOutputs = generator_target_count /\ generator_target_count \in Nat
    BY OutputsAreCounted DEF GeneratorsOK, HeapOK
  <2> QED BY <2>1 DEF add_generator_input, NoStrayInputs
<1> QED BY <1>1, CallKinds, GeneratorsAfterPlainCall, GeneratorsAfterNew

\* The constants in the heap, after any call.
LEMMA ConstantsCallOK ==
  ASSUME HeapOK, ConstantsOK, BuilderNext
  PROVE  ConstantsOK'
<1>1. Len(ops) \in Nat
  BY AssertionsAre
<1>2. CASE PlainCall
  <2>1. ASSUME NEW p \in Pointers', ops'[p].op_type = "CONSTANT"
        PROVE  ops'[p].constants[1] \in Coefficients
    <3>1. CASE p \in Pointers
      BY <1>2, <2>1, <3>1 DEF PlainCall, HeapGrows, Pointers, ConstantsOK
    <3>2. CASE p \notin Pointers
      BY <1>2, <2>1, <3>2 DEF PlainCall, Fresh, Coefficients
    <3> QED BY <3>1, <3>2
  <2> QED BY <2>1 DEF ConstantsOK
<1>3. ASSUME NEW nodes \in Seq(Node), ops' = ops \o nodes,
             \A k \in 1 .. Len(nodes) :
               nodes[k].op_type = "CONSTANT" => nodes[k].constants[1] \in Coefficients
      PROVE  ConstantsOK'
  <2>1. /\ Len(ops') = Len(ops) + Len(nodes) /\ Len(nodes) \in Nat
        /\ \A p \in 1 .. Len(ops) + Len(nodes) :
             ops'[p] = IF p <= Len(ops) THEN ops[p] ELSE nodes[p - Len(ops)]
    BY <1>3, ConcatProperties, LenProperties DEF HeapOK, NodesOK
  <2>2. ASSUME NEW p \in Pointers', ops'[p].op_type = "CONSTANT"
        PROVE  ops'[p].constants[1] \in Coefficients
    <3>1. CASE p <= Len(ops)
      <4>1. p \in Pointers /\ ops'[p] = ops[p]
        BY <1>1, <2>1, <3>1 DEF Pointers
      <4> QED BY <2>2, <4>1 DEF ConstantsOK
    <3>2. CASE ~(p <= Len(ops))
      <4>1. p - Len(ops) \in 1 .. Len(nodes) /\ ops'[p] = nodes[p - Len(ops)]
        BY <1>1, <2>1, <3>2 DEF Pointers
      <4> QED BY <1>3, <2>2, <4>1
    <3> QED BY <3>1, <3>2
  <2> QED BY <2>2 DEF ConstantsOK
<1>4. CASE add_generator_input
  <2> DEFINE node == ACGeneratorInputOp(generator_target_count)
  <2>1. node \in Node /\ node.op_type = "GENERATOR_INPUT"
    <3>1. generator_target_count \in ConstantWords
      BY DEF ConstantWords, HeapOK
    <3> QED BY <3>1 DEF ACGeneratorInputOp, Operation, Node, OpType
  <2>2. ops' = ops \o <<node>>
    BY <1>4 DEF add_generator_input, Insert
  <2> HIDE DEF node
  <2>3. /\ <<node>> \in Seq(Node) /\ Len(<<node>>) = 1
        /\ \A k \in 1 .. Len(<<node>>) : <<node>>[k] = node
    BY <2>1
  <2> QED BY <1>3, <2>1, <2>2, <2>3
<1>5. CASE \E arg \in ScalarNodes, bits \in GeneratorBits : new_generator(arg, bits)
  <2>1. PICK bits \in GeneratorBits : ops' = ops \o constrain(Len(ops), bits)
    BY <1>5 DEF new_generator
  <2>2. PICK nodes : nodes = constrain(Len(ops), bits)
    OBVIOUS
  <2>3. /\ nodes \in Seq(Node)
        /\ \A k \in 1 .. Len(nodes) :
             nodes[k].op_type = "CONSTANT" => nodes[k].constants[1] \in Coefficients
    BY <2>2, ConstrainContents DEF HeapOK
  <2> QED BY <1>3, <2>1, <2>2, <2>3
<1> QED BY <1>2, <1>4, <1>5, CallKinds

\* The empty heap.
LEMMA GeneratorsInit ==
  ASSUME BuilderInit
  PROVE  GeneratorsOK /\ ConstantsOK
<1>1. Len(generators) = 0 /\ Len(ops) = 0 /\ generator_target_count = 0
  BY DEF BuilderInit
<1> QED BY <1>1 DEF GeneratorsOK, ConstantsOK, InRow, Outputs, OutputsHaveNodes,
          ArgumentsOlder, OutputsChecked, Pointers

-----------------------------------------------------------------------------
(* The finalizer's side                                                    *)

\* Inputs have no ids of their own: their index is their target.
LeavesHaveNoId ==
  \A p \in DOMAIN target_id : ops[p].op_type \notin {"INPUT", "GENERATOR_INPUT"}

\* What the loops of finalize have put into the circuit.
GeneratorCopied(g) ==
  /\ circuit.generators[g].constant_inputs = <<generators[g].num_outputs>>
  /\ circuit.generators[g].target_inputs = <<TargetOf(generators[g].inputs[1])>>

AssertionCopied(a) ==
  circuit.assertions[a] = [left  |-> TargetOf(assertions[a].left),
                           right |-> TargetOf(assertions[a].right)]

RootsCopied ==
  /\ Len(circuit.generators) <= Len(generators)
  /\ Len(circuit.assertions) <= Len(assertions)
  /\ Len(circuit.output_ops) <= Len(output_ops)
  /\ \A g \in 1 .. Len(circuit.generators) : GeneratorCopied(g)
  /\ \A a \in 1 .. Len(circuit.assertions) : AssertionCopied(a)
  /\ \A o \in 1 .. Len(circuit.output_ops) : circuit.output_ops[o] = TargetOf(output_ops[o])

CopiesOK == LeavesHaveNoId /\ (FirstBuild => RootsCopied)

\* A loop of finalize that ends its body is the only call on the stack.
LEMMA FinishingLoop ==
  ASSUME TypeOK, StackOK, LoopsInOrder, FrameTargets(Len(stack)),
         finish_generator \/ finish_assertion \/ finish_output
  PROVE  /\ UNCHANGED <<builderVars, builds, phase, target_id, global_target_id>>
         /\ phase = "finalizing" /\ Top = stack[1] /\ Top \in StackFrame
         /\ Top.kind = "generator" => Top.ref = Len(circuit.generators) + 1
                                      /\ Top.ref \in 1 .. Len(generators)
         /\ Top.kind = "assertion" => Top.ref = Len(circuit.assertions) + 1
                                      /\ Top.ref \in 1 .. Len(assertions)
         /\ Top.kind = "output" => Top.ref = Len(circuit.output_ops) + 1
                                   /\ Top.ref \in 1 .. Len(output_ops)
         /\ Len(Top.ids) = Len(Wanted(Top))
         /\ \A i \in 1 .. Len(Wanted(Top)) : Top.ids[i] = TargetOf(Wanted(Top)[i])
         /\ \A q : TargetOf(q)' = TargetOf(q)
<1>1. /\ UNCHANGED <<builderVars, builds, phase, target_id, global_target_id>>
      /\ phase = "finalizing" /\ stack # <<>> /\ Complete /\ Top.kind # "operation"
  BY DEF finish_generator, finish_assertion, finish_output, Walking
<1>2. PICK n \in Nat \ {0} : n = Len(stack) /\ FrameOK(n)
  BY <1>1, TopIsFrame
<1>3. n = 1
  <2>1. ~(n > 1)
    BY <1>1, <1>2 DEF FrameOK, Top
  <2> QED BY <2>1
<1>4. Top = stack[1]
  BY <1>2, <1>3 DEF Top
<1>5. \A i \in 1 .. Len(Top.ids) : Top.ids[i] = TargetOf(Wanted(Top)[i])
  BY <1>2 DEF FrameTargets, Top
<1>6. \A q : TargetOf(q)' = TargetOf(q)
  BY <1>1 DEF TargetOf, builderVars
<1> QED BY <1>1, <1>4, <1>5, <1>6, CompleteTop DEF LoopsInOrder

\* One more generator in the circuit.
LEMMA FinishedGenerator ==
  ASSUME TypeOK, StackOK, LoopsInOrder, FrameTargets(Len(stack)), finish_generator,
         NEW g, g = Len(circuit.generators) + 1
  PROVE  /\ g \in 1 .. Len(generators) /\ Len(circuit'.generators) = g /\ Len(circuit.generators) \in Nat
         /\ \A h \in 1 .. Len(circuit.generators) : circuit'.generators[h] = circuit.generators[h]
         /\ circuit'.generators[g].op_dependency_id = Top.op_dependency_id
         /\ GeneratorCopied(g)'
         /\ circuit'.assertions = circuit.assertions
         /\ circuit'.output_ops = circuit.output_ops
         /\ circuit'.operations = circuit.operations
         /\ circuit'.input_target_count = circuit.input_target_count
         /\ circuit'.generator_target_count = circuit.generator_target_count
<1> DEFINE new == [generator_id |-> generators[Top.ref].generator_id,
                   op_dependency_id |-> Top.op_dependency_id,
                   target_inputs |-> Top.ids,
                   constant_inputs |-> CopiedConstants(generators[Top.ref])]
<1>1. /\ Top.kind = "generator" /\ circuit' = [circuit EXCEPT !.generators = Append(@, new)]
  BY DEF finish_generator
<1>2. /\ g = Top.ref /\ g \in 1 .. Len(generators)
      /\ UNCHANGED builderVars
      /\ Top.ids \in Seq(Nat) /\ Top.op_dependency_id \in Int
      /\ Len(Top.ids) = Len(Wanted(Top))
      /\ \A i \in 1 .. Len(Wanted(Top)) : Top.ids[i] = TargetOf(Wanted(Top)[i])
      /\ \A q : TargetOf(q)' = TargetOf(q)
  BY <1>1, FinishingLoop DEF StackFrame
<1>3. /\ generators[g] \in GeneratorDefinition
      /\ generators[g].inputs \in [1 .. 1 -> ScalarNodes]
      /\ generators[g].constants = <<generators[g].num_outputs>>
  BY <1>2, ElementOfSeq DEF TypeOK, HeapOK, RootsOK
<1>4. new.constant_inputs = <<generators[g].num_outputs>>
  <2>1. PICK bits \in Nat : bits = generators[g].num_outputs
    BY <1>3 DEF GeneratorDefinition
  <2>2. PICK in : in = generators[g].inputs
    OBVIOUS
  <2>3. in \in Seq(Nat) /\ DOMAIN in = 1 .. 1
    BY <1>3, <2>2 DEF GeneratorDefinition
  <2>4. Len(in) = 1
    BY <2>3, LenProperties
  <2>5. /\ Len(generators[g].constants) = 1 /\ generators[g].constants[1] = bits
    BY <1>3, <2>1
  <2>6. CopiedConstants(generators[g]) = [i \in 1 .. 1 |-> bits]
    BY <2>2, <2>4, <2>5 DEF CopiedConstants
  <2>7. [i \in 1 .. 1 |-> bits] = <<bits>>
    OBVIOUS
  <2> QED BY <1>2, <2>1, <2>6, <2>7
<1>5. new.target_inputs = <<TargetOf(generators[g].inputs[1])>>
  <2>1. Wanted(Top) = generators[g].inputs
    BY <1>1, <1>2 DEF Wanted
  <2>2. PICK in, ids, target : /\ in = generators[g].inputs /\ ids = Top.ids
                               /\ target = TargetOf(in[1])
    OBVIOUS
  <2>3. in \in Seq(Nat) /\ DOMAIN in = 1 .. 1
    BY <1>3, <2>2 DEF GeneratorDefinition
  <2>4. Len(in) = 1
    BY <2>3, LenProperties
  <2>5. ids \in Seq(Nat) /\ Len(ids) = 1 /\ ids[1] = target
    BY <1>2, <2>1, <2>2, <2>4
  <2>6. ids = <<target>>
    BY <2>5
  <2> QED BY <2>2, <2>6
<1>6. new \in FGenerator
  <2>1. generators[g].num_outputs \in Nat /\ generators[g].generator_id \in {BitSum}
    BY <1>3 DEF GeneratorDefinition
  <2>2. PICK bits \in Nat : bits = generators[g].num_outputs
    BY <2>1
  <2>3. <<bits>> \in Seq(Nat) /\ new.constant_inputs = <<bits>>
    BY <1>4, <2>2
  <2> QED BY <1>2, <2>1, <2>3 DEF FGenerator
<1>7. new.op_dependency_id = Top.op_dependency_id
  OBVIOUS
<1> HIDE DEF new
<1>8. /\ circuit'.generators = Append(circuit.generators, new)
      /\ circuit.generators \in Seq(FGenerator)
      /\ circuit'.assertions = circuit.assertions
      /\ circuit'.output_ops = circuit.output_ops
      /\ circuit'.operations = circuit.operations
      /\ circuit'.input_target_count = circuit.input_target_count
      /\ circuit'.generator_target_count = circuit.generator_target_count
  BY <1>1 DEF TypeOK, FCircuit
<1>9. /\ Len(circuit'.generators) = g /\ Len(circuit.generators) \in Nat
      /\ \A h \in 1 .. Len(circuit.generators) : circuit'.generators[h] = circuit.generators[h]
      /\ circuit'.generators[g] = new
  BY <1>6, <1>8, AppendProperties, LenProperties
<1>10. GeneratorCopied(g)'
  <2>1. generators' = generators
    BY <1>2 DEF builderVars
  <2>2. \A q : TargetOf(q)' = TargetOf(q)
    BY <1>2
  <2>3. TargetOf(generators[g].inputs[1])' = TargetOf(generators[g].inputs[1])
    BY <1>2, <2>1 DEF TargetOf
  <2> QED BY <1>4, <1>5, <1>9, <2>1, <2>3 DEF GeneratorCopied
<1> QED BY <1>2, <1>7, <1>8, <1>9, <1>10

\* One more assertion in the circuit.
LEMMA FinishedAssertion ==
  ASSUME TypeOK, StackOK, LoopsInOrder, FrameTargets(Len(stack)), finish_assertion,
         NEW a, a = Len(circuit.assertions) + 1
  PROVE  /\ a \in 1 .. Len(assertions) /\ Len(circuit'.assertions) = a /\ Len(circuit.assertions) \in Nat
         /\ \A b \in 1 .. Len(circuit.assertions) : circuit'.assertions[b] = circuit.assertions[b]
         /\ AssertionCopied(a)'
         /\ circuit'.generators = circuit.generators
         /\ circuit'.output_ops = circuit.output_ops
         /\ circuit'.operations = circuit.operations
         /\ circuit'.input_target_count = circuit.input_target_count
         /\ circuit'.generator_target_count = circuit.generator_target_count
<1> DEFINE new == [left |-> Top.ids[1], right |-> Top.ids[2]]
           Pair == [left : Nat, right : Nat]
<1>1. /\ Top.kind = "assertion" /\ circuit' = [circuit EXCEPT !.assertions = Append(@, new)]
  BY DEF finish_assertion
<1>2. /\ a = Top.ref /\ a \in 1 .. Len(assertions)
      /\ UNCHANGED builderVars
      /\ Top.ids \in Seq(Nat)
      /\ Len(Top.ids) = Len(Wanted(Top))
      /\ \A i \in 1 .. Len(Wanted(Top)) : Top.ids[i] = TargetOf(Wanted(Top)[i])
      /\ \A q : TargetOf(q)' = TargetOf(q)
  BY <1>1, FinishingLoop DEF StackFrame
<1>3. PICK left, right : left = assertions[a].left /\ right = assertions[a].right
  OBVIOUS
<1>4. Wanted(Top) = <<left, right>>
  BY <1>1, <1>2, <1>3 DEF Wanted
<1>5. /\ Len(Top.ids) = 2
      /\ Top.ids[1] = TargetOf(left) /\ Top.ids[2] = TargetOf(right)
  <2>1. /\ Len(<<left, right>>) = 2
        /\ <<left, right>>[1] = left /\ <<left, right>>[2] = right
    OBVIOUS
  <2> QED BY <1>2, <1>4, <2>1
<1>6. new \in Pair /\ circuit.assertions \in Seq(Pair)
  <2>1. Top.ids[1] \in Nat /\ Top.ids[2] \in Nat
    BY <1>2, <1>5, ElementOfSeq
  <2> QED BY <2>1 DEF TypeOK, FCircuit
<1>7. /\ circuit'.assertions = Append(circuit.assertions, new)
      /\ circuit'.generators = circuit.generators
      /\ circuit'.output_ops = circuit.output_ops
      /\ circuit'.operations = circuit.operations
      /\ circuit'.input_target_count = circuit.input_target_count
      /\ circuit'.generator_target_count = circuit.generator_target_count
  BY <1>1 DEF TypeOK, FCircuit
<1>8. /\ Len(circuit'.assertions) = a /\ Len(circuit.assertions) \in Nat
      /\ \A b \in 1 .. Len(circuit.assertions) : circuit'.assertions[b] = circuit.assertions[b]
      /\ circuit'.assertions[a] = new
  <2> HIDE DEF new, Pair
  <2> QED BY <1>6, <1>7, AppendProperties, LenProperties
<1>9. AssertionCopied(a)'
  <2>1. /\ assertions'[a].left = left /\ assertions'[a].right = right
        /\ TargetOf(left)' = TargetOf(left) /\ TargetOf(right)' = TargetOf(right)
    BY <1>2, <1>3 DEF builderVars
  <2>2. circuit'.assertions[a] = [left |-> TargetOf(left), right |-> TargetOf(right)]
    BY <1>5, <1>8
  <2>3. /\ TargetOf(assertions[a].left)' = TargetOf(left)
        /\ TargetOf(assertions[a].right)' = TargetOf(right)
    BY <2>1 DEF TargetOf
  <2> QED BY <2>2, <2>3 DEF AssertionCopied
<1> QED BY <1>2, <1>7, <1>8, <1>9

\* One more output in the circuit.
LEMMA FinishedOutput ==
  ASSUME TypeOK, StackOK, LoopsInOrder, FrameTargets(Len(stack)), finish_output,
         NEW o, o = Len(circuit.output_ops) + 1
  PROVE  /\ o \in 1 .. Len(output_ops) /\ Len(circuit'.output_ops) = o /\ Len(circuit.output_ops) \in Nat
         /\ \A u \in 1 .. Len(circuit.output_ops) : circuit'.output_ops[u] = circuit.output_ops[u]
         /\ circuit'.output_ops[o] = TargetOf(output_ops[o])'
         /\ circuit'.generators = circuit.generators
         /\ circuit'.assertions = circuit.assertions
         /\ circuit'.operations = circuit.operations
         /\ circuit'.input_target_count = circuit.input_target_count
         /\ circuit'.generator_target_count = circuit.generator_target_count
<1>1. PICK new : /\ Top.kind = "output" /\ new = Top.ids[1]
                 /\ circuit' = [circuit EXCEPT !.output_ops = Append(@, new)]
  BY DEF finish_output
<1>2. /\ o = Top.ref /\ o \in 1 .. Len(output_ops)
      /\ UNCHANGED builderVars
      /\ Top.ids \in Seq(Nat)
      /\ Len(Top.ids) = Len(Wanted(Top))
      /\ \A i \in 1 .. Len(Wanted(Top)) : Top.ids[i] = TargetOf(Wanted(Top)[i])
      /\ \A q : TargetOf(q)' = TargetOf(q)
  BY <1>1, FinishingLoop DEF StackFrame
<1>3. PICK p : p = output_ops[o]
  OBVIOUS
<1>4. Wanted(Top) = <<p>>
  BY <1>1, <1>2, <1>3 DEF Wanted
<1>5. Len(Top.ids) = 1 /\ Top.ids[1] = TargetOf(p)
  <2>1. Len(<<p>>) = 1 /\ <<p>>[1] = p
    OBVIOUS
  <2> QED BY <1>2, <1>4, <2>1
<1>6. new \in Nat /\ circuit.output_ops \in Seq(Nat)
  <2>1. Top.ids[1] \in Nat
    BY <1>2, <1>5, ElementOfSeq
  <2>2. circuit.output_ops \in Seq(Nat)
    BY DEF TypeOK, FCircuit
  <2> QED BY <1>1, <2>1, <2>2
<1>7. /\ circuit'.output_ops = Append(circuit.output_ops, new)
      /\ circuit'.generators = circuit.generators
      /\ circuit'.assertions = circuit.assertions
      /\ circuit'.operations = circuit.operations
      /\ circuit'.input_target_count = circuit.input_target_count
      /\ circuit'.generator_target_count = circuit.generator_target_count
  BY <1>1 DEF TypeOK, FCircuit
<1>8. /\ Len(circuit'.output_ops) = o /\ Len(circuit.output_ops) \in Nat
      /\ \A u \in 1 .. Len(circuit.output_ops) : circuit'.output_ops[u] = circuit.output_ops[u]
      /\ circuit'.output_ops[o] = new
  BY <1>6, <1>7, AppendProperties, LenProperties
<1>9. TargetOf(output_ops[o])' = TargetOf(p)
  <2>1. output_ops'[o] = p /\ TargetOf(p)' = TargetOf(p)
    BY <1>2, <1>3 DEF builderVars
  <2> QED BY <2>1 DEF TargetOf
<1> QED BY <1>1, <1>2, <1>5, <1>7, <1>8, <1>9

\* The other steps of the walk leave these lists.
LEMMA RootsKept ==
  ASSUME TypeOK, StackOK, Walk, ~(finish_generator \/ finish_assertion \/ finish_output)
  PROVE  /\ circuit'.generators = circuit.generators
         /\ circuit'.assertions = circuit.assertions
         /\ circuit'.output_ops = circuit.output_ops
         /\ circuit'.input_target_count = circuit.input_target_count
         /\ circuit'.generator_target_count = circuit.generator_target_count
         /\ emit_operation \/ UNCHANGED <<circuit, target_id, global_target_id, total_op_count>>
<1>1. CASE emit_operation
  BY <1>1, Emission
<1>2. CASE ~emit_operation
  <2>1. UNCHANGED <<circuit, target_id, global_target_id, total_op_count>>
    BY <1>2 DEF Walk, visit_generator, visit_assertion, visit_output, visit_op, return_target,
                finish_build, finalizerVars
  <2> QED BY <2>1
<1> QED BY <1>1, <1>2

\* What is resolved keeps its target through the walk, and what is new was not.
LEMMA TargetsStay ==
  ASSUME TypeOK, StackOK, Walk
  PROVE  \A q : Resolved(q) => Resolved(q)' /\ TargetOf(q)' = TargetOf(q)
<1>1. UNCHANGED builderVars
  BY StackMoves
<1>2. CASE emit_operation
  BY <1>1, <1>2, Emission, TargetsKept
<1>3. CASE UNCHANGED target_id
  <2>1. \A q : (Resolved(q)' <=> Resolved(q)) /\ TargetOf(q)' = TargetOf(q)
    BY <1>1, <1>3 DEF Resolved, TargetOf, builderVars
  <2> QED BY <2>1
<1>4. emit_operation \/ UNCHANGED target_id
  BY DEF Walk, visit_generator, visit_assertion, visit_output, visit_op, return_target,
         finish_build, finalizerVars, finish_generator, finish_assertion, finish_output
<1> QED BY <1>2, <1>3, <1>4

\* What is in the circuit stays, as long as what it was copied from does.
LEMMA CopiesKept ==
  ASSUME TypeOK, LoopsInOrder, RootsCopied,
         UNCHANGED <<generators, assertions, output_ops>>,
         \A q : Resolved(q) => TargetOf(q)' = TargetOf(q)
  PROVE  /\ \A g \in 1 .. Len(circuit.generators) :
              circuit'.generators[g] = circuit.generators[g] => GeneratorCopied(g)'
         /\ \A a \in 1 .. Len(circuit.assertions) :
              circuit'.assertions[a] = circuit.assertions[a] => AssertionCopied(a)'
         /\ \A o \in 1 .. Len(circuit.output_ops) :
              circuit'.output_ops[o] = circuit.output_ops[o] =>
                circuit'.output_ops[o] = TargetOf(output_ops[o])'
<1>2. ASSUME NEW g \in 1 .. Len(circuit.generators),
             circuit'.generators[g] = circuit.generators[g]
      PROVE  GeneratorCopied(g)'
  <2>1. PICK q : q = generators[g].inputs[1]
    OBVIOUS
  <2>2. Resolved(q) /\ TargetOf(q)' = TargetOf(q)
    <3>1. g \in 1 .. Len(generators)
      BY LenProperties DEF RootsCopied, TypeOK, FCircuit, HeapOK, RootsOK
    <3>2. DOMAIN generators[g].inputs = 1 .. 1
      BY <3>1 DEF TypeOK, HeapOK, RootsOK
    <3>3. 1 \in DOMAIN generators[g].inputs
      BY <3>2
    <3> QED BY <2>1, <3>3 DEF LoopsInOrder
  <2>3. TargetOf(generators[g].inputs[1])' = TargetOf(q)'
    BY <2>1 DEF TargetOf
  <2> QED BY <1>2, <2>1, <2>2, <2>3 DEF RootsCopied, GeneratorCopied
<1>3. ASSUME NEW a \in 1 .. Len(circuit.assertions),
             circuit'.assertions[a] = circuit.assertions[a]
      PROVE  AssertionCopied(a)'
  <2>1. PICK left, right : left = assertions[a].left /\ right = assertions[a].right
    OBVIOUS
  <2>2. TargetOf(left)' = TargetOf(left) /\ TargetOf(right)' = TargetOf(right)
    BY <2>1 DEF LoopsInOrder
  <2>3. /\ TargetOf(assertions[a].left)' = TargetOf(left)'
        /\ TargetOf(assertions[a].right)' = TargetOf(right)'
    BY <2>1 DEF TargetOf
  <2>4. circuit.assertions[a] = [left |-> TargetOf(left), right |-> TargetOf(right)]
    BY <2>1 DEF RootsCopied, AssertionCopied
  <2> QED BY <1>3, <2>2, <2>3, <2>4 DEF AssertionCopied
<1>4. ASSUME NEW o \in 1 .. Len(circuit.output_ops),
             circuit'.output_ops[o] = circuit.output_ops[o]
      PROVE  circuit'.output_ops[o] = TargetOf(output_ops[o])'
  <2>1. PICK q : q = output_ops[o]
    OBVIOUS
  <2>2. TargetOf(q)' = TargetOf(q) /\ TargetOf(output_ops[o])' = TargetOf(q)'
    BY <2>1 DEF LoopsInOrder, TargetOf
  <2> QED BY <1>4, <2>1, <2>2 DEF RootsCopied
<1> QED BY <1>2, <1>3, <1>4

\* Every step keeps CopiesOK.
LEMMA CopiesStep ==
  ASSUME TypeOK, StackOK, SlotsOK, NeedsOK, CopiesOK,
         [BuilderCall \/ build \/ Walk]_finalizeVars
  PROVE  CopiesOK'
<1>1. CASE BuilderCall
  <2>1. HeapGrows /\ phase' = "building" /\ UNCHANGED target_id
    BY <1>1, BuilderCallOK DEF BuilderCall, TypeOK, finalizerVars
  <2>2. \A p \in DOMAIN target_id : ops'[p] = ops[p]
    BY <2>1 DEF HeapGrows, TypeOK, Pointers
  <2> QED BY <2>1, <2>2 DEF CopiesOK, LeavesHaveNoId, FirstBuild
<1>2. CASE build
  <2>1. /\ circuit' = EmptyCircuit(input_target_count, generator_target_count)
        /\ UNCHANGED <<ops, target_id, generators, assertions, output_ops>>
    BY <1>2 DEF build, builderVars
  <2>2. circuit'.generators = <<>> /\ circuit'.assertions = <<>> /\ circuit'.output_ops = <<>>
    BY <2>1 DEF EmptyCircuit
  <2>3. Len(generators) \in Nat /\ Len(assertions) \in Nat /\ Len(output_ops) \in Nat
    BY LenProperties DEF TypeOK, HeapOK, RootsOK
  <2>4. RootsCopied'
    BY <2>1, <2>2, <2>3 DEF RootsCopied
  <2> QED BY <2>1, <2>4 DEF CopiesOK, LeavesHaveNoId
<1>3. CASE Walk
  <2>1. UNCHANGED <<ops, generators, assertions, output_ops, builds>> /\ UNCHANGED builderVars
    BY <1>3, StackMoves DEF builderVars
  <2>2. LeavesHaveNoId'
    <3>1. CASE emit_operation
      <4>1. /\ ~Resolved(Top.ref)
            /\ target_id' = SetId(target_id, Top.ref, NextId(ops[Top.ref].op_type))
        BY <3>1, Emission
      <4>2. \A p \in DOMAIN target_id' : p \in DOMAIN target_id \/ p = Top.ref
        BY <4>1 DEF SetId
      <4> QED BY <2>1, <4>1, <4>2 DEF CopiesOK, LeavesHaveNoId, Resolved
    <3>2. CASE UNCHANGED target_id
      BY <2>1, <3>2 DEF CopiesOK, LeavesHaveNoId
    <3>3. emit_operation \/ UNCHANGED target_id
      BY <1>3, RootsKept DEF finish_generator, finish_assertion, finish_output
    <3> QED BY <3>1, <3>2, <3>3
  <2>3. ASSUME FirstBuild
        PROVE  RootsCopied'
    <3>1. LoopsInOrder /\ RootsCopied
      BY <2>3 DEF NeedsOK, CopiesOK
    <3>2. \A q : Resolved(q) => TargetOf(q)' = TargetOf(q)
      BY <1>3, TargetsStay
    <3>3. /\ Len(circuit.generators) \in Nat /\ Len(circuit.assertions) \in Nat
          /\ Len(circuit.output_ops) \in Nat /\ Len(generators) \in Nat
          /\ Len(assertions) \in Nat /\ Len(output_ops) \in Nat
      <4> DEFINE Pair == [left : Nat, right : Nat]
      <4>1. circuit.assertions \in Seq(Pair) /\ assertions \in Seq(Pair)
        BY DEF TypeOK, FCircuit, HeapOK, RootsOK
      <4> HIDE DEF Pair
      <4> QED BY <4>1, LenProperties DEF TypeOK, FCircuit, HeapOK, RootsOK
    <3>4. ASSUME finish_generator \/ finish_assertion \/ finish_output
          PROVE  FrameTargets(Len(stack))
      <4>1. stack # <<>>
        BY <3>4 DEF finish_generator, finish_assertion, finish_output
      <4>2. Len(stack) \in 1 .. Len(stack)
        BY <4>1, TopIsFrame
      <4> QED BY <2>3, <4>2 DEF SlotsOK
    <3>5. CASE finish_generator
      <4>1. PICK g : g = Len(circuit.generators) + 1
        OBVIOUS
      <4>2. /\ g \in 1 .. Len(generators) /\ Len(circuit'.generators) = g
            /\ \A h \in 1 .. Len(circuit.generators) :
                 circuit'.generators[h] = circuit.generators[h]
            /\ GeneratorCopied(g)'
            /\ circuit'.assertions = circuit.assertions
            /\ circuit'.output_ops = circuit.output_ops
        BY <3>1, <3>4, <3>5, <4>1, FinishedGenerator
      <4>3. \A h \in 1 .. Len(circuit'.generators) : h = g \/ h \in 1 .. Len(circuit.generators)
        BY <3>3, <4>1, <4>2
      <4>4. \A h \in 1 .. Len(circuit'.generators) : GeneratorCopied(h)'
        BY <2>1, <3>1, <3>2, <4>2, <4>3, CopiesKept
      <4>5. /\ \A a \in 1 .. Len(circuit'.assertions) : AssertionCopied(a)'
            /\ \A o \in 1 .. Len(circuit'.output_ops) :
                 circuit'.output_ops[o] = TargetOf(output_ops[o])'
        BY <2>1, <3>1, <3>2, <4>2, CopiesKept
      <4>6. Len(circuit'.generators) <= Len(generators)
        BY <3>3, <4>2
      <4> QED BY <2>1, <3>1, <4>2, <4>4, <4>5, <4>6 DEF RootsCopied
    <3>6. CASE finish_assertion
      <4>1. PICK a : a = Len(circuit.assertions) + 1
        OBVIOUS
      <4>2. /\ a \in 1 .. Len(assertions) /\ Len(circuit'.assertions) = a
            /\ \A b \in 1 .. Len(circuit.assertions) :
                 circuit'.assertions[b] = circuit.assertions[b]
            /\ AssertionCopied(a)'
            /\ circuit'.generators = circuit.generators
            /\ circuit'.output_ops = circuit.output_ops
        BY <3>1, <3>4, <3>6, <4>1, FinishedAssertion
      <4>3. \A b \in 1 .. Len(circuit'.assertions) : b = a \/ b \in 1 .. Len(circuit.assertions)
        BY <3>3, <4>1, <4>2
      <4>4. \A b \in 1 .. Len(circuit'.assertions) : AssertionCopied(b)'
        BY <2>1, <3>1, <3>2, <4>2, <4>3, CopiesKept
      <4>5. /\ \A g \in 1 .. Len(circuit'.generators) : GeneratorCopied(g)'
            /\ \A o \in 1 .. Len(circuit'.output_ops) :
                 circuit'.output_ops[o] = TargetOf(output_ops[o])'
        BY <2>1, <3>1, <3>2, <4>2, CopiesKept
      <4>6. Len(circuit'.assertions) <= Len(assertions)
        BY <3>3, <4>2
      <4> QED BY <2>1, <3>1, <4>2, <4>4, <4>5, <4>6 DEF RootsCopied
    <3>7. CASE finish_output
      <4>1. PICK o : o = Len(circuit.output_ops) + 1
        OBVIOUS
      <4>2. /\ o \in 1 .. Len(output_ops) /\ Len(circuit'.output_ops) = o
            /\ \A u \in 1 .. Len(circuit.output_ops) :
                 circuit'.output_ops[u] = circuit.output_ops[u]
            /\ circuit'.output_ops[o] = TargetOf(output_ops[o])'
            /\ circuit'.generators = circuit.generators
            /\ circuit'.assertions = circuit.assertions
        BY <3>1, <3>4, <3>7, <4>1, FinishedOutput
      <4>3. \A u \in 1 .. Len(circuit'.output_ops) : u = o \/ u \in 1 .. Len(circuit.output_ops)
        BY <3>3, <4>1, <4>2
      <4>4. \A u \in 1 .. Len(circuit'.output_ops) :
              circuit'.output_ops[u] = TargetOf(output_ops[u])'
        BY <2>1, <3>1, <3>2, <4>2, <4>3, CopiesKept
      <4>5. /\ \A g \in 1 .. Len(circuit'.generators) : GeneratorCopied(g)'
            /\ \A a \in 1 .. Len(circuit'.assertions) : AssertionCopied(a)'
        BY <2>1, <3>1, <3>2, <4>2, CopiesKept
      <4>6. Len(circuit'.output_ops) <= Len(output_ops)
        BY <3>3, <4>2
      <4> QED BY <2>1, <3>1, <4>2, <4>4, <4>5, <4>6 DEF RootsCopied
    <3>8. CASE ~(finish_generator \/ finish_assertion \/ finish_output)
      <4>1. /\ circuit'.generators = circuit.generators
            /\ circuit'.assertions = circuit.assertions
            /\ circuit'.output_ops = circuit.output_ops
        BY <1>3, <3>8, RootsKept
      <4> QED BY <2>1, <3>1, <3>2, <4>1, CopiesKept DEF RootsCopied
    <3> QED BY <3>5, <3>6, <3>7, <3>8
  <2>4. FirstBuild' => FirstBuild
    BY <1>3, <2>1 DEF FirstBuild, Walk, Walking, visit_generator, visit_assertion, visit_output,
       visit_op, return_target, emit_operation, finish_generator, finish_assertion,
       finish_output, finish_build
  <2> QED BY <2>2, <2>3, <2>4 DEF CopiesOK
<1>4. CASE UNCHANGED finalizeVars
  <2>1. UNCHANGED <<ops, generators, assertions, output_ops, phase, builds, target_id, circuit,
                    input_target_count>>
    BY <1>4 DEF finalizeVars, builderVars, finalizerVars
  <2>2. RootsCopied => RootsCopied'
    BY <2>1 DEF RootsCopied, GeneratorCopied, AssertionCopied, TargetOf
  <2> QED BY <2>1, <2>2 DEF CopiesOK, LeavesHaveNoId, FirstBuild
<1> QED BY <1>1, <1>2, <1>3, <1>4

\* Where new_generator numbers the outputs in a row, the copied constants make
\* the evaluator lay them out in the same row, behind the inputs.
LEMMA OutputsInPlace ==
  ASSUME TypeOK, SlotsOK, GeneratorsOK, CopiesOK
  PROVE  GeneratorSlotsInOrder
<1>0. PICK C, first : C = Len(circuit.generators) /\ first = circuit.input_target_count
  OBVIOUS
<1> DEFINE Step(f) == [g \in 1 .. C |->
                         IF g = 1 THEN first
                         ELSE f[g - 1] + num_outputs(circuit.generators[g - 1].constant_inputs)]
           place == CHOOSE f : f = Step(f)
           node(g, i) == CHOOSE p \in Pointers :
                           /\ ops[p].op_type = "GENERATOR_INPUT"
                           /\ ops[p].constants[1] =
                                generators[g].start_generator_output_index + i
           row == [g \in 1 .. C |-> first + Outputs(g - 1)]
<1> SUFFICES ASSUME FirstBuild
             PROVE  \A g \in DOMAIN place : \A i \in 0 .. generators[g].num_outputs - 1 :
                      TargetOf(node(g, i)) = place[g] + i
  BY <1>0 DEF GeneratorSlotsInOrder, FirstBuild
<1>1. /\ C \in Nat /\ first = input_target_count /\ first \in Nat
      /\ C <= Len(generators) /\ Len(generators) \in Nat
  BY <1>0, LenProperties, OutputsAreNat
     DEF TypeOK, FCircuit, SlotsOK, CountersOK, CopiesOK, RootsCopied
<1>2. \A g \in 1 .. C :
        /\ generators[g].start_generator_output_index = Outputs(g - 1)
        /\ generators[g].num_outputs \in Nat
        /\ Outputs(g - 1) \in Nat /\ Outputs(g) \in Nat
        /\ Outputs(g) = Outputs(g - 1) + generators[g].num_outputs
        /\ num_outputs(circuit.generators[g].constant_inputs) = generators[g].num_outputs
        /\ Outputs(g) <= generator_target_count
  <2>1. \A g \in 1 .. C :
          /\ generators[g].start_generator_output_index = Outputs(g - 1)
          /\ generators[g].num_outputs \in Nat
          /\ Outputs(g - 1) \in Nat /\ Outputs(g) \in Nat
          /\ Outputs(g) = Outputs(g - 1) + generators[g].num_outputs
    <3> SUFFICES ASSUME NEW g \in 1 .. C
                 PROVE  /\ generators[g].start_generator_output_index = Outputs(g - 1)
                        /\ generators[g].num_outputs \in Nat
                        /\ Outputs(g - 1) \in Nat /\ Outputs(g) \in Nat
                        /\ Outputs(g) = Outputs(g - 1) + generators[g].num_outputs
      OBVIOUS
    <3>1. g \in 1 .. Len(generators) /\ g - 1 \in 0 .. Len(generators)
      BY <1>1
    <3>2. generators[g].start_generator_output_index = Outputs(g - 1)
      BY <3>1 DEF GeneratorsOK, InRow
    <3> QED BY <3>1, <3>2, OutputsAreNat DEF TypeOK, EndOfOutputs
  <2>2. ASSUME NEW g \in 1 .. C
        PROVE  num_outputs(circuit.generators[g].constant_inputs) = generators[g].num_outputs
    <3>1. circuit.generators[g].constant_inputs = <<generators[g].num_outputs>>
      BY <1>0 DEF CopiesOK, RootsCopied, GeneratorCopied
    <3> QED BY <3>1 DEF num_outputs
  <2>3. \A g \in 1 .. C : Outputs(g) <= generator_target_count
    BY <1>1, OutputsAreNat DEF TypeOK, HeapOK, OutputsOK
  <2> QED BY <2>1, <2>2, <2>3
<1>3. Outputs(0) = 0
  BY DEF Outputs
<1>4. row = Step(row)
  <2>1. \A g \in 1 .. C : g # 1 =>
          first + Outputs(g - 1)
            = row[g - 1] + num_outputs(circuit.generators[g - 1].constant_inputs)
    <3> SUFFICES ASSUME NEW g \in 1 .. C, g # 1
                 PROVE  first + Outputs(g - 1)
                          = row[g - 1] + num_outputs(circuit.generators[g - 1].constant_inputs)
      OBVIOUS
    <3>1. PICK h \in 1 .. C : h = g - 1
      BY <1>1
    <3>2. row[h] = first + Outputs(h - 1)
      OBVIOUS
    <3>3. /\ Outputs(h) = Outputs(h - 1) + generators[h].num_outputs
          /\ num_outputs(circuit.generators[h].constant_inputs) = generators[h].num_outputs
          /\ Outputs(h - 1) \in Nat /\ generators[h].num_outputs \in Nat
      BY <1>2
    <3> HIDE DEF row
    <3>4. first + Outputs(h) = (first + Outputs(h - 1)) + generators[h].num_outputs
      BY <1>1, <3>3
    <3> QED BY <3>1, <3>2, <3>3, <3>4
  <2> QED BY <1>1, <1>3, <2>1
<1>5. place = Step(place)
  <2> HIDE DEF Step, row
  <2> QED BY <1>4
<1> HIDE DEF place
<1>6. /\ DOMAIN place = 1 .. C
      /\ 1 \in 1 .. C => place[1] = first
      /\ \A g \in 1 .. C : g # 1 =>
           place[g] = place[g - 1] + num_outputs(circuit.generators[g - 1].constant_inputs)
  BY <1>5
<1> DEFINE T == {g \in 1 .. C : place[g] # first + Outputs(g - 1)}
<1>7. T = {}
  <2> SUFFICES ASSUME T # {}
               PROVE  FALSE
    OBVIOUS
  <2>1. PICK g \in T : \A h \in T : g <= h
    <3>1. T \in SUBSET Nat
      BY <1>1
    <3> HIDE DEF T
    <3> QED BY <3>1, LeastIndex
  <2>2. g \in 1 .. C /\ place[g] # first + Outputs(g - 1)
    OBVIOUS
  <2>3. g # 1
    BY <1>1, <1>3, <1>6, <2>2
  <2>4. PICK h \in 1 .. C : h = g - 1 /\ ~(g <= h)
    BY <1>1, <2>2, <2>3
  <2>5. place[h] = first + Outputs(h - 1)
    BY <2>1, <2>4
  <2>6. place[g] = place[h] + num_outputs(circuit.generators[h].constant_inputs)
    BY <1>6, <2>2, <2>3, <2>4
  <2>7. /\ Outputs(h) = Outputs(h - 1) + generators[h].num_outputs
        /\ num_outputs(circuit.generators[h].constant_inputs) = generators[h].num_outputs
        /\ Outputs(h - 1) \in Nat /\ generators[h].num_outputs \in Nat
    BY <1>2
  <2> HIDE DEF T
  <2>8. first + Outputs(h) = (first + Outputs(h - 1)) + generators[h].num_outputs
    BY <1>1, <2>7
  <2> QED BY <2>2, <2>4, <2>5, <2>6, <2>7, <2>8
<1>8. ASSUME NEW g \in 1 .. C, NEW i \in 0 .. generators[g].num_outputs - 1
      PROVE  TargetOf(node(g, i)) = place[g] + i
  <2>1. PICK index : index = generators[g].start_generator_output_index + i
    OBVIOUS
  <2>2. index = Outputs(g - 1) + i /\ index \in 0 .. generator_target_count - 1
    <3>1. generators[g].start_generator_output_index = Outputs(g - 1)
      BY <1>2
    <3>2. PICK o \in Nat, n \in Nat :
            /\ o = Outputs(g - 1) /\ n = generators[g].num_outputs
            /\ o + n <= generator_target_count
      BY <1>2
    <3>3. generator_target_count \in Nat
      BY DEF TypeOK, HeapOK
    <3> QED BY <2>1, <3>1, <3>2, <3>3
  <2>3. \E p \in Pointers : ops[p].op_type = "GENERATOR_INPUT" /\ ops[p].constants[1] = index
    BY <2>2 DEF GeneratorsOK, OutputsHaveNodes, IsOutput
  <2>4. /\ node(g, i) \in Pointers
        /\ ops[node(g, i)].op_type = "GENERATOR_INPUT"
        /\ ops[node(g, i)].constants[1] = index
    BY <2>1, <2>3
  <2> HIDE DEF node
  <2>5. node(g, i) \notin DOMAIN target_id
    BY <2>4 DEF CopiesOK, LeavesHaveNoId
  <2>6. TargetOf(node(g, i)) = index + first
    BY <1>1, <2>4, <2>5 DEF TargetOf
  <2>7. place[g] = first + Outputs(g - 1) /\ Outputs(g - 1) \in Nat
    BY <1>2, <1>7
  <2> QED BY <1>1, <1>2, <2>2, <2>6, <2>7
<1> QED BY <1>6, <1>8

\* What the builder's calls keep, every step keeps.
LEMMA BuilderSideStep ==
  ASSUME NoStrayInputs, TypeOK, StackOK, GeneratorsOK,
         [BuilderCall \/ build \/ Walk]_finalizeVars
  PROVE  GeneratorsOK'
<1>1. CASE BuilderCall
  BY <1>1, GeneratorsCallOK DEF BuilderCall, TypeOK
<1>2. CASE UNCHANGED builderVars
  <2>1. UNCHANGED <<ops, generators, assertions, generator_target_count>>
    BY <1>2 DEF builderVars
  <2> QED BY <2>1 DEF GeneratorsOK, InRow, Outputs, EndOfOutputs, OutputsHaveNodes,
             IsOutput, ArgumentsOlder, OutputFrom, OutputsChecked, CheckedFirst, BitCheck,
             Pointers
<1>3. Walk => UNCHANGED builderVars
  BY StackMoves
<1> QED BY <1>1, <1>2, <1>3 DEF build, finalizeVars

\* In every circuit, the targets of a generator's outputs are where the
\* evaluator will write them, if no target of a generator is taken outside one.
THEOREM GeneratorOutputsInOrder ==
  ASSUME NoStrayInputs
  PROVE  FinalizerSpec => []GeneratorSlotsInOrder
<1> DEFINE IInv == /\ TypeOK /\ StackOK /\ GlobalIdsCounted /\ PostOrder
                   /\ SlotsOK /\ NeedsOK /\ GeneratorsOK /\ CopiesOK
<1>1. CircuitInit => IInv
  <2>1. CircuitInit => /\ GlobalIdsCounted /\ PostOrder /\ NeedsOK /\ CopiesOK
    BY DEF CircuitInit, FinalizerInit, GlobalIdsCounted, PostOrder, NeedsOK, Chain, FirstBuild,
           CopiesOK, LeavesHaveNoId
  <2> QED BY <2>1, FinalizerInitOK, SlotsInit, GeneratorsInit DEF CircuitInit
<1>2. ASSUME IInv, [BuilderCall \/ build \/ Walk]_finalizeVars
      PROVE  IInv'
  <2>1. GeneratorsOK'
    BY <1>2, BuilderSideStep
  <2> QED BY <1>2, <2>1, FinalizerStepOK, PostOrderStep, SlotsStep, NeedsStep, CopiesStep
<1>3. IInv => GeneratorSlotsInOrder
  BY OutputsInPlace
<1> QED BY <1>1, <1>2, <1>3, PTL DEF FinalizerSpec

-----------------------------------------------------------------------------
(* Places: every operation of the circuit is the one of a node             *)

\* The place of a node's operation in the list.
Place(p) == global_target_id[p] - FirstSlot + 1

\* Every place is a node's, and the operation there has the node's constants.
PlacesOK ==
  FirstBuild =>
    /\ \A p \in Emitted : /\ Place(p) \in 1 .. Len(Operations)
                          /\ Operations[Place(p)].constant_inputs = ops[p].constants
    /\ \A k \in 1 .. Len(Operations) : \E p \in Emitted : Place(p) = k

\* The tail of visit_op takes the next place.
LEMMA NextPlace ==
  ASSUME TypeOK, StackOK, CountersOK, builds = 1, emit_operation,
         NEW p, p = Top.ref, NEW n, n = Len(Operations)
  PROVE  /\ n \in Nat /\ Len(Operations') = n + 1 /\ FirstSlot' = FirstSlot
         /\ p \in Pointers /\ p \notin Emitted /\ Emitted' = Emitted \cup {p}
         /\ Place(p)' = n + 1
         /\ \A q \in Emitted : Place(q)' = Place(q) /\ q # p
         /\ \A k \in 1 .. n : Operations'[k] = Operations[k]
         /\ Operations'[n + 1].constant_inputs = ops[p].constants
         /\ UNCHANGED builderVars
<1>1. PICK fop \in FOperation : fop.constant_inputs = ops[p].constants /\ Appended(fop)
  BY Emission
<1>2. /\ n \in Nat /\ Len(Operations') = n + 1 /\ Operations'[n + 1] = fop
      /\ \A k \in 1 .. n : Operations'[k] = Operations[k]
  BY <1>1, AppendedOperation
<1>3. /\ p \in Pointers /\ p \notin DOMAIN target_id
      /\ global_target_id' = SetId(global_target_id, p, total_op_count)
      /\ UNCHANGED builderVars
  BY Emission
<1>4. DOMAIN global_target_id = DOMAIN target_id
  BY DEF TypeOK
<1>5. /\ p \notin Emitted /\ Emitted' = Emitted \cup {p}
      /\ global_target_id'[p] = total_op_count
      /\ \A q \in Emitted : global_target_id'[q] = global_target_id[q] /\ q # p
  BY <1>3, <1>4 DEF SetId, Emitted
<1>6. FirstSlot' = FirstSlot /\ FirstSlot \in Nat /\ total_op_count = FirstSlot + n
  BY <1>1 DEF Appended, CountersOK, FirstSlot, TypeOK, FCircuit
<1>7. Place(p)' = n + 1
  BY <1>2, <1>5, <1>6 DEF Place
<1>8. \A q \in Emitted : Place(q)' = Place(q)
  BY <1>5, <1>6 DEF Place
<1> QED BY <1>1, <1>2, <1>3, <1>5, <1>6, <1>7, <1>8

\* Every step keeps PlacesOK.
LEMMA PlacesStep ==
  ASSUME TypeOK, StackOK, GlobalIdsCounted, SlotsOK, PlacesOK,
         [BuilderCall \/ build \/ Walk]_finalizeVars
  PROVE  PlacesOK'
<1>1. CASE BuilderCall
  BY <1>1 DEF BuilderCall, PlacesOK, FirstBuild
<1>2. CASE build
  <2>1. /\ circuit' = EmptyCircuit(input_target_count, generator_target_count)
        /\ builds' = builds + 1 /\ builds \in Nat /\ UNCHANGED global_target_id
    BY <1>2 DEF build, TypeOK
  <2>2. Operations' = <<>>
    BY <2>1 DEF Operations, EmptyCircuit
  <2>3. builds' = 1 => Emitted' = {}
    BY <2>1 DEF GlobalIdsCounted, Emitted, TypeOK
  <2> QED BY <2>2, <2>3 DEF PlacesOK, FirstBuild
<1>3. CASE emit_operation
  <2> SUFFICES ASSUME builds = 1
               PROVE  PlacesOK'
    <3>1. UNCHANGED builds
      BY <1>3, Emission
    <3> QED BY <3>1 DEF PlacesOK, FirstBuild
  <2>1. PICK p, n : p = Top.ref /\ n = Len(Operations)
    OBVIOUS
  <2>2. /\ n \in Nat /\ Len(Operations') = n + 1 /\ FirstSlot' = FirstSlot
        /\ p \in Pointers /\ p \notin Emitted /\ Emitted' = Emitted \cup {p}
        /\ Place(p)' = n + 1
        /\ \A q \in Emitted : Place(q)' = Place(q) /\ q # p
        /\ \A k \in 1 .. n : Operations'[k] = Operations[k]
        /\ Operations'[n + 1].constant_inputs = ops[p].constants
        /\ UNCHANGED ops
    BY <1>3, <2>1, NextPlace DEF SlotsOK, builderVars
  <2>3. FirstBuild /\ FirstBuild'
    BY <1>3, Emission DEF FirstBuild
  <2>4. /\ \A q \in Emitted : /\ Place(q) \in 1 .. n
                              /\ Operations[Place(q)].constant_inputs = ops[q].constants
        /\ \A k \in 1 .. n : \E q \in Emitted : Place(q) = k
    BY <2>1, <2>3 DEF PlacesOK
  <2>5. ASSUME NEW q \in Emitted'
        PROVE  /\ Place(q)' \in 1 .. Len(Operations')
               /\ \A k : k = Place(q)' => Operations'[k].constant_inputs = ops'[q].constants
    <3>1. CASE q = p
      BY <2>2, <3>1
    <3>2. CASE q \in Emitted
      <4>1. Place(q)' = Place(q) /\ Place(q) \in 1 .. n
        BY <2>2, <2>4, <3>2
      <4> QED BY <2>2, <2>4, <3>2, <4>1
    <3> QED BY <2>2, <3>1, <3>2
  <2>6. ASSUME NEW k \in 1 .. Len(Operations')
        PROVE  \E q \in Emitted' : Place(q)' = k
    <3>1. CASE k = n + 1
      BY <2>2, <3>1
    <3>2. CASE k \in 1 .. n
      BY <2>2, <2>4, <3>2
    <3> QED BY <2>2, <3>1, <3>2
  <2> QED BY <2>5, <2>6 DEF PlacesOK
<1>4. CASE UNCHANGED <<ops, builds, global_target_id>> /\ Operations' = Operations
           /\ FirstSlot' = FirstSlot /\ (FirstBuild' => FirstBuild)
  <2>1. Emitted' = Emitted /\ \A p : Place(p)' = Place(p)
    BY <1>4 DEF Emitted, Place
  <2>2. FirstBuild' =>
          /\ \A p \in Emitted : /\ Place(p) \in 1 .. Len(Operations)
                                /\ Operations[Place(p)].constant_inputs = ops[p].constants
          /\ \A k \in 1 .. Len(Operations) : \E p \in Emitted : Place(p) = k
    BY <1>4 DEF PlacesOK
  <2> QED BY <1>4, <2>1, <2>2 DEF PlacesOK
<1>5. CASE Walk /\ ~emit_operation
  <2>1. UNCHANGED <<builderVars, builds>> /\ phase = "finalizing"
    BY <1>5, StackMoves DEF Walk, Walking, visit_generator, visit_assertion, visit_output,
       visit_op, return_target, finish_generator, finish_assertion, finish_output, finish_build
  <2>2. UNCHANGED global_target_id /\ Operations' = Operations /\ FirstSlot' = FirstSlot
    <3>1. CASE finish_generator \/ finish_assertion \/ finish_output
      BY <3>1 DEF finish_generator, finish_assertion, finish_output, TypeOK, FCircuit,
                  Operations, FirstSlot
    <3>2. CASE UNCHANGED <<circuit, global_target_id>>
      BY <3>2 DEF Operations, FirstSlot
    <3> QED BY <1>5, <3>1, <3>2, RootsKept
  <2> QED BY <1>4, <2>1, <2>2 DEF builderVars, FirstBuild
<1>6. CASE UNCHANGED finalizeVars
  BY <1>4, <1>6 DEF finalizeVars, finalizerVars, builderVars, Operations, FirstSlot, FirstBuild
<1> QED BY <1>1, <1>2, <1>3, <1>5, <1>6

-----------------------------------------------------------------------------
(* The schedule                                                            *)

\* The loops of finalize: assertions behind generators, outputs behind assertions.
LoopOrder ==
  stack # <<>> =>
    /\ stack[1].kind # "generator" => Len(circuit.generators) = Len(generators)
    /\ stack[1].kind = "output" => Len(circuit.assertions) = Len(assertions)

\* Visiting the arguments of generators takes no operation.
GeneratorsFirst ==
  Len(circuit.generators) < Len(generators) => Len(Operations) = 0 /\ Len(stack) <= 1

\* All generators are due at once.
NoDependencies ==
  /\ \A g \in 1 .. Len(circuit.generators) : circuit.generators[g].op_dependency_id = 0
  /\ stack # <<>> /\ stack[1].kind = "generator" => stack[1].op_dependency_id = 0

\* The k-th place is late enough for a node: one generator runs before each
\* operation, and those whose outputs it reads are among the first k.
Waits(p, k) ==
  \A i \in DOMAIN ops[p].inputs, h \in 0 .. Len(generators) - 1 :
    OutputFrom(ops[p].inputs[i], Outputs(h)) => h < k

ReadersWait ==
  /\ \A p \in Emitted : Waits(p, Place(p))
  /\ phase = "built" => Len(generators) <= Len(Operations)

ScheduleOK ==
  FirstBuild => LoopOrder /\ GeneratorsFirst /\ NoDependencies /\ ReadersWait

\* Every generator has outputs of its own.
LEMMA StartsIncrease ==
  ASSUME HeapOK, InRow, NEW g \in 1 .. Len(generators), NEW h \in 1 .. Len(generators), g < h
  PROVE  Outputs(g - 1) \in Nat /\ Outputs(h - 1) \in Nat /\ Outputs(g - 1) < Outputs(h - 1)
<1>1. PICK s, t, bits, after \in Nat :
        /\ s = generators[g].start_generator_output_index
        /\ t = generators[h].start_generator_output_index
        /\ bits = generators[g].num_outputs /\ after = EndOfOutputs(g)
  BY OutputsAreNat
<1>2. s = Outputs(g - 1) /\ t = Outputs(h - 1) /\ bits # 0
  BY <1>1, AuthorAssumption DEF InRow
<1>3. after = s + bits
  BY <1>1 DEF EndOfOutputs
<1>4. after <= t
  <2>1. h \in g + 1 .. Len(generators)
    BY OutputsAreNat
  <2> QED BY <1>1, <2>1 DEF HeapOK, OutputsOK
<1> QED BY <1>1, <1>2, <1>3, <1>4

\* What comes from a generator comes from those up to it.
LEMMA OutputFromEarlier ==
  ASSUME HeapOK, InRow, NEW g \in 1 .. Len(generators), NEW h \in 0 .. Len(generators) - 1,
         g <= h, NEW p \in Pointers, OutputFrom(p, Outputs(h))
  PROVE  OutputFrom(p, Outputs(g))
<1>1. PICK length \in Nat : length = Len(generators)
  BY OutputsAreNat
<1>2. g + 1 \in 1 .. Len(generators) /\ h + 1 \in 1 .. Len(generators)
      /\ (g + 1) - 1 = g /\ (h + 1) - 1 = h
  BY <1>1
<1>3. Outputs(g) \in Nat /\ Outputs(h) \in Nat
  BY <1>1, OutputsAreNat
<1>4. Outputs(g) <= Outputs(h)
  <2>1. CASE g = h
    BY <1>3, <2>1
  <2>2. CASE g < h
    <3>1. g + 1 < h + 1
      BY <2>2
    <3>2. PICK a, b : a = g + 1 /\ b = h + 1
      OBVIOUS
    <3>3. Outputs(a - 1) < Outputs(b - 1)
      BY <1>2, <3>1, <3>2, StartsIncrease
    <3> QED BY <1>2, <1>3, <3>2, <3>3
  <2> QED BY <2>1, <2>2
<1>5. ops[p].op_type = "GENERATOR_INPUT" => ops[p].constants[1] \in Nat
  BY NodeInputs DEF NodeOK
<1> QED BY <1>3, <1>4, <1>5 DEF OutputFrom

\* Generators whose checks are in the circuit are no more than its operations.
LEMMA ChecksEmitted ==
  ASSUME HeapOK, InRow, IsFiniteSet(Emitted), NEW h \in 0 .. Len(generators),
         \A g \in 1 .. h : \E a \in 1 .. Len(assertions) :
           BitCheck(a, g) /\ assertions[a].left \in Emitted
  PROVE  h <= Cardinality(Emitted)
<1> DEFINE Check(g, q) == /\ q \in Emitted
                          /\ IsOutput(ops[q].inputs[1], Outputs(g - 1))
           f == [g \in 1 .. h |-> CHOOSE q : Check(g, q)]
<1>1. \A g \in 1 .. h : Check(g, f[g])
  <2> SUFFICES ASSUME NEW g \in 1 .. h
               PROVE  \E q : Check(g, q)
    OBVIOUS
  <2> QED BY DEF BitCheck
<1>2. ASSUME NEW g \in 1 .. h, NEW k \in 1 .. h, g # k
      PROVE  f[g] # f[k]
  <2>1. g \in 1 .. Len(generators) /\ k \in 1 .. Len(generators) /\ (g < k \/ k < g)
    BY <1>2, OutputsAreNat
  <2>2. Outputs(g - 1) # Outputs(k - 1)
    <3>1. CASE g < k
      BY <2>1, <3>1, StartsIncrease
    <3>2. CASE k < g
      BY <2>1, <3>2, StartsIncrease
    <3> QED BY <2>1, <3>1, <3>2
  <2>3. Check(g, f[g]) /\ Check(k, f[k])
    BY <1>1
  <2> HIDE DEF f
  <2> QED BY <2>2, <2>3 DEF IsOutput
<1>3. f \in Injection(1 .. h, Emitted)
  <2>1. f \in [1 .. h -> Emitted]
    BY <1>1
  <2> HIDE DEF f
  <2> QED BY <1>2, <2>1 DEF Injection, IsInjective
<1>4. Cardinality(1 .. h) <= Cardinality(Emitted)
  BY <1>3, FS_Injection
<1>5. h \in Nat /\ Cardinality(1 .. h) = h
  BY FS_Interval
<1> QED BY <1>4, <1>5
\* The call at the bottom is a loop of finalize.
LEMMA BottomFrame ==
  ASSUME TypeOK, StackOK, stack # <<>>
  PROVE  /\ Len(stack) \in Nat \ {0} /\ 1 \in 1 .. Len(stack) /\ FrameOK(1)
         /\ stack[1] \in StackFrame /\ stack[1].kind # "operation"
<1>1. Len(stack) \in Nat \ {0}
  BY TopIsFrame
<1>2. 1 \in 1 .. Len(stack)
  BY <1>1
<1>3. FrameOK(1) /\ stack[1] \in StackFrame
  BY <1>2, ElementOfSeq DEF TypeOK, StackOK
<1> QED BY <1>1, <1>2, <1>3 DEF FrameOK

\* What is visited is no newer than what the loop at the bottom asked for.
LEMMA RootAbove ==
  ASSUME TypeOK, StackOK, Chain, stack # <<>>, Top.kind = "operation"
  PROVE  /\ Len(stack) \in Nat /\ Len(stack) >= 2
         /\ \E i \in 1 .. Len(Wanted(stack[1])) :
              Wanted(stack[1])[i] \in Nat /\ Top.ref \in Nat /\ Top.ref <= Wanted(stack[1])[i]
<1>1. PICK n \in Nat \ {0} : n = Len(stack) /\ FrameOK(n) /\ Top = stack[n] /\ Top \in StackFrame
  BY TopIsFrame DEF Top
<1>2. n > 1 /\ Top.ref \in Nat
  BY <1>1 DEF FrameOK, StackFrame
<1>3. 2 \in 2 .. Len(stack) /\ 2 - 1 = 1
  BY <1>1, <1>2
<1>4. /\ Len(stack[1].ids) < Len(Wanted(stack[1]))
      /\ stack[2].ref = Wanted(stack[1])[Len(stack[1].ids) + 1]
  BY <1>3 DEF Chain, Linked
<1>5. FrameOK(1) /\ stack[1] \in StackFrame /\ 1 \in 1 .. Len(stack)
  BY BottomFrame
<1>6. PICK i : i = Len(stack[1].ids) + 1
  OBVIOUS
<1>7. Wanted(stack[1]) \in Seq(Nat)
  BY <1>5, WantedNodes
<1>8. Len(stack[1].ids) \in Nat /\ Len(Wanted(stack[1])) \in Nat
  BY <1>5, <1>7, LenProperties DEF StackFrame
<1>9. i \in 1 .. Len(Wanted(stack[1]))
  BY <1>4, <1>6, <1>8
<1>10. Wanted(stack[1])[i] \in Nat
  BY <1>7, <1>9, ElementOfSeq
<1>11. Top.ref <= stack[2].ref
  <2>1. CASE n = 2
    BY <1>1, <1>2, <2>1
  <2>2. CASE n # 2
    <3>1. 2 \in 2 .. n - 1
      BY <1>1, <1>2, <2>2
    <3>2. stack[n].ref < stack[2].ref
      BY <1>1, <3>1 DEF FrameOK
    <3> QED BY <1>1, <1>2, <1>4, <1>6, <1>10, <3>2
  <2> QED BY <2>1, <2>2
<1> QED BY <1>1, <1>2, <1>4, <1>6, <1>9, <1>10, <1>11

\* An argument of a generator is there without a visit.
LEMMA ArgumentIsResolved ==
  ASSUME TypeOK, StackOK, ArgumentsRaw, stack # <<>>, ~Complete, Top.kind = "generator"
  PROVE  Resolved(Child)
<1>1. Len(Top.ids) + 1 \in 1 .. Len(Wanted(Top))
  BY ChildIsNode
<1>2. PICK g : g = Top.ref /\ g \in 1 .. Len(generators) /\ Wanted(Top) = generators[g].inputs
  BY TopIsFrame DEF FrameOK, Top, Wanted
<1>3. DOMAIN generators[g].inputs = 1 .. 1 /\ generators[g].inputs \in Seq(Nat)
  <2>1. generators[g].inputs \in [1 .. 1 -> ScalarNodes]
    BY <1>2 DEF TypeOK, HeapOK, RootsOK
  <2>2. generators[g] \in GeneratorDefinition
    BY <1>2, ElementOfSeq DEF TypeOK, HeapOK, RootsOK
  <2> QED BY <2>1, <2>2 DEF GeneratorDefinition
<1>4. Len(Wanted(Top)) = 1
  <2>1. PICK n \in Nat : n = Len(generators[g].inputs) /\ 1 .. n = 1 .. 1
    BY <1>3, LenProperties
  <2>2. \A k : k \in 1 .. n <=> k \in 1 .. 1
    BY <2>1
  <2>3. 1 \in 1 .. n
    BY <2>2
  <2>4. n \in 1 .. n
    BY <2>1, <2>3
  <2>5. n = 1
    BY <2>2, <2>4
  <2> QED BY <1>2, <2>1, <2>5
<1>5. Child = generators[g].inputs[1]
  BY <1>1, <1>2, <1>4, ChildIsNode DEF Child
<1> QED BY <1>2, <1>5 DEF ArgumentsRaw, Resolved

\* Once the first assertions are done, so are the checks among them.
LEMMA CheckIsEmitted ==
  ASSUME TypeOK, LoopsInOrder, NEW a \in 1 .. Len(circuit.assertions), NEW g, BitCheck(a, g)
  PROVE  assertions[a].left \in Emitted
<1>1. Resolved(assertions[a].left)
  BY DEF LoopsInOrder
<1>2. ops[assertions[a].left].op_type = "MUL"
  BY DEF BitCheck
<1> QED BY <1>1, <1>2 DEF Resolved, Emitted, TypeOK

LEMMA EmittedIsFinite ==
  ASSUME TypeOK
  PROVE  IsFiniteSet(Emitted)
<1>1. Emitted \subseteq 1 .. Len(ops) /\ Len(ops) \in Nat
  BY LenProperties DEF TypeOK, Emitted, Pointers, HeapOK, NodesOK
<1>2. IsFiniteSet(1 .. Len(ops))
  BY <1>1, FS_Interval
<1> QED BY <1>1, <1>2, FS_Subset

\* A node that is emitted and reads an output of a generator was asked for by an
\* assertion behind the checks of all generators up to that one, or by an output.
LEMMA EmittedWaits ==
  ASSUME TypeOK, StackOK, SlotsOK, NeedsOK, GeneratorsOK, LoopOrder, GeneratorsFirst,
         FirstBuild, emit_operation, NEW p, p = Top.ref, NEW n, n = Len(Operations) + 1
  PROVE  Waits(p, n)
<1> SUFFICES ASSUME NEW i \in DOMAIN ops[p].inputs, NEW h \in 0 .. Len(generators) - 1,
                    OutputFrom(ops[p].inputs[i], Outputs(h))
             PROVE  h < n
  BY DEF Waits
<1>0. HeapOK /\ InRow /\ LoopsInOrder
  BY DEF TypeOK, GeneratorsOK, NeedsOK
<1>1. stack # <<>> /\ Top.kind = "operation" /\ p \in Pointers
  BY Emission
<1>2. PICK q : q = ops[p].inputs[i]
  OBVIOUS
<1>3. q \in Pointers /\ q < p /\ q \in Nat /\ p \in Nat
  <2>1. /\ p \in Nat /\ DOMAIN ops[p].inputs = 1 .. Len(ops[p].inputs)
        /\ \A k \in 1 .. Len(ops[p].inputs) :
             ops[p].inputs[k] \in 1 .. p - 1 /\ ops[p].inputs[k] \in Pointers
    BY <1>0, <1>1, NodeInputs
  <2>2. q \in 1 .. p - 1 /\ q \in Pointers
    BY <1>2, <2>1
  <2> QED BY <2>1, <2>2
<1>4. PICK N, A, C \in Nat : N = Len(generators) /\ A = Len(assertions) /\ C = Len(circuit.assertions)
  BY <1>0, OutputsAreNat, AssertionsAre, LenProperties DEF TypeOK, FCircuit
<1>5. PICK j \in 1 .. Len(Wanted(stack[1])) : p <= Wanted(stack[1])[j] /\ Wanted(stack[1])[j] \in Nat
  BY <1>1, RootAbove DEF NeedsOK
<1>6. FrameOK(1) /\ stack[1] \in StackFrame /\ stack[1].kind # "operation"
  BY <1>1, BottomFrame
<1>7. stack[1].kind # "generator"
  <2> SUFFICES ASSUME stack[1].kind = "generator"
               PROVE  FALSE
    OBVIOUS
  <2>1. stack[1].ref = Len(circuit.generators) + 1 /\ stack[1].ref \in 1 .. Len(generators)
    BY <1>0, <1>1, <1>6 DEF LoopsInOrder, FrameOK
  <2>2. Len(circuit.generators) \in Nat
    BY LenProperties DEF TypeOK, FCircuit
  <2>3. Len(circuit.generators) < Len(generators)
    BY <1>4, <2>1, <2>2
  <2>4. Len(stack) <= 1
    BY <2>3 DEF GeneratorsFirst
  <2> QED BY <1>1, <2>4, RootAbove DEF NeedsOK
<1>8. ASSUME NEW g \in 1 .. h
      PROVE  \E a \in 1 .. Len(assertions) : BitCheck(a, g) /\ assertions[a].left \in Emitted
  <2>1. g \in 1 .. Len(generators) /\ g <= h
    BY <1>4
  <2>2. PICK a \in 1 .. Len(assertions) : CheckedFirst(a, g)
    BY <2>1 DEF GeneratorsOK, OutputsChecked
  <2>3. OutputFrom(q, Outputs(g))
    BY <1>0, <1>2, <1>3, <2>1, OutputFromEarlier
  <2>4. \A b \in 1 .. a : assertions[b].left < q /\ assertions[b].right < q
    BY <1>3, <2>2, <2>3 DEF CheckedFirst
  <2>5. a <= C
    <3>1. CASE stack[1].kind = "assertion"
      <4>1. PICK r : r = stack[1].ref /\ r = C + 1 /\ r \in 1 .. Len(assertions)
        BY <1>0, <1>1, <1>4, <1>6, <3>1 DEF LoopsInOrder, FrameOK
      <4>2. Wanted(stack[1]) = <<assertions[r].left, assertions[r].right>>
        BY <3>1, <4>1 DEF Wanted
      <4>3. /\ Wanted(stack[1])[j] = assertions[r].left \/ Wanted(stack[1])[j] = assertions[r].right
            /\ assertions[r].left \in Nat /\ assertions[r].right \in Nat
        <5>1. j = 1 \/ j = 2
          BY <4>2
        <5> QED BY <1>0, <4>1, <4>2, <5>1, AssertionsAre
      <4>4. ~(r \in 1 .. a)
        <5>1. PICK w, left, right \in Nat :
                /\ w = Wanted(stack[1])[j] /\ left = assertions[r].left
                /\ right = assertions[r].right
          BY <1>5, <4>3
        <5>2. p <= left \/ p <= right
          BY <1>5, <4>3, <5>1
        <5>3. q < p /\ q \in Nat /\ p \in Nat
          BY <1>3
        <5>4. ~(left < q /\ right < q)
          BY <5>2, <5>3
        <5> QED BY <2>4, <5>1, <5>4
      <4> QED BY <1>4, <4>1, <4>4
    <3>2. CASE stack[1].kind = "output"
      BY <1>1, <1>4, <3>2 DEF LoopOrder
    <3> QED BY <1>6, <1>7, <3>1, <3>2 DEF StackFrame
  <2>6. a \in 1 .. Len(circuit.assertions) /\ BitCheck(a, g)
    BY <1>4, <2>2, <2>5 DEF CheckedFirst
  <2> QED BY <1>0, <2>6, CheckIsEmitted
<1>9. h \in 0 .. Len(generators)
  BY <1>4
<1>10. h <= Cardinality(Emitted)
  BY <1>0, <1>8, <1>9, ChecksEmitted, EmittedIsFinite
<1>11. Cardinality(Emitted) = Len(Operations) /\ Len(Operations) \in Nat
  BY LenProperties DEF SlotsOK, IdsAreSlots, FirstBuild, TypeOK, FCircuit, Operations
<1> QED BY <1>10, <1>11

\* With all assertions done, every generator has an operation to run before.
LEMMA AllGeneratorsRun ==
  ASSUME TypeOK, SlotsOK, GeneratorsOK, LoopsInOrder, FirstBuild,
         Len(circuit.assertions) = Len(assertions)
  PROVE  Len(generators) <= Len(Operations)
<1>0. HeapOK /\ InRow /\ Len(generators) \in Nat
  BY OutputsAreNat DEF TypeOK, GeneratorsOK
<1>1. ASSUME NEW g \in 1 .. Len(generators)
      PROVE  \E a \in 1 .. Len(assertions) : BitCheck(a, g) /\ assertions[a].left \in Emitted
  BY CheckIsEmitted DEF GeneratorsOK, OutputsChecked, CheckedFirst
<1>2. Len(generators) \in 0 .. Len(generators)
  BY <1>0
<1>3. Len(generators) <= Cardinality(Emitted)
  BY <1>0, <1>1, <1>2, ChecksEmitted, EmittedIsFinite
<1> QED BY <1>3 DEF SlotsOK, IdsAreSlots, FirstBuild
-----------------------------------------------------------------------------
(* The schedule, step by step                                              *)

\* A loop of finalize begins, or the one that runs goes on.
LEMMA BottomStep ==
  ASSUME TypeOK, TypeOK', StackOK, Walk, stack' # <<>>
  PROVE  \/ /\ stack = <<>> /\ UNCHANGED circuit
            /\ \/ /\ visit_generator /\ stack'[1].kind = "generator"
                  /\ stack'[1].op_dependency_id =
                       total_op_count - circuit.input_target_count - circuit.generator_target_count
               \/ visit_assertion /\ stack'[1].kind = "assertion"
               \/ visit_output /\ stack'[1].kind = "output"
         \/ /\ stack # <<>> /\ stack'[1].kind = stack[1].kind
            /\ stack'[1].op_dependency_id = stack[1].op_dependency_id
            /\ ~(finish_generator \/ finish_assertion \/ finish_output)
<1>1. stack \in Seq(StackFrame) /\ stack' \in Seq(StackFrame)
  BY DEF TypeOK
<1>2. CASE visit_generator \/ visit_assertion \/ visit_output
  <2>1. PICK kind, ref : /\ stack = <<>> /\ Push(Frame(kind, ref)) /\ UNCHANGED circuit
                         /\ \/ visit_generator /\ kind = "generator"
                            \/ visit_assertion /\ kind = "assertion"
                            \/ visit_output /\ kind = "output"
    BY <1>2 DEF visit_generator, visit_assertion, visit_output
  <2>2. PICK frame : frame = Frame(kind, ref)
    OBVIOUS
  <2>3. stack'[1] = frame
    BY <2>1, <2>2 DEF Push
  <2>4. frame.kind = kind /\ frame.op_dependency_id =
                total_op_count - circuit.input_target_count - circuit.generator_target_count
    BY <2>2 DEF Frame
  <2> QED BY <2>1, <2>3, <2>4
<1>3. CASE finish_generator \/ finish_assertion \/ finish_output
  <2>1. stack # <<>> /\ Top.kind # "operation" /\ Pop
    BY <1>3 DEF finish_generator, finish_assertion, finish_output
  <2>2. PICK n \in Nat \ {0} : n = Len(stack) /\ FrameOK(n) /\ Top = stack[n]
    BY <2>1, TopIsFrame DEF Top
  <2>3. n = 1
    <3>1. ~(n > 1)
      BY <2>1, <2>2 DEF FrameOK
    <3> QED BY <3>1
  <2>4. Len(stack') = 0
    BY <1>1, <2>1, <2>2, <2>3 DEF Pop
  <2> QED BY <1>1, <2>4, EmptySeq
<1>4. CASE return_target
  <2>1. PICK n \in Nat \ {0} : n = Len(stack)
    BY <1>4, TopIsFrame DEF return_target
  <2>2. /\ stack # <<>> /\ stack' = [stack EXCEPT ![n].ids = Append(@, TargetOf(Child))]
    BY <1>4, <2>1 DEF return_target
  <2>3. 1 \in DOMAIN stack /\ n \in DOMAIN stack /\ stack[1] \in StackFrame
    BY <1>1, <2>1, ElementOfSeq
  <2>4. stack'[1].kind = stack[1].kind /\ stack'[1].op_dependency_id = stack[1].op_dependency_id
    BY <2>2, <2>3 DEF StackFrame
  <2>5. ~(finish_generator \/ finish_assertion \/ finish_output)
    BY <1>4 DEF return_target, finish_generator, finish_assertion, finish_output
  <2> QED BY <2>2, <2>4, <2>5
<1>5. CASE visit_op \/ emit_operation \/ finish_build
  <2>1. ~(finish_generator \/ finish_assertion \/ finish_output)
    <3>1. visit_op => ~Complete
      BY DEF visit_op
    <3>2. emit_operation => Top.kind = "operation"
      BY DEF emit_operation
    <3>3. finish_build => stack = <<>>
      BY DEF finish_build
    <3> QED BY <1>5, <3>1, <3>2, <3>3 DEF finish_generator, finish_assertion, finish_output
  <2>2. stack # <<>>
    <3>1. finish_build => UNCHANGED stack
      BY DEF finish_build, finalizerVars
    <3> QED BY <1>5, <3>1 DEF visit_op, emit_operation
  <2>3. PICK n \in Nat \ {0} : n = Len(stack) /\ FrameOK(n) /\ Top = stack[n]
    BY <2>2, TopIsFrame DEF Top
  <2>4. stack'[1] = stack[1]
    <3>1. CASE visit_op
      BY <1>1, <2>3, <3>1 DEF visit_op, Push, Frame
    <3>2. CASE emit_operation
      <4>1. n > 1
        BY <2>3, <3>2 DEF emit_operation, FrameOK
      <4> QED BY <1>1, <2>3, <3>2, <4>1 DEF emit_operation, Pop
    <3>3. CASE finish_build
      BY <3>3 DEF finish_build, finalizerVars
    <3> QED BY <1>5, <3>1, <3>2, <3>3
  <2> QED BY <2>1, <2>2, <2>4
<1> QED BY <1>2, <1>3, <1>4, <1>5 DEF Walk
\* Every step keeps ScheduleOK.
LEMMA ScheduleStep ==
  ASSUME TypeOK, TypeOK', StackOK, GlobalIdsCounted, SlotsOK, NeedsOK, GeneratorsOK,
         ArgumentsRaw => ScheduleOK, ArgumentsRaw', [BuilderCall \/ build \/ Walk]_finalizeVars
  PROVE  ScheduleOK'
<1>0. UNCHANGED builderVars => ArgumentsRaw /\ ScheduleOK
  BY DEF builderVars, ArgumentsRaw
<1>1. CASE BuilderCall
  BY <1>1 DEF BuilderCall, ScheduleOK, FirstBuild
<1>2. CASE build
  <2> SUFFICES ASSUME builds' = 1
               PROVE  (LoopOrder /\ GeneratorsFirst /\ NoDependencies /\ ReadersWait)'
    BY DEF ScheduleOK, FirstBuild
  <2>1. /\ circuit' = EmptyCircuit(input_target_count, generator_target_count)
        /\ builds' = builds + 1 /\ builds \in Nat /\ phase' = "finalizing"
        /\ UNCHANGED <<global_target_id, stack>> /\ phase # "finalizing"
    BY <1>2 DEF build, TypeOK
  <2>2. Operations' = <<>> /\ circuit'.generators = <<>> /\ stack' = <<>>
    BY <2>1 DEF Operations, EmptyCircuit, StackOK
  <2>3. Emitted' = {}
    <3>1. builds = 0
      BY <2>1
    <3> QED BY <2>1, <3>1 DEF GlobalIdsCounted, Emitted, TypeOK
  <2> QED BY <2>1, <2>2, <2>3 DEF LoopOrder, GeneratorsFirst, NoDependencies, ReadersWait
<1>3. CASE Walk
  <2>1. UNCHANGED <<builderVars, builds>> /\ phase = "finalizing"
    BY <1>3, StackMoves DEF Walk, Walking, visit_generator, visit_assertion, visit_output,
       visit_op, return_target, emit_operation, finish_generator, finish_assertion,
       finish_output, finish_build
  <2> SUFFICES ASSUME builds = 1
               PROVE  (LoopOrder /\ GeneratorsFirst /\ NoDependencies /\ ReadersWait)'
    BY <2>1 DEF ScheduleOK, FirstBuild
  <2>2. /\ FirstBuild /\ LoopsInOrder /\ CountersOK
        /\ LoopOrder /\ GeneratorsFirst /\ NoDependencies /\ ReadersWait
    BY <1>0, <2>1 DEF FirstBuild, ScheduleOK, NeedsOK, SlotsOK
  <2>3. PICK C \in Nat : C = Len(circuit.generators)
    BY LenProperties DEF TypeOK, FCircuit
  <2>4. Len(generators') = Len(generators) /\ Len(assertions') = Len(assertions)
        /\ Len(generators) \in Nat
    BY <2>1, OutputsAreNat DEF builderVars, TypeOK
  <2>5. ASSUME finish_generator
        PROVE  /\ C + 1 \in 1 .. Len(generators) /\ Len(circuit'.generators) = C + 1
               /\ \A h \in 1 .. C : circuit'.generators[h] = circuit.generators[h]
               /\ \A g : g = C + 1 =>
                    circuit'.generators[g].op_dependency_id = Top.op_dependency_id
               /\ Top = stack[1] /\ Len(stack) = 1 /\ Len(stack') = 0
               /\ Operations' = Operations
    <3>1. stack # <<>> /\ Top.kind = "generator" /\ Pop
      BY <2>5 DEF finish_generator
    <3>2. PICK n \in Nat \ {0} : n = Len(stack) /\ FrameOK(n) /\ Top = stack[n]
      BY <3>1, TopIsFrame DEF Top
    <3>3. n = 1
      <4>1. ~(n > 1)
        BY <3>1, <3>2 DEF FrameOK
      <4> QED BY <4>1
    <3>4. FrameTargets(Len(stack))
      BY <2>2, <3>2 DEF SlotsOK
    <3>5. PICK g : g = C + 1
      OBVIOUS
    <3>6. /\ g \in 1 .. Len(generators) /\ Len(circuit'.generators) = g
          /\ \A h \in 1 .. C : circuit'.generators[h] = circuit.generators[h]
          /\ circuit'.generators[g].op_dependency_id = Top.op_dependency_id
          /\ circuit'.operations = circuit.operations
      BY <2>2, <2>3, <2>5, <3>4, <3>5, FinishedGenerator
    <3>7. Len(stack') = 0
      BY <3>1, <3>2, <3>3 DEF Pop, TypeOK
    <3> QED BY <3>2, <3>3, <3>5, <3>6, <3>7 DEF Operations
  <2>6. ASSUME ~(finish_generator \/ finish_assertion \/ finish_output)
        PROVE  circuit'.generators = circuit.generators /\ circuit'.assertions = circuit.assertions
    BY <1>3, <2>6, RootsKept
  <2>7. ~finish_generator => circuit'.generators = circuit.generators
    <3>1. CASE finish_assertion \/ finish_output
      BY <3>1 DEF finish_assertion, finish_output, TypeOK, FCircuit
    <3> QED BY <2>6, <3>1
  \* the loops
  <2>8. LoopOrder'
    <3> SUFFICES ASSUME stack' # <<>>
                 PROVE  /\ stack'[1].kind # "generator" => Len(circuit'.generators) = Len(generators)
                        /\ stack'[1].kind = "output" => Len(circuit'.assertions) = Len(assertions)
      BY <2>4 DEF LoopOrder
    <3>1. CASE /\ stack # <<>> /\ stack'[1].kind = stack[1].kind
               /\ ~(finish_generator \/ finish_assertion \/ finish_output)
      BY <2>2, <2>6, <3>1 DEF LoopOrder
    <3>2. CASE /\ UNCHANGED circuit
               /\ \/ visit_generator /\ stack'[1].kind = "generator"
                  \/ visit_assertion /\ stack'[1].kind = "assertion"
                  \/ visit_output /\ stack'[1].kind = "output"
      BY <3>2 DEF visit_assertion, visit_output
    <3> QED BY <1>3, <3>1, <3>2, BottomStep
  <2>9. GeneratorsFirst'
    <3> SUFFICES ASSUME Len(circuit'.generators) < Len(generators)
                 PROVE  Len(Operations') = 0 /\ Len(stack') <= 1
      BY <2>4 DEF GeneratorsFirst
    <3>1. CASE finish_generator
      BY <2>2, <2>3, <2>4, <2>5, <3>1 DEF GeneratorsFirst
    <3>2. CASE ~finish_generator
      <4>1. Len(circuit.generators) < Len(generators) /\ Len(Operations) = 0 /\ Len(stack) <= 1
        BY <2>2, <2>7, <3>2 DEF GeneratorsFirst
      <4>2. ~emit_operation
        BY <4>1, Emission, RootAbove DEF NeedsOK
      <4>3. ~visit_op
        <5> SUFFICES ASSUME visit_op
                     PROVE  FALSE
          OBVIOUS
        <5>1. stack # <<>> /\ ~Complete /\ ~Resolved(Child)
          BY DEF visit_op
        <5>2. Top = stack[1]
          BY <4>1, <5>1, TopIsFrame DEF Top
        <5>3. Top.kind = "generator"
          BY <2>2, <2>4, <4>1, <5>1, <5>2 DEF LoopOrder
        <5> QED BY <1>0, <2>1, <5>1, <5>3, ArgumentIsResolved
      <4>4. Operations' = Operations
        <5>1. CASE finish_assertion \/ finish_output
          BY <5>1 DEF finish_assertion, finish_output, TypeOK, FCircuit, Operations
        <5>2. CASE UNCHANGED circuit
          BY <5>2 DEF Operations
        <5> QED BY <1>3, <3>2, <4>2, <5>1, <5>2, RootsKept
      <4>5. Len(stack') <= 1
        <5>1. PICK length \in Nat : length = Len(stack) /\ length <= 1
          BY <4>1, LenProperties DEF TypeOK
        <5>2. stack' = stack => Len(stack') = length
          BY <5>1
        <5>3. \/ stack' = stack \/ Len(stack') = 1 \/ Len(stack') = length \/ Len(stack') = length - 1
          BY <1>3, <4>3, <5>1, StackMoves
        <5>4. Len(stack') = 1 \/ Len(stack') = length \/ Len(stack') = length - 1
          BY <5>2, <5>3
        <5>5. PICK m : m = Len(stack')
          OBVIOUS
        <5>6. m = 1 \/ m = length \/ m = length - 1
          BY <5>4, <5>5
        <5>7. m <= 1
          BY <5>1, <5>6
        <5> QED BY <5>5, <5>7
      <4> QED BY <4>1, <4>4, <4>5
    <3> QED BY <3>1, <3>2
  <2>10. NoDependencies'
    <3>1. \A g \in 1 .. Len(circuit'.generators) : circuit'.generators[g].op_dependency_id = 0
      <4>1. CASE finish_generator
        <5>1. Top.op_dependency_id = 0
          BY <2>2, <2>5, <4>1 DEF NoDependencies, finish_generator
        <5>2. \A g \in 1 .. C + 1 : g \in 1 .. C \/ g = C + 1
          BY <2>3
        <5> QED BY <2>2, <2>3, <2>5, <4>1, <5>1, <5>2 DEF NoDependencies
      <4>2. CASE ~finish_generator
        BY <2>2, <2>7, <4>2 DEF NoDependencies
      <4> QED BY <4>1, <4>2
    <3>2. ASSUME stack' # <<>>, stack'[1].kind = "generator"
          PROVE  stack'[1].op_dependency_id = 0
      <4>1. CASE /\ stack # <<>> /\ stack'[1].kind = stack[1].kind
                 /\ stack'[1].op_dependency_id = stack[1].op_dependency_id
        BY <2>2, <3>2, <4>1 DEF NoDependencies
      <4>2. CASE /\ visit_generator
                 /\ stack'[1].op_dependency_id =
                      total_op_count - circuit.input_target_count - circuit.generator_target_count
        <5>1. Len(Operations) = 0
          BY <2>2, <4>2 DEF visit_generator, GeneratorsFirst
        <5>2. PICK a, b \in Nat : a = circuit.input_target_count /\ b = circuit.generator_target_count
          BY DEF TypeOK, FCircuit
        <5>3. total_op_count = a + b
          BY <2>2, <5>1, <5>2 DEF CountersOK, FirstSlot
        <5> QED BY <4>2, <5>2, <5>3
      <4> QED BY <1>3, <3>2, <4>1, <4>2, BottomStep
    <3> QED BY <3>1, <3>2 DEF NoDependencies
  \* the places
  <2>11. ReadersWait'
    <3>1. \A p, k : Waits(p, k)' <=> Waits(p, k)
      BY <2>1 DEF Waits, OutputFrom, Outputs, EndOfOutputs, builderVars
    <3>2. CASE emit_operation
      <4>1. PICK p, n : p = Top.ref /\ n = Len(Operations)
        OBVIOUS
      <4>2. /\ Emitted' = Emitted \cup {p} /\ Place(p)' = n + 1
            /\ \A q \in Emitted : Place(q)' = Place(q) /\ q # p
        BY <2>2, <3>2, <4>1, NextPlace
      <4>3. Waits(p, n + 1)
        BY <2>2, <3>2, <4>1, EmittedWaits
      <4>4. ASSUME NEW q \in Emitted', NEW k, k = Place(q)'
            PROVE  Waits(q, k)
        <5>1. CASE q = p
          BY <4>2, <4>3, <4>4, <5>1
        <5>2. CASE q \in Emitted
          BY <2>2, <4>2, <4>4, <5>2 DEF ReadersWait
        <5> QED BY <4>2, <4>4, <5>1, <5>2
      <4>5. \A q \in Emitted' : Waits(q, Place(q))'
        BY <3>1, <4>4 DEF Waits
      <4>6. phase' # "built"
        BY <2>1, <3>2, Emission
      <4> QED BY <4>5, <4>6 DEF ReadersWait
    <3>3. CASE ~emit_operation
      <4>1. UNCHANGED global_target_id /\ Operations' = Operations /\ FirstSlot' = FirstSlot
        <5>1. CASE finish_generator \/ finish_assertion \/ finish_output
          BY <5>1 DEF finish_generator, finish_assertion, finish_output, TypeOK, FCircuit,
                      Operations, FirstSlot
        <5>2. CASE UNCHANGED <<circuit, global_target_id>>
          BY <5>2 DEF Operations, FirstSlot
        <5> QED BY <1>3, <3>3, <5>1, <5>2, RootsKept
      <4>2. Emitted' = Emitted /\ \A p : Place(p)' = Place(p)
        BY <4>1 DEF Emitted, Place
      <4>3. \A p \in Emitted' : Waits(p, Place(p))'
        BY <2>2, <3>1, <4>2 DEF ReadersWait, Waits
      <4>4. ASSUME phase' = "built"
            PROVE  Len(generators) <= Len(Operations)
        <5>1. finish_build
          BY <1>3, <2>1, <4>4 DEF Walk, visit_generator, visit_assertion, visit_output,
             visit_op, return_target, emit_operation, finish_generator, finish_assertion,
             finish_output
        <5> QED BY <2>2, <5>1, AllGeneratorsRun DEF finish_build
      <4> QED BY <2>4, <4>1, <4>3, <4>4 DEF ReadersWait
    <3> QED BY <3>2, <3>3
  <2> QED BY <2>8, <2>9, <2>10, <2>11
<1>4. CASE UNCHANGED finalizeVars
  <2>1. UNCHANGED <<builderVars, phase, builds, stack, circuit, global_target_id>>
    BY <1>4 DEF finalizeVars, finalizerVars
  <2>2. \A p, k : Waits(p, k)' <=> Waits(p, k)
    BY <2>1 DEF Waits, OutputFrom, Outputs, EndOfOutputs, builderVars
  <2>3. \A p : Place(p)' = Place(p)
    BY <2>1 DEF Place, FirstSlot
  <2>4. ReadersWait => ReadersWait'
    <3>1. ASSUME ReadersWait, NEW p \in Emitted'
          PROVE  Waits(p, Place(p))'
      <4>1. PICK k : k = Place(p) /\ Waits(p, k)
        BY <2>1, <3>1 DEF ReadersWait, Emitted
      <4> QED BY <2>2, <2>3, <4>1 DEF Waits
    <3>2. UNCHANGED <<generators, phase>> /\ Operations' = Operations
      BY <2>1 DEF builderVars, Operations
    <3> QED BY <3>1, <3>2 DEF ReadersWait
  <2>5. UNCHANGED <<generators, assertions>> /\ Operations' = Operations
    BY <2>1 DEF builderVars, Operations
  <2> QED BY <1>0, <2>1, <2>4, <2>5 DEF ScheduleOK, LoopOrder, GeneratorsFirst, NoDependencies, FirstBuild
<1> QED BY <1>1, <1>2, <1>3, <1>4
-----------------------------------------------------------------------------

\* In a finished circuit the operations that read an output of a generator are
\* behind as many others as there are generators up to that one.
LEMMA ReadersAreBehind ==
  ASSUME TypeOK, PostOrder, SlotsOK, NeedsOK, GeneratorsOK, CopiesOK, PlacesOK, ScheduleOK
  PROVE  GeneratorsInTime
<1> SUFFICES ASSUME builds = 1, phase = "built"
             PROVE  /\ Len(generators) <= Len(Operations)
                    /\ \A g \in 1 .. Len(generators) : circuit.generators[g].op_dependency_id = 0
                    /\ \A k \in 1 .. Len(Operations), g \in 1 .. Len(generators) :
                         k < g /\ Operations[k].op_type # "TARGET_AT" =>
                           \A i \in DOMAIN Operations[k].target_inputs :
                             Operations[k].target_inputs[i] - input_target_count \notin
                               generators[g].start_generator_output_index .. EndOfOutputs(g) - 1
  BY DEF GeneratorsInTime
<1>0. /\ FirstBuild /\ NoDependencies /\ ReadersWait /\ LoopsInOrder /\ IdsAreSlots /\ CountersOK
      /\ HeapOK /\ InRow /\ LeavesHaveNoId
  BY DEF FirstBuild, ScheduleOK, NeedsOK, SlotsOK, TypeOK, GeneratorsOK, CopiesOK
<1>1. Len(generators) <= Len(Operations)
  BY <1>0 DEF ReadersWait
<1>2. \A g \in 1 .. Len(generators) : circuit.generators[g].op_dependency_id = 0
  BY <1>0 DEF NoDependencies, LoopsInOrder
<1>3. ASSUME NEW k \in 1 .. Len(Operations), NEW g \in 1 .. Len(generators), k < g,
             Operations[k].op_type # "TARGET_AT",
             NEW i \in DOMAIN Operations[k].target_inputs,
             Operations[k].target_inputs[i] - input_target_count \in
               generators[g].start_generator_output_index .. EndOfOutputs(g) - 1
      PROVE  FALSE
  <2>1. PICK p \in Emitted : Place(p) = k
    BY <1>0 DEF PlacesOK
  <2>2. p \in Pointers /\ DOMAIN target_id = Emitted
    BY DEF TypeOK, Emitted
  <2>3. /\ Operations[k].op_type = ops[p].op_type
        /\ Len(Operations[k].target_inputs) = Len(ops[p].inputs)
        /\ \A j \in 1 .. Len(ops[p].inputs) :
             Operations[k].target_inputs[j] = TargetOf(ops[p].inputs[j])
    BY <1>0, <2>1 DEF IdsAreSlots, FirstBuild, Place
  <2>4. Operations \in Seq(FOperation)
    BY DEF TypeOK, FCircuit, Operations
  <2>5. DOMAIN Operations[k].target_inputs = 1 .. Len(ops[p].inputs)
    <3>1. Operations[k] \in FOperation
      BY <2>4, ElementOfSeq
    <3> QED BY <2>3, <3>1, LenProperties DEF FOperation
  <2>6. PICK q : q = ops[p].inputs[i] /\ i \in DOMAIN ops[p].inputs /\ q \in Pointers
                 /\ (IsVector(ops[q].op_type) <=> ops[p].op_type = "TARGET_AT")
    BY <1>0, <2>2, <2>5, NodeInputs DEF NodeOK
  <2>7. Resolved(q)
    BY <1>0, <2>1, <2>6 DEF PostOrder
  <2>8. PICK start, after, count, inputs \in Nat :
          /\ start = generators[g].start_generator_output_index /\ after = EndOfOutputs(g)
          /\ count = generator_target_count /\ inputs = input_target_count
          /\ FirstSlot = inputs + count /\ after <= count
    BY <1>0, OutputsAreNat DEF HeapOK, OutputsOK, CountersOK, FirstSlot
  <2>9. TargetOf(q) - inputs \in start .. after - 1
    BY <1>3, <2>3, <2>5, <2>6, <2>8
  <2>10. CASE q \in DOMAIN target_id
    <3>1. PICK n : n = Place(q) /\ n \in 1 .. Len(Operations)
                   /\ Operations[n].op_type = ops[q].op_type /\ Slot(n) = target_id[q]
      BY <1>0, <2>2, <2>10 DEF IdsAreSlots, FirstBuild, Place
    <3>2. ~IsVector(ops[q].op_type)
      BY <1>3, <2>3, <2>6
    <3>3. n \in Nat
      BY <3>1
    <3>4. PICK passed \in Nat : passed = Cardinality(Passed(n, FALSE))
      BY <3>3, PassedFinite
    <3>5. IsVector(Operations[n].op_type) = FALSE
      BY <3>1, <3>2 DEF IsVector
    <3>6. target_id[q] = inputs + count + passed
      BY <2>8, <3>1, <3>4, <3>5, SlotCounts
    <3> QED BY <2>8, <2>9, <2>10, <3>6 DEF TargetOf
  <2>11. CASE ops[q].op_type = "INPUT"
    <3>1. TargetOf(q) \in 0 .. inputs - 1
      BY <1>0, <2>6, <2>8, <2>11, NodeInputs DEF NodeOK, TargetOf, LeavesHaveNoId
    <3> QED BY <2>8, <2>9, <3>1
  <2>12. CASE ops[q].op_type = "GENERATOR_INPUT"
    <3>0. ops[q].constants[1] \in 0 .. generator_target_count - 1
      BY <1>0, <2>6, <2>12, NodeInputs DEF NodeOK
    <3>1. PICK index \in Nat : index = ops[q].constants[1] /\ TargetOf(q) = index + inputs
      <4>1. q \notin DOMAIN target_id
        BY <1>0, <2>12 DEF LeavesHaveNoId
      <4>2. TargetOf(q) = ops[q].constants[1] + inputs
        BY <2>8, <2>12, <4>1 DEF TargetOf
      <4> QED BY <2>8, <3>0, <4>2
    <3>2. index >= start
      BY <2>8, <2>9, <3>1
    <3>3. PICK h : h = g - 1
      OBVIOUS
    <3>4. h \in 0 .. Len(generators) - 1 /\ start = Outputs(h)
      BY <1>0, <2>8, <3>3, OutputsAreNat DEF InRow
    <3>5. OutputFrom(q, Outputs(h))
      BY <2>12, <3>1, <3>2, <3>4 DEF OutputFrom
    <3>6. h < k
      BY <1>0, <2>1, <2>6, <3>4, <3>5 DEF ReadersWait, Waits
    <3> QED BY <1>0, <1>3, <3>3, <3>6, OutputsAreNat
  <2> QED BY <2>7, <2>10, <2>11, <2>12 DEF Resolved
<1> QED BY <1>1, <1>2, <1>3

\* In every circuit whose generators are given inputs and outputs of generators,
\* every generator runs, and before every operation that reads its outputs, if no
\* generator input is taken outside a generator.
THEOREM GeneratorsRunInTime ==
  ASSUME NoStrayInputs
  PROVE  FinalizerSpec => []GeneratorsInTime
<1> DEFINE IInv == /\ TypeOK /\ StackOK /\ GlobalIdsCounted /\ PostOrder
                   /\ SlotsOK /\ NeedsOK /\ GeneratorsOK /\ CopiesOK
                   /\ PlacesOK /\ (ArgumentsRaw => ScheduleOK)
<1>1. CircuitInit => IInv
  <2>1. CircuitInit => /\ GlobalIdsCounted /\ PostOrder /\ NeedsOK /\ CopiesOK
                       /\ PlacesOK /\ ScheduleOK
    BY DEF CircuitInit, FinalizerInit, GlobalIdsCounted, PostOrder, NeedsOK, Chain, FirstBuild,
           CopiesOK, LeavesHaveNoId, PlacesOK, ScheduleOK
  <2> QED BY <2>1, FinalizerInitOK, SlotsInit, GeneratorsInit DEF CircuitInit
<1>2. ASSUME IInv, [BuilderCall \/ build \/ Walk]_finalizeVars
      PROVE  IInv'
  <2>1. GeneratorsOK'
    BY <1>2, BuilderSideStep DEF TypeOK
  <2>2. TypeOK' /\ StackOK'
    BY <1>2, FinalizerStepOK
  <2>3. ArgumentsRaw' => ScheduleOK'
    BY <1>2, <2>2, ScheduleStep
  <2> QED BY <1>2, <2>1, <2>2, <2>3, PostOrderStep, SlotsStep, NeedsStep, CopiesStep, PlacesStep
<1>3. IInv => GeneratorsInTime
  BY ReadersAreBehind DEF GeneratorsInTime
<1> QED BY <1>1, <1>2, <1>3, PTL DEF FinalizerSpec

=============================================================================
