----------------------- MODULE CircuitEvaluatorProofs -----------------------
(***************************************************************************)
(* The evaluator, for every circuit that is built once: it stays within    *)
(* its vectors, and what it leaves in a slot is a word.  If the generators *)
(* are given inputs and outputs of generators, the word is the value its   *)
(* node has in the prime field, and a call returns or throws what          *)
(* AbstractCircuit says.                                                   *)
(***************************************************************************)
EXTENDS CircuitFinalizerProofs, CircuitEvaluator, GoldilocksFieldProofs

-----------------------------------------------------------------------------
(* The circuit that is evaluated                                           *)

\* A circuit is built once.  (What a second build returns cannot be evaluated,
\* see RebuiltOperationsHaveInputs.)
OneBuild == MaxBuilds = 1

BuiltOnce ==
  /\ phase = "building" => builds = 0
  /\ phase # "building" => builds = 1

BitsAllowed ==
  \A g \in 1 .. Len(generators) : generators[g].num_outputs \in GeneratorBits

CircuitOK ==
  /\ TypeOK /\ StackOK /\ GlobalIdsCounted /\ PostOrder /\ SlotsOK /\ NeedsOK
  /\ FirstBuildExecutable /\ ConstantsOK /\ BitsAllowed /\ CopiesOK /\ PlacesOK
  /\ BuiltOnce

\* A bit sum has one of the numbers of bits the author uses.
LEMMA BitsCallOK ==
  ASSUME HeapOK, BitsAllowed, BuilderNext
  PROVE  BitsAllowed'
<1>1. CASE UNCHANGED generators
  BY <1>1 DEF BitsAllowed
<1>2. ASSUME NEW arg \in ScalarNodes, NEW bits \in GeneratorBits, new_generator(arg, bits)
      PROVE  BitsAllowed'
  <2> DEFINE definition == [generator_id |-> BitSum, inputs |-> <<arg>>,
                            constants |-> <<bits>>, num_outputs |-> num_outputs(<<bits>>),
                            start_generator_output_index |-> generator_target_count]
  <2>1. definition \in GeneratorDefinition
    <3>1. arg \in Nat /\ bits \in Nat /\ generator_target_count \in Nat
      BY AssertionsAre, ScalarsAreNodes, AuthorAssumption, OutputsAreNat DEF Pointers
    <3> QED BY <3>1 DEF GeneratorDefinition, num_outputs
  <2>2. definition.num_outputs = bits
    BY DEF num_outputs
  <2>3. generators' = Append(generators, definition) /\ generators \in Seq(GeneratorDefinition)
    BY <1>2 DEF new_generator, HeapOK, RootsOK
  <2> HIDE DEF definition
  <2>4. /\ Len(generators') = Len(generators) + 1 /\ Len(generators) \in Nat
        /\ \A g \in 1 .. Len(generators) : generators'[g] = generators[g]
        /\ generators'[Len(generators) + 1] = definition
    BY <2>1, <2>3, AppendProperties, LenProperties
  <2>5. ASSUME NEW g \in 1 .. Len(generators')
        PROVE  generators'[g].num_outputs \in GeneratorBits
    <3>1. CASE g \in 1 .. Len(generators)
      BY <2>4, <3>1 DEF BitsAllowed
    <3>2. CASE g = Len(generators) + 1
      BY <2>2, <2>4, <3>2
    <3> QED BY <2>4, <3>1, <3>2
  <2> QED BY <2>5 DEF BitsAllowed
<1>3. CASE PlainCall \/ add_generator_input
  BY <1>1, <1>3 DEF PlainCall, add_generator_input
<1> QED BY <1>2, <1>3, CallKinds

\* The circuit stays as it should be through the author's calls and the build.
LEMMA CircuitOKInit == CircuitInit => CircuitOK
<1>1. CircuitInit => /\ GlobalIdsCounted /\ PostOrder /\ NeedsOK /\ CopiesOK
                     /\ FirstBuildExecutable /\ PlacesOK /\ BuiltOnce
  BY DEF CircuitInit, FinalizerInit, GlobalIdsCounted, PostOrder, NeedsOK, Chain, FirstBuild,
         CopiesOK, LeavesHaveNoId, FirstBuildExecutable, PlacesOK, BuiltOnce
<1>2. CircuitInit => BitsAllowed
  BY DEF CircuitInit, BuilderInit, BitsAllowed
<1> QED BY <1>1, <1>2, FinalizerInitOK, SlotsInit, GeneratorsInit DEF CircuitInit, CircuitOK

LEMMA CircuitOKStep ==
  ASSUME OneBuild, CircuitOK, [BuilderCall \/ build \/ Walk]_finalizeVars
  PROVE  CircuitOK'
<1>1. /\ TypeOK' /\ StackOK' /\ GlobalIdsCounted' /\ PostOrder' /\ SlotsOK' /\ NeedsOK'
      /\ FirstBuildExecutable' /\ CopiesOK' /\ PlacesOK'
  BY FinalizerStepOK, PostOrderStep, SlotsStep, NeedsStep, ExecutableStep, CopiesStep,
     PlacesStep DEF CircuitOK
<1>2. CASE BuilderCall
  <2>1. ConstantsOK' /\ BitsAllowed'
    BY <1>2, ConstantsCallOK, BitsCallOK DEF BuilderCall, CircuitOK, TypeOK
  <2>2. BuiltOnce'
    BY <1>2 DEF BuilderCall, OneBuild, CircuitOK, BuiltOnce, TypeOK
  <2> QED BY <1>1, <2>1, <2>2 DEF CircuitOK
<1>3. CASE UNCHANGED builderVars
  <2>1. ConstantsOK' /\ BitsAllowed'
    BY <1>3 DEF builderVars, CircuitOK, ConstantsOK, BitsAllowed, Pointers
  <2>2. BuiltOnce'
    <3>1. CASE build
      BY <3>1 DEF build, OneBuild, CircuitOK, BuiltOnce, TypeOK
    <3>2. CASE Walk
      BY <3>2 DEF CircuitOK, BuiltOnce, Walk, Walking, visit_generator, visit_assertion,
         visit_output, visit_op, return_target, emit_operation, finish_generator,
         finish_assertion, finish_output, finish_build
    <3>3. CASE BuilderCall
      BY <3>3 DEF BuilderCall, OneBuild, CircuitOK, BuiltOnce, TypeOK
    <3>4. CASE UNCHANGED finalizeVars
      BY <3>4 DEF finalizeVars, CircuitOK, BuiltOnce
    <3> QED BY <3>1, <3>2, <3>3, <3>4
  <2> QED BY <1>1, <2>1, <2>2 DEF CircuitOK
<1>4. Walk => UNCHANGED builderVars
  BY StackMoves DEF CircuitOK
<1> QED BY <1>2, <1>3, <1>4 DEF build, finalizeVars

-----------------------------------------------------------------------------
(* Its operations                                                          *)

\* What there is to know of the k-th operation: it is a node's.
OperationOf(k, p) ==
  /\ p \in Emitted /\ p \in Pointers
  /\ ops[p] \in Node /\ NodeOK(p)
  /\ ops[p].op_type \notin {"INPUT", "GENERATOR_INPUT"}
  /\ global_target_id[p] = FirstSlot + k - 1
  /\ Operations[k].op_type = ops[p].op_type
  /\ Operations[k].constant_inputs = ops[p].constants
  /\ DOMAIN Operations[k].target_inputs = DOMAIN ops[p].inputs
  /\ DOMAIN ops[p].inputs = 1 .. Len(ops[p].inputs) /\ Len(ops[p].inputs) \in Nat
  /\ \A i \in DOMAIN ops[p].inputs :
       /\ Operations[k].target_inputs[i] = TargetOf(ops[p].inputs[i])
       /\ Operations[k].target_inputs[i] \in Nat
  /\ target_id[p] = Slot(k)

\* An emitted node's operation stands at its place.
LEMMA NodeOfPlace ==
  ASSUME CircuitOK, phase = "built", NEW p \in Emitted
  PROVE  Place(p) \in 1 .. Len(Operations) /\ OperationOf(Place(p), p)
<1>1. FirstBuild
  BY DEF CircuitOK, BuiltOnce, FirstBuild
<1>2. PICK k \in 1 .. Len(Operations) : k = Place(p)
  BY <1>1 DEF CircuitOK, PlacesOK
<1>3. Operations[k].constant_inputs = ops[p].constants
  BY <1>1, <1>2 DEF CircuitOK, PlacesOK
<1>4. /\ DOMAIN target_id = Emitted /\ p \in Pointers /\ global_target_id[p] \in Nat
      /\ FirstSlot \in Nat
  BY DEF CircuitOK, TypeOK, Emitted, FirstSlot, FCircuit
<1>5. global_target_id[p] = FirstSlot + k - 1
  BY <1>2, <1>4 DEF Place
<1>6. /\ Operations[k].op_type = ops[p].op_type
      /\ Slot(k) = target_id[p]
      /\ Len(Operations[k].target_inputs) = Len(ops[p].inputs)
      /\ \A i \in 1 .. Len(ops[p].inputs) :
           Operations[k].target_inputs[i] = TargetOf(ops[p].inputs[i])
  <2>1. SlotOf(p)
    BY <1>1 DEF CircuitOK, SlotsOK, IdsAreSlots, SlotOf, FirstBuild
  <2>2. global_target_id[p] - FirstSlot + 1 = k
    BY <1>2 DEF Place
  <2> QED BY <2>1, <2>2 DEF SlotOf
<1>7. ops[p].op_type \notin {"INPUT", "GENERATOR_INPUT"}
  BY <1>4 DEF CircuitOK, CopiesOK, LeavesHaveNoId
<1>8. ops[p] \in Node /\ NodeOK(p)
  BY <1>4, NodeInputs DEF CircuitOK, TypeOK
<1>9. DOMAIN ops[p].inputs = 1 .. Len(ops[p].inputs) /\ Len(ops[p].inputs) \in Nat
  <2>1. ops[p].inputs \in Seq(Nat)
    BY <1>8 DEF Node
  <2> QED BY <2>1, LenProperties
<1>10. Operations[k].target_inputs \in Seq(Nat)
  <2>1. Operations \in Seq(FOperation)
    BY DEF CircuitOK, TypeOK, FCircuit, Operations
  <2>2. Operations[k] \in FOperation
    BY <2>1, ElementOfSeq
  <2> QED BY <2>2 DEF FOperation
<1>11. /\ DOMAIN Operations[k].target_inputs = DOMAIN ops[p].inputs
       /\ \A i \in DOMAIN ops[p].inputs : Operations[k].target_inputs[i] \in Nat
  <2>1. DOMAIN Operations[k].target_inputs = 1 .. Len(Operations[k].target_inputs)
    BY <1>10, LenProperties
  <2>2. \A i \in 1 .. Len(Operations[k].target_inputs) : Operations[k].target_inputs[i] \in Nat
    BY <1>10, ElementOfSeq
  <2> QED BY <1>6, <1>9, <2>1, <2>2
<1>12. OperationOf(k, p)
  BY <1>3, <1>4, <1>5, <1>6, <1>7, <1>8, <1>9, <1>11 DEF OperationOf
<1> QED BY <1>2, <1>12

\* So every operation is the one of a node.
LEMMA OperationsAreNodes ==
  ASSUME CircuitOK, phase = "built", NEW k \in 1 .. Len(Operations)
  PROVE  \E p : OperationOf(k, p)
<1>1. PICK p \in Emitted : Place(p) = k
  BY DEF CircuitOK, PlacesOK, BuiltOnce, FirstBuild
<1> QED BY <1>1, NodeOfPlace

-----------------------------------------------------------------------------
(* Its slots                                                               *)

\* The number of slots of each kind the first k operations write.
ScalarsIn(k) == Cardinality(Passed(k + 1, FALSE))
VectorsIn(k) == Cardinality(Passed(k + 1, TRUE))

LEMMA PassedNext ==
  ASSUME NEW k \in Nat, NEW vector \in BOOLEAN
  PROVE  Cardinality(Passed(k + 2, vector)) =
           IF IsVector(Operations[k + 1].op_type) = vector
           THEN Cardinality(Passed(k + 1, vector)) + 1 ELSE Cardinality(Passed(k + 1, vector))
<1>1. /\ Passed(k + 1, vector) = {j \in 1 .. k : IsVector(Operations[j].op_type) = vector}
      /\ Passed(k + 2, vector) = {j \in 1 .. k + 1 : IsVector(Operations[j].op_type) = vector}
  BY DEF Passed
<1>2. IsFiniteSet(Passed(k + 1, vector)) /\ Cardinality(Passed(k + 1, vector)) \in Nat
  BY PassedFinite
<1>3. k + 1 \notin Passed(k + 1, vector)
  BY <1>1
<1>4. CASE IsVector(Operations[k + 1].op_type) = vector
  <2>1. Passed(k + 2, vector) = Passed(k + 1, vector) \cup {k + 1}
    BY <1>1, <1>4
  <2>2. Cardinality(Passed(k + 2, vector)) = Cardinality(Passed(k + 1, vector)) + 1
    BY <1>2, <1>3, <2>1, FS_AddElement
  <2> QED BY <1>4, <2>2
<1>5. CASE IsVector(Operations[k + 1].op_type) # vector
  <2>1. Passed(k + 2, vector) = Passed(k + 1, vector)
    BY <1>1, <1>5
  <2> QED BY <1>5, <2>1
<1> QED BY <1>4, <1>5

LEMMA SlotsNext ==
  ASSUME NEW k \in Nat
  PROVE  /\ ScalarsIn(0) = 0 /\ VectorsIn(0) = 0
         /\ ScalarsIn(k) \in Nat /\ VectorsIn(k) \in Nat
         /\ IsVector(Operations[k + 1].op_type) =>
              VectorsIn(k + 1) = VectorsIn(k) + 1 /\ ScalarsIn(k + 1) = ScalarsIn(k)
         /\ ~IsVector(Operations[k + 1].op_type) =>
              VectorsIn(k + 1) = VectorsIn(k) /\ ScalarsIn(k + 1) = ScalarsIn(k) + 1
<1>1. ScalarsIn(0) = 0 /\ VectorsIn(0) = 0
  <2>1. Passed(0 + 1, FALSE) = {} /\ Passed(0 + 1, TRUE) = {}
    BY DEF Passed
  <2> QED BY <2>1, FS_EmptySet DEF ScalarsIn, VectorsIn
<1>2. ScalarsIn(k) \in Nat /\ VectorsIn(k) \in Nat
  <2>1. PICK n \in Nat : n = k + 1
    OBVIOUS
  <2> QED BY <2>1, PassedFinite DEF ScalarsIn, VectorsIn
<1>3. k + 1 + 1 = k + 2
  OBVIOUS
<1>4. Cardinality(Passed(k + 2, TRUE)) =
        IF IsVector(Operations[k + 1].op_type) = TRUE
        THEN Cardinality(Passed(k + 1, TRUE)) + 1 ELSE Cardinality(Passed(k + 1, TRUE))
  BY PassedNext
<1>5. Cardinality(Passed(k + 2, FALSE)) =
        IF IsVector(Operations[k + 1].op_type) = FALSE
        THEN Cardinality(Passed(k + 1, FALSE)) + 1 ELSE Cardinality(Passed(k + 1, FALSE))
  BY PassedNext
<1>6. VectorsIn(k + 1) = IF IsVector(Operations[k + 1].op_type) THEN VectorsIn(k) + 1
                         ELSE VectorsIn(k)
  BY <1>3, <1>4 DEF VectorsIn, IsVector
<1>7. ScalarsIn(k + 1) = IF IsVector(Operations[k + 1].op_type) THEN ScalarsIn(k)
                         ELSE ScalarsIn(k) + 1
  BY <1>3, <1>5 DEF ScalarsIn, IsVector
<1> QED BY <1>1, <1>2, <1>6, <1>7

LEMMA SlotsGrow ==
  ASSUME NEW j \in Nat, NEW k \in Nat, j <= k
  PROVE  ScalarsIn(j) <= ScalarsIn(k) /\ VectorsIn(j) <= VectorsIn(k)
<1>1. /\ Passed(j + 1, TRUE) \in SUBSET Passed(k + 1, TRUE)
      /\ Passed(j + 1, FALSE) \in SUBSET Passed(k + 1, FALSE)
  BY DEF Passed
<1>2. IsFiniteSet(Passed(k + 1, TRUE)) /\ IsFiniteSet(Passed(k + 1, FALSE))
  <2>1. PICK n \in Nat : n = k + 1
    OBVIOUS
  <2> QED BY <2>1, PassedFinite
<1> QED BY <1>1, <1>2, FS_Subset DEF ScalarsIn, VectorsIn

\* Every operation writes a slot of one of the kinds.
LEMMA SlotsInAll ==
  ASSUME NEW k \in Nat
  PROVE  VectorsIn(k) + ScalarsIn(k) = k
<1> DEFINE V == Passed(k + 1, TRUE)
           S == Passed(k + 1, FALSE)
<1>1. V \cup S = 1 .. k /\ V \cap S = {}
  BY DEF Passed, IsVector
<1>2. IsFiniteSet(V) /\ IsFiniteSet(S) /\ Cardinality(V) \in Nat /\ Cardinality(S) \in Nat
  <2>1. PICK n \in Nat : n = k + 1
    OBVIOUS
  <2> QED BY <2>1, PassedFinite
<1> HIDE DEF V, S
<1>3. Cardinality(V \cup S) = Cardinality(V) + Cardinality(S) - Cardinality(V \cap S)
  BY <1>2, FS_Union
<1>4. Cardinality(1 .. k) = k /\ Cardinality({}) = 0
  <2>1. Cardinality(1 .. k) = IF 1 > k THEN 0 ELSE k - 1 + 1
    BY FS_Interval
  <2> QED BY <2>1, FS_EmptySet
<1>5. Cardinality(V) + Cardinality(S) = k
  <2>1. Cardinality(V) + Cardinality(S) - 0 = k
    BY <1>1, <1>3, <1>4
  <2> QED BY <1>2, <2>1
<1> QED BY <1>5 DEF VectorsIn, ScalarsIn, V, S

\* The slot the k-th operation writes.
LEMMA SlotWritten ==
  ASSUME NEW k \in Nat
  PROVE  Slot(k + 1) = IF IsVector(Operations[k + 1].op_type) THEN VectorsIn(k)
                       ELSE FirstSlot + ScalarsIn(k)
<1>1. IsVector(Operations[k + 1].op_type) = TRUE \/ IsVector(Operations[k + 1].op_type) = FALSE
  BY DEF IsVector
<1> QED BY <1>1, SlotCounts DEF VectorsIn, ScalarsIn

LEMMA FirstSlotIsNat == ASSUME CircuitOK PROVE FirstSlot \in Nat /\ Len(Operations) \in Nat
BY LenProperties DEF CircuitOK, TypeOK, FirstSlot, FCircuit, Operations

\* What the first operations define is in the slots they write.
LEMMA DefinedScalar ==
  ASSUME CircuitOK, NEW k \in Nat, NEW id \in Nat, DefinedBefore(k + 1, FALSE, id)
  PROVE  id < FirstSlot + ScalarsIn(k)
<1>1. PICK first \in Nat : first = FirstSlot
  BY FirstSlotIsNat
<1>2. ScalarsIn(k) \in Nat
  BY SlotsNext
<1>3. ASSUME NEW i \in Nat, i < k, ~IsVector(Operations[i + 1].op_type), Slot(i + 1) = id
      PROVE  id < first + ScalarsIn(k)
  <2>1. id = first + ScalarsIn(i) /\ ScalarsIn(i) \in Nat /\ ScalarsIn(i + 1) = ScalarsIn(i) + 1
    BY <1>1, <1>3, SlotWritten, SlotsNext
  <2>2. ScalarsIn(i + 1) <= ScalarsIn(k)
    BY <1>3, SlotsGrow
  <2> QED BY <1>2, <2>1, <2>2
<1>4. ASSUME NEW j \in 1 .. (k + 1) - 1, IsVector(Operations[j].op_type) = FALSE, Slot(j) = id
      PROVE  id < first + ScalarsIn(k)
  <2>1. j - 1 \in Nat /\ j - 1 < k /\ j = (j - 1) + 1
    OBVIOUS
  <2> QED BY <1>3, <1>4, <2>1
<1>5. id < FirstSlot => id < FirstSlot + ScalarsIn(k)
  <2>1. id < first => id < first + ScalarsIn(k)
    BY <1>2
  <2> QED BY <1>1, <2>1
<1>6. \/ id < FirstSlot
      \/ \E j \in 1 .. (k + 1) - 1 : IsVector(Operations[j].op_type) = FALSE /\ Slot(j) = id
  BY DEF DefinedBefore
<1> QED BY <1>1, <1>4, <1>5, <1>6

LEMMA DefinedVector ==
  ASSUME CircuitOK, NEW k \in Nat, NEW id \in Nat, DefinedBefore(k + 1, TRUE, id)
  PROVE  id < VectorsIn(k)
<1>1. VectorsIn(k) \in Nat
  BY SlotsNext
<1>2. ASSUME NEW i \in Nat, i < k, IsVector(Operations[i + 1].op_type), Slot(i + 1) = id
      PROVE  id < VectorsIn(k)
  <2>1. id = VectorsIn(i) /\ VectorsIn(i) \in Nat /\ VectorsIn(i + 1) = VectorsIn(i) + 1
    BY <1>2, SlotWritten, SlotsNext
  <2>2. VectorsIn(i + 1) <= VectorsIn(k)
    BY <1>2, SlotsGrow
  <2> QED BY <1>1, <2>1, <2>2
<1>3. ASSUME NEW j \in 1 .. (k + 1) - 1, IsVector(Operations[j].op_type) = TRUE, Slot(j) = id
      PROVE  id < VectorsIn(k)
  <2>1. j - 1 \in Nat /\ j - 1 < k /\ j = (j - 1) + 1
    OBVIOUS
  <2> QED BY <1>2, <1>3, <2>1
<1> QED BY <1>3 DEF DefinedBefore

\* The operands of an operation are in slots written before it; an element is
\* one the vector has.
LEMMA OperandsAreWritten ==
  ASSUME CircuitOK, phase = "built", NEW k \in Nat, k < Len(Operations),
         NEW p, OperationOf(k + 1, p), NEW i \in DOMAIN ops[p].inputs,
         NEW id, id = Operations[k + 1].target_inputs[i]
  PROVE  /\ id \in Nat
         /\ ops[p].op_type = "TARGET_AT" => id < VectorsIn(k)
         /\ ops[p].op_type # "TARGET_AT" => id < FirstSlot + ScalarsIn(k)
<1>1. id \in Nat
  BY DEF OperationOf
<1>2. k + 1 \in 1 .. Len(Operations)
  BY FirstSlotIsNat
<1>3. DefinedBefore(k + 1, ops[p].op_type = "TARGET_AT", id)
  BY <1>1, <1>2 DEF CircuitOK, FirstBuildExecutable, OperationsHaveInputs, BuiltOnce, OperationOf
<1>4. CASE ops[p].op_type = "TARGET_AT"
  <2>1. (ops[p].op_type = "TARGET_AT") = TRUE
    BY <1>4
  <2>2. DefinedBefore(k + 1, TRUE, id)
    BY <1>3, <2>1
  <2> QED BY <1>1, <1>4, <2>2, DefinedVector
<1>5. CASE ops[p].op_type # "TARGET_AT"
  <2>1. (ops[p].op_type = "TARGET_AT") = FALSE
    BY <1>5
  <2>2. DefinedBefore(k + 1, FALSE, id)
    BY <1>3, <2>1
  <2> QED BY <1>1, <1>5, <2>2, DefinedScalar
<1> QED BY <1>4, <1>5

\* What assertions, outputs and generators refer to are slots of the circuit.
LEMMA RootsAreWritten ==
  ASSUME CircuitOK, NEW id \in Nat, DefinedBefore(Len(Operations) + 1, FALSE, id)
  PROVE  id \in 0 .. FirstSlot + ScalarSlots - 1
<1>1. PICK n \in Nat : n = Len(Operations)
  BY FirstSlotIsNat
<1>2. DefinedBefore(n + 1, FALSE, id)
  BY <1>1
<1>3. id < FirstSlot + ScalarsIn(n)
  BY <1>2, DefinedScalar
<1>4. PICK first, size \in Nat : first = FirstSlot /\ size = ScalarsIn(n)
  BY FirstSlotIsNat, SlotsNext
<1>5. ScalarSlots = size
  BY <1>1, <1>4 DEF ScalarSlots, ScalarsIn
<1> QED BY <1>3, <1>4, <1>5

\* The size of the evaluator's vectors.
LEMMA SlotsOfCircuit ==
  ASSUME CircuitOK, phase = "built"
  PROVE  /\ Len(Operations) \in Nat /\ FirstSlot \in Nat
         /\ ScalarSlots = ScalarsIn(Len(Operations)) /\ ScalarSlots \in Nat
         /\ VectorSlots = VectorsIn(Len(Operations)) /\ VectorSlots \in Nat
         /\ circuit.vector_operation_count = VectorSlots
         /\ Len(Operations) = ScalarSlots + VectorSlots
         /\ circuit.input_target_count = input_target_count /\ input_target_count \in Nat
         /\ FirstSlot = input_target_count + generator_target_count
         /\ generator_target_count \in Nat
<1>1. Len(Operations) \in Nat /\ FirstSlot \in Nat
  BY FirstSlotIsNat
<1>2. PICK n \in Nat : n = Len(Operations)
  BY <1>1
<1>3. VectorsIn(n) + ScalarsIn(n) = n /\ VectorsIn(n) \in Nat /\ ScalarsIn(n) \in Nat
  BY SlotsInAll, SlotsNext
<1>4. ScalarSlots = ScalarsIn(n) /\ VectorSlots = VectorsIn(n)
  BY <1>2 DEF ScalarSlots, VectorSlots, ScalarsIn, VectorsIn
<1>5. FirstBuild
  BY DEF CircuitOK, BuiltOnce, FirstBuild
<1>6. /\ circuit.vector_operation_count = VectorSlots
      /\ circuit.input_target_count = input_target_count
      /\ circuit.generator_target_count = generator_target_count
  BY <1>5 DEF CircuitOK, SlotsOK, CountersOK, FirstBuild
<1>7. input_target_count \in Nat /\ generator_target_count \in Nat
  BY DEF CircuitOK, TypeOK, HeapOK
<1>8. FirstSlot = input_target_count + generator_target_count
  BY <1>6 DEF FirstSlot
<1>9. ScalarSlots \in Nat /\ VectorSlots \in Nat /\ Len(Operations) = ScalarSlots + VectorSlots
  BY <1>2, <1>3, <1>4
<1>10. ScalarSlots = ScalarsIn(Len(Operations)) /\ VectorSlots = VectorsIn(Len(Operations))
  BY <1>2, <1>4
<1> QED BY <1>1, <1>6, <1>7, <1>8, <1>9, <1>10

-----------------------------------------------------------------------------
(* The words in the slots                                                  *)

TargetSlots == 0 .. FirstSlot + ScalarSlots - 1

\* What the program works with is in S: the inputs, the constants (powers of two
\* among them) and what the hash makes of words of S.
WordsFit(S) ==
  /\ InputWords \cup Literals \subseteq S
  /\ \A bits \in GeneratorBits : \A i \in 0 .. bits - 1 : 2 ^ i \in S \ {0}
  /\ \A n \in Nat : \A words \in [1 .. n -> S] : Poseidon(words) \in [1 .. HASH_SIZE -> S]

\* The operators of Felt do not leave the words, nor the reduced words.
LEMMA OperatorsClosed ==
  ASSUME NEW S \in {Words, Canonical}
  PROVE  /\ S \subseteq Words /\ S \subseteq Nat /\ 0 \in S /\ 1 \in S
         /\ \A a, b \in S : add(a, b) \in S /\ sub(a, b) \in S /\ mul(a, b) \in S
<1>1. Canonical \subseteq Words /\ Words \subseteq Nat /\ 0 \in Canonical /\ 1 \in Canonical
  BY Sizes DEF Words, Canonical
<1>2. \A a, b \in Words : add(a, b) \in Canonical /\ mul(a, b) \in Canonical /\ sub(a, b) \in Words
  BY AddIsOfField, MulIsOfField, SubIsOfField
<1>3. \A a, b \in Canonical : sub(a, b) \in Canonical
  BY <1>1, SubIsOfField
<1>4. CASE S = Words
  BY <1>1, <1>2, <1>4
<1>5. CASE S = Canonical
  BY <1>1, <1>2, <1>3, <1>5
<1> QED BY <1>4, <1>5

LEMMA CoefficientsFit ==
  ASSUME NEW S \in {Words, Canonical}, WordsFit(S)
  PROVE  Coefficients \subseteq S
<1>1. 0 \in S /\ 1 \in S
  BY OperatorsClosed
<1>2. ASSUME NEW bits \in GeneratorBits, NEW i \in 1 .. bits - 1
      PROVE  2 ^ i \in S
  <2>1. i \in 0 .. bits - 1
    OBVIOUS
  <2> QED BY <2>1 DEF WordsFit
<1> QED BY <1>1, <1>2 DEF Coefficients, WordsFit

\* What an element of S becomes when a generator takes it apart.
LEMMA BitsFit ==
  ASSUME NEW S \in {Words, Canonical}, WordsFit(S), NEW word \in S, NEW bits \in GeneratorBits,
         NEW i \in 0 .. bits - 1
  PROVE  (word \div 2 ^ i) % 2 \in S
<1>1. word \in Nat /\ 2 ^ i \in Nat \ {0} /\ 0 \in S /\ 1 \in S
  BY OperatorsClosed DEF WordsFit
<1>2. PICK power \in Nat \ {0} : power = 2 ^ i
  BY <1>1
<1>3. word \div power \in Int
  BY <1>1, <1>2
<1>4. PICK x \in Int : x = word \div power
  BY <1>3
<1>5. x % 2 \in {0, 1}
  OBVIOUS
<1> QED BY <1>1, <1>2, <1>4, <1>5

\* The indices are those of the operations passed, the slots hold words, and
\* the vectors passed are there.
EvalOK(S) ==
  /\ outcome \in {"none", "ready", "running", "returned", "threw"}
  /\ outcome = "none" => targets = <<>>
  /\ outcome # "none" =>
       /\ phase = "built"
       /\ targets \in [TargetSlots -> S]
       /\ DOMAIN vec_targets = 0 .. VectorSlots - 1
  /\ outcome \in {"none", "ready"} => op_index = 0 /\ current_generator = 0
  /\ outcome \notin {"none", "ready"} =>
       /\ op_index \in 0 .. Len(Operations)
       /\ current_generator \in 0 .. Len(circuit.generators)
       /\ vec_index = VectorsIn(op_index)
       /\ target_index = FirstSlot + ScalarsIn(op_index)
       /\ gen_target_index \in Nat
       /\ input_target_count <= gen_target_index
       /\ gen_target_index <= input_target_count + Outputs(current_generator)
       /\ \A id \in 0 .. vec_index - 1 : vec_targets[id] \in [1 .. HASH_SIZE -> S]

\* What is known of a generator of the circuit.
LEMMA GeneratorOfCircuit ==
  ASSUME CircuitOK, phase = "built", NEW g \in 1 .. Len(circuit.generators)
  PROVE  /\ g \in 1 .. Len(generators)
         /\ GeneratorCopied(g)
         /\ generators[g].num_outputs \in GeneratorBits
         /\ generators[g].inputs[1] \in Pointers /\ Resolved(generators[g].inputs[1])
         /\ circuit.generators[g].constant_inputs[1] = generators[g].num_outputs
         /\ circuit.generators[g].target_inputs[1] = TargetOf(generators[g].inputs[1])
         /\ circuit.generators[g].target_inputs[1] \in TargetSlots
<1>1. FirstBuild
  BY DEF CircuitOK, BuiltOnce, FirstBuild
<1>2. Len(circuit.generators) <= Len(generators) /\ GeneratorCopied(g)
  BY <1>1 DEF CircuitOK, CopiesOK, RootsCopied
<1>3. Len(circuit.generators) \in Nat /\ Len(generators) \in Nat
  BY OutputsAreNat, LenProperties DEF CircuitOK, TypeOK, FCircuit
<1>4. g \in 1 .. Len(generators)
  BY <1>2, <1>3
<1>5. /\ circuit.generators[g].constant_inputs[1] = generators[g].num_outputs
      /\ circuit.generators[g].target_inputs[1] = TargetOf(generators[g].inputs[1])
      /\ Len(circuit.generators[g].target_inputs) = 1
  BY <1>2 DEF GeneratorCopied
<1>6. generators[g].num_outputs \in GeneratorBits
  BY <1>4 DEF CircuitOK, BitsAllowed
<1>7. generators[g].inputs \in [1 .. 1 -> ScalarNodes]
  BY <1>4 DEF CircuitOK, TypeOK, HeapOK, RootsOK
<1>8. generators[g].inputs[1] \in Pointers
  BY <1>7, ScalarsAreNodes
<1>9. Resolved(generators[g].inputs[1])
  BY <1>1, <1>7 DEF CircuitOK, NeedsOK, LoopsInOrder
<1>10. 1 \in DOMAIN circuit.generators[g].target_inputs
  BY <1>2 DEF GeneratorCopied
<1>11. DefinedBefore(Len(Operations) + 1, FALSE, circuit.generators[g].target_inputs[1])
  BY <1>1, <1>10 DEF CircuitOK, FirstBuildExecutable, FirstBuild
<1>12. circuit.generators[g].target_inputs[1] \in Nat
  BY <1>5, <1>8, <1>9, TargetOfResolved DEF CircuitOK, TypeOK
<1>13. circuit.generators[g].target_inputs[1] \in TargetSlots
  BY <1>11, <1>12, RootsAreWritten DEF TargetSlots
<1> QED BY <1>2, <1>4, <1>5, <1>6, <1>8, <1>9, <1>13

\* A generator that is run leaves words in the slots.
LEMMA GeneratorWritesWords ==
  ASSUME CircuitOK, phase = "built", NEW S \in {Words, Canonical}, WordsFit(S),
         targets \in [TargetSlots -> S], NEW g \in 1 .. Len(circuit.generators),
         gen_target_index \in Nat
  PROVE  /\ eval_generator(g) \in [TargetSlots -> S]
         /\ \A id \in TargetSlots : eval_generator(g)[id] =
              IF id \in gen_target_index .. gen_target_index + generators[g].num_outputs - 1
              THEN (targets[TargetOf(generators[g].inputs[1])]
                      \div 2 ^ (id - gen_target_index)) % 2
              ELSE targets[id]
<1>1. PICK bits \in GeneratorBits, word \in S, first \in Nat :
        /\ bits = generators[g].num_outputs
        /\ word = targets[TargetOf(generators[g].inputs[1])]
        /\ first = gen_target_index
        /\ circuit.generators[g].constant_inputs[1] = bits
        /\ targets[circuit.generators[g].target_inputs[1]] = word
  <2>1. targets[circuit.generators[g].target_inputs[1]] \in S
    BY GeneratorOfCircuit
  <2> QED BY <2>1, GeneratorOfCircuit
<1>2. PICK B : B = evaluate(word, bits)
  OBVIOUS
<1>3. bits \in Nat \ {0}
  BY AuthorAssumption
<1>4. B = [i \in 1 .. bits |-> (word \div 2 ^ (i - 1)) % 2]
  BY <1>2 DEF evaluate
<1>5. \A i \in 0 .. bits - 1 : (word \div 2 ^ i) % 2 \in S
  BY BitsFit
<1>6. B \in Seq(S) /\ Len(B) = bits
  <2>1. B \in [1 .. bits -> S]
    <3>1. \A i \in 1 .. bits : i - 1 \in 0 .. bits - 1
      BY <1>3
    <3> QED BY <1>4, <1>5, <3>1
  <2> QED BY <1>3, <2>1, SeqDef
<1>7. eval_generator(g) = [id \in DOMAIN targets |->
        IF id \in first .. first + Len(B) - 1 THEN B[id - first + 1] ELSE targets[id]]
  BY <1>1, <1>2 DEF eval_generator
<1>8. ASSUME NEW id \in TargetSlots
      PROVE  /\ eval_generator(g)[id] \in S
             /\ eval_generator(g)[id] =
                  IF id \in first .. first + bits - 1 THEN (word \div 2 ^ (id - first)) % 2
                  ELSE targets[id]
  <2>1. eval_generator(g)[id] = IF id \in first .. first + bits - 1 THEN B[id - first + 1]
                                ELSE targets[id]
    BY <1>6, <1>7
  <2>2. CASE id \in first .. first + bits - 1
    <3>1. PICK i \in 0 .. bits - 1 : i = id - first
      BY <1>3, <2>2
    <3>2. i + 1 \in 1 .. bits /\ (i + 1) - 1 = i
      BY <1>3
    <3>3. B[i + 1] = (word \div 2 ^ i) % 2
      BY <1>4, <3>2
    <3> QED BY <1>5, <2>1, <2>2, <3>1, <3>3
  <2>3. CASE id \notin first .. first + bits - 1
    BY <2>1, <2>3
  <2> QED BY <2>2, <2>3
<1>9. eval_generator(g) \in [TargetSlots -> S]
  <2>1. DOMAIN targets = TargetSlots
    OBVIOUS
  <2> QED BY <1>7, <1>8, <2>1
<1> QED BY <1>1, <1>8, <1>9

-----------------------------------------------------------------------------
(* An iteration of the loop                                                *)

\* The types of operations an FCircuit has, and their operands.
LEMMA OperandSlots ==
  ASSUME CircuitOK, phase = "built", NEW k \in Nat, k < Len(Operations),
         NEW p, OperationOf(k + 1, p)
  PROVE  /\ ops[p].op_type \in BinaryOps \cup {"CONSTANT", "NEG", "TARGET_AT", "POSEIDON_HASH"}
         /\ DOMAIN ops[p].inputs =
              1 .. IF IsVector(ops[p].op_type) THEN Len(ops[p].inputs) ELSE Arity(ops[p].op_type)
         /\ ops[p].op_type # "TARGET_AT" =>
              \A i \in DOMAIN ops[p].inputs : Operations[k + 1].target_inputs[i] \in TargetSlots
         /\ ops[p].op_type = "TARGET_AT" =>
              /\ Operations[k + 1].target_inputs[1] \in 0 .. VectorsIn(k) - 1
              /\ ops[p].constants[1] + 1 \in 1 .. HASH_SIZE
<1>1. ops[p].op_type \in BinaryOps \cup {"CONSTANT", "NEG", "TARGET_AT", "POSEIDON_HASH"}
  BY DEF OperationOf, Node, OpType
<1>2. DOMAIN ops[p].inputs =
        1 .. IF IsVector(ops[p].op_type) THEN Len(ops[p].inputs) ELSE Arity(ops[p].op_type)
  BY DEF OperationOf, NodeOK
<1>3. ASSUME ops[p].op_type # "TARGET_AT", NEW i \in DOMAIN ops[p].inputs
      PROVE  Operations[k + 1].target_inputs[i] \in TargetSlots
  <2>1. PICK id : id = Operations[k + 1].target_inputs[i]
    OBVIOUS
  <2>2. id \in Nat /\ id < FirstSlot + ScalarsIn(k)
    BY <1>3, <2>1, OperandsAreWritten
  <2>3. PICK first, written, all, n \in Nat :
          first = FirstSlot /\ written = ScalarsIn(k) /\ all = ScalarSlots /\ n = Len(Operations)
    BY SlotsOfCircuit, SlotsNext
  <2>4. written <= all
    BY <2>3, SlotsGrow, SlotsOfCircuit
  <2>5. id \in 0 .. first + all - 1
    BY <2>2, <2>3, <2>4
  <2> QED BY <2>1, <2>3, <2>5 DEF TargetSlots
<1>4. ASSUME ops[p].op_type = "TARGET_AT"
      PROVE  /\ Operations[k + 1].target_inputs[1] \in 0 .. VectorsIn(k) - 1
             /\ ops[p].constants[1] + 1 \in 1 .. HASH_SIZE
  <2>1. 1 \in DOMAIN ops[p].inputs
    BY <1>2, <1>4 DEF Arity, IsVector, BinaryOps
  <2>2. /\ Operations[k + 1].target_inputs[1] \in Nat
        /\ Operations[k + 1].target_inputs[1] < VectorsIn(k)
    BY <1>4, <2>1, OperandsAreWritten
  <2>3. VectorsIn(k) \in Nat
    BY SlotsNext
  <2>4. ops[p].constants[1] \in 0 .. HASH_SIZE - 1
    BY <1>4 DEF OperationOf, NodeOK
  <2> QED BY <2>2, <2>3, <2>4 DEF HASH_SIZE
<1> QED BY <1>1, <1>2, <1>3, <1>4

\* The value of an operation is a word.
LEMMA TargetOpFits ==
  ASSUME CircuitOK, phase = "built", NEW S \in {Words, Canonical}, WordsFit(S),
         NEW k \in Nat, k < Len(Operations), ~IsVector(Operations[k + 1].op_type),
         NEW slots \in [TargetSlots -> S],
         \A id \in 0 .. VectorsIn(k) - 1 : vec_targets[id] \in [1 .. HASH_SIZE -> S]
  PROVE  eval_target_op(Operations[k + 1], slots) \in S
<1>1. k + 1 \in 1 .. Len(Operations)
  BY FirstSlotIsNat
<1>2. PICK p : OperationOf(k + 1, p)
  BY <1>1, OperationsAreNodes
<1>3. PICK op : op = Operations[k + 1]
  OBVIOUS
<1>4. /\ op.op_type = ops[p].op_type /\ op.constant_inputs = ops[p].constants
      /\ p \in Pointers
  BY <1>2, <1>3 DEF OperationOf
<1>5. op.op_type \in BinaryOps \cup {"CONSTANT", "NEG", "TARGET_AT"}
  BY <1>2, <1>3, <1>4, OperandSlots DEF IsVector
<1>6. 0 \in S /\ 1 \in S /\ \A a, b \in S : add(a, b) \in S /\ sub(a, b) \in S /\ mul(a, b) \in S
  BY OperatorsClosed
<1>7. \A condition : Flag(condition) \in S
  BY <1>6 DEF Flag
<1>8. CASE op.op_type \in BinaryOps
  <2>1. slots[op.target_inputs[1]] \in S /\ slots[op.target_inputs[2]] \in S
    <3>1. 1 \in DOMAIN ops[p].inputs /\ 2 \in DOMAIN ops[p].inputs
      BY <1>2, <1>3, <1>4, <1>8, OperandSlots DEF Arity, IsVector, BinaryOps
    <3>2. op.op_type # "TARGET_AT"
      BY <1>8 DEF BinaryOps
    <3> QED BY <1>2, <1>3, <1>4, <3>1, <3>2, OperandSlots
  <2> QED BY <1>3, <1>6, <1>7, <1>8, <2>1 DEF eval_target_op, BinaryOps
<1>9. CASE op.op_type = "NEG"
  BY <1>3, <1>7, <1>9 DEF eval_target_op
<1>10. CASE op.op_type = "CONSTANT"
  <2>1. op.constant_inputs[1] \in Coefficients
    BY <1>4, <1>10 DEF CircuitOK, ConstantsOK
  <2> QED BY <1>3, <1>10, <2>1, CoefficientsFit DEF eval_target_op
<1>11. CASE op.op_type = "TARGET_AT"
  <2>1. PICK id \in 0 .. VectorsIn(k) - 1, e \in 1 .. HASH_SIZE :
          id = op.target_inputs[1] /\ e = op.constant_inputs[1] + 1
    BY <1>2, <1>3, <1>4, <1>11, OperandSlots
  <2>2. vec_targets[id][e] \in S
    BY <2>1
  <2> QED BY <1>3, <1>11, <2>1, <2>2 DEF eval_target_op
<1> QED BY <1>5, <1>8, <1>9, <1>10, <1>11

LEMMA VectorOpFits ==
  ASSUME CircuitOK, phase = "built", NEW S \in {Words, Canonical}, WordsFit(S),
         NEW k \in Nat, k < Len(Operations), IsVector(Operations[k + 1].op_type),
         NEW slots \in [TargetSlots -> S]
  PROVE  eval_vector_op(Operations[k + 1], slots) \in [1 .. HASH_SIZE -> S]
<1>1. k + 1 \in 1 .. Len(Operations)
  BY FirstSlotIsNat
<1>2. PICK p : OperationOf(k + 1, p)
  BY <1>1, OperationsAreNodes
<1>3. PICK op, n : op = Operations[k + 1] /\ n = Len(ops[p].inputs) /\ n \in Nat
  BY <1>2 DEF OperationOf
<1>4. DOMAIN op.target_inputs = 1 .. n /\ ops[p].op_type # "TARGET_AT"
  BY <1>2, <1>3 DEF OperationOf, IsVector
<1>5. \A i \in 1 .. n : slots[op.target_inputs[i]] \in S
  <2>1. DOMAIN ops[p].inputs = 1 .. n
    BY <1>2, <1>3 DEF OperationOf
  <2> QED BY <1>2, <1>3, <1>4, <2>1, OperandSlots
<1>6. PICK words \in [1 .. n -> S] : words = [i \in 1 .. n |-> slots[op.target_inputs[i]]]
  BY <1>5
<1>7. eval_vector_op(op, slots) = Poseidon(words)
  BY <1>4, <1>6 DEF eval_vector_op
<1> QED BY <1>3, <1>6, <1>7 DEF WordsFit

\* The generator that is due exists, and when it has run the slots hold words.
LEMMA DueGenerator ==
  ASSUME CircuitOK, NEW S \in {Words, Canonical}, WordsFit(S), EvalOK(S),
         outcome = "running", op_index < Len(Operations)
  PROVE  /\ op_index \in Nat /\ current_generator \in Nat
         /\ op_index >= min_id => current_generator + 1 \in 1 .. Len(circuit.generators)
         /\ (IF op_index >= min_id THEN eval_generator(current_generator + 1) ELSE targets)
              \in [TargetSlots -> S]
<1>1. /\ phase = "built" /\ op_index \in 0 .. Len(Operations)
      /\ current_generator \in 0 .. Len(circuit.generators)
      /\ targets \in [TargetSlots -> S] /\ gen_target_index \in Nat
  BY DEF EvalOK
<1>2. Len(Operations) \in Nat /\ Len(circuit.generators) \in Nat
  BY FirstSlotIsNat, LenProperties DEF CircuitOK, TypeOK, FCircuit
<1>3. op_index >= min_id => current_generator < Len(circuit.generators)
  BY <1>1, <1>2 DEF min_id, Operations
<1>4. op_index >= min_id => current_generator + 1 \in 1 .. Len(circuit.generators)
  BY <1>1, <1>2, <1>3
<1>5. CASE op_index >= min_id
  BY <1>1, <1>4, <1>5, GeneratorWritesWords
<1>6. CASE ~(op_index >= min_id)
  BY <1>1, <1>6
<1> QED BY <1>1, <1>2, <1>4, <1>5, <1>6

-----------------------------------------------------------------------------
(* Every step keeps the words in the slots                                 *)

\* The evaluator does not touch the circuit.
LEMMA CircuitStays ==
  ASSUME CircuitOK, UNCHANGED finalizeVars
  PROVE  /\ CircuitOK'
         /\ UNCHANGED <<Operations, FirstSlot, ScalarSlots, VectorSlots, TargetSlots, circuit,
                        phase, input_target_count, generators>>
         /\ \A k : ScalarsIn(k)' = ScalarsIn(k) /\ VectorsIn(k)' = VectorsIn(k)
         /\ \A g : Outputs(g)' = Outputs(g)
<1>1. /\ UNCHANGED <<circuit, phase, input_target_count, generators>>
      /\ UNCHANGED <<Operations, FirstSlot>>
  BY DEF finalizeVars, finalizerVars, builderVars, Operations, FirstSlot
<1>2. \A k : ScalarsIn(k)' = ScalarsIn(k) /\ VectorsIn(k)' = VectorsIn(k)
  BY <1>1 DEF ScalarsIn, VectorsIn, Passed
<1>3. UNCHANGED <<ScalarSlots, VectorSlots, TargetSlots>>
  BY <1>1 DEF ScalarSlots, VectorSlots, TargetSlots, Passed
<1>4. \A g : Outputs(g)' = Outputs(g)
  BY <1>1 DEF Outputs, EndOfOutputs
<1>5. CircuitOK'
  <2>1. TypeOK' /\ StackOK' /\ SlotsOK' /\ NeedsOK' /\ FirstBuildExecutable' /\ CopiesOK'
          /\ PlacesOK' /\ GlobalIdsCounted' /\ PostOrder'
    BY FinalizerStepOK, SlotsStep, NeedsStep, ExecutableStep, CopiesStep, PlacesStep,
       PostOrderStep DEF CircuitOK
  <2>2. ConstantsOK' /\ BitsAllowed' /\ BuiltOnce'
    BY DEF finalizeVars, builderVars, CircuitOK, ConstantsOK, BitsAllowed, Pointers, BuiltOnce
  <2> QED BY <2>1, <2>2 DEF CircuitOK
<1> QED BY <1>1, <1>2, <1>3, <1>4, <1>5

\* The outputs of generators lie one behind the other.
LEMMA OutputsNext ==
  ASSUME CircuitOK, NEW g \in 1 .. Len(generators)
  PROVE  /\ Outputs(g - 1) \in Nat /\ Outputs(g) \in Nat /\ generators[g].num_outputs \in Nat
         /\ Outputs(g - 1) + generators[g].num_outputs <= Outputs(g)
         /\ Outputs(g) <= generator_target_count
<1>1. HeapOK /\ OutputsOK
  BY DEF CircuitOK, TypeOK, HeapOK
<1>2. /\ Len(generators) \in Nat /\ generator_target_count \in Nat
      /\ \A h \in 1 .. Len(generators) :
           /\ generators[h].num_outputs \in Nat
           /\ generators[h].start_generator_output_index \in Nat
           /\ EndOfOutputs(h) \in Nat /\ Outputs(h) = EndOfOutputs(h)
      /\ \A h \in 0 .. Len(generators) : Outputs(h) \in Nat
  BY <1>1, OutputsAreNat
<1>3. g - 1 \in 0 .. Len(generators) /\ g \in 0 .. Len(generators)
  BY <1>2
<1>4. EndOfOutputs(g) = generators[g].start_generator_output_index + generators[g].num_outputs
  BY DEF EndOfOutputs
<1>5. Outputs(g - 1) <= generators[g].start_generator_output_index
  <2>1. CASE g = 1
    BY <1>2, <2>1 DEF Outputs
  <2>2. CASE g # 1
    <3>1. g - 1 \in 1 .. Len(generators) /\ g \in (g - 1) + 1 .. Len(generators)
      BY <1>2, <2>2
    <3>2. EndOfOutputs(g - 1) <= generators[g].start_generator_output_index
      BY <1>1, <3>1 DEF OutputsOK
    <3> QED BY <1>2, <3>1, <3>2
  <2> QED BY <2>1, <2>2
<1>6. Outputs(g) <= generator_target_count
  BY <1>1, <1>2 DEF OutputsOK
<1>7. /\ Outputs(g - 1) \in Nat /\ generators[g].num_outputs \in Nat
      /\ generators[g].start_generator_output_index \in Nat
      /\ Outputs(g) = generators[g].start_generator_output_index + generators[g].num_outputs
  BY <1>2, <1>3, <1>4
<1>8. Outputs(g - 1) + generators[g].num_outputs <= Outputs(g)
  BY <1>5, <1>7
<1> QED BY <1>2, <1>3, <1>6, <1>7, <1>8

\* The constructor.
LEMMA EvalOKConstruct ==
  ASSUME CircuitOK, NEW S \in {Words, Canonical}, WordsFit(S), EvalOK(S),
         Construct
  PROVE  EvalOK(S)'
<1>1. PICK n \in Nat : \E in \in [1 .. n -> InputWords] : new_evaluator(in)
  <2>1. input_target_count + 1 \in Nat
    BY DEF CircuitOK, TypeOK, HeapOK
  <2>2. PICK n \in 0 .. input_target_count + 1 : \E in \in [1 .. n -> InputWords] : new_evaluator(in)
    BY DEF Construct
  <2>3. n \in Nat
    BY <2>1
  <2> QED BY <2>2, <2>3
<1> PICK in \in [1 .. n -> InputWords] : new_evaluator(in)
  BY <1>1
<1>2. /\ phase = "built" /\ outcome = "none" /\ outcome' = "ready"
      /\ UNCHANGED <<op_index, current_generator>>
  BY DEF new_evaluator
<1>3. /\ UNCHANGED <<Operations, FirstSlot, ScalarSlots, VectorSlots, TargetSlots, phase>>
  BY CircuitStays DEF Construct
<1>4. Len(circuit.operations) + FirstSlot - circuit.vector_operation_count
        = FirstSlot + ScalarSlots
  BY <1>2, SlotsOfCircuit DEF Operations
<1>5. in \in Seq(InputWords) /\ Len(in) = n
  BY SeqDef
<1>6. targets' = [id \in TargetSlots |-> IF id < n THEN in[id + 1] ELSE 0]
  <2>1. PICK slots : slots = Len(circuit.operations) + FirstSlot - circuit.vector_operation_count
    OBVIOUS
  <2>2. targets' = [id \in 0 .. slots - 1 |-> IF id < n THEN in[id + 1] ELSE 0]
    BY <1>5, <2>1 DEF new_evaluator
  <2>3. 0 .. slots - 1 = TargetSlots
    <3>1. slots = FirstSlot + ScalarSlots
      BY <1>4, <2>1
    <3>2. FirstSlot \in Nat /\ ScalarSlots \in Nat
      BY <1>2, SlotsOfCircuit
    <3>3. slots - 1 = FirstSlot + ScalarSlots - 1
      BY <3>1, <3>2
    <3> QED BY <3>3 DEF TargetSlots
  <2> QED BY <2>2, <2>3
<1>7. \A id \in TargetSlots : (IF id < n THEN in[id + 1] ELSE 0) \in S
  <2>1. TargetSlots \subseteq Nat
    BY <1>2, SlotsOfCircuit DEF TargetSlots
  <2>2. \A id \in Nat : id < n => id + 1 \in 1 .. n
    OBVIOUS
  <2>3. \A i \in 1 .. n : in[i] \in S
    BY DEF WordsFit
  <2>4. 0 \in S
    BY OperatorsClosed
  <2> QED BY <2>1, <2>2, <2>3, <2>4
<1>8. targets' \in [TargetSlots -> S]
  BY <1>6, <1>7
<1>9. DOMAIN vec_targets' = 0 .. VectorSlots - 1
  BY <1>2, SlotsOfCircuit DEF new_evaluator
<1> QED BY <1>2, <1>3, <1>8, <1>9 DEF EvalOK

\* A call begins.
LEMMA EvalOKCall ==
  ASSUME CircuitOK, NEW S \in {Words, Canonical}, EvalOK(S),
         eval_circuit, UNCHANGED finalizeVars
  PROVE  EvalOK(S)'
<1>1. /\ outcome # "none" /\ outcome' = "running" /\ op_index' = 0 /\ current_generator' = 0
      /\ vec_index' = 0 /\ target_index' = FirstSlot
      /\ gen_target_index' = circuit.input_target_count
      /\ UNCHANGED <<targets, vec_targets>>
  BY DEF eval_circuit
<1>2. /\ UNCHANGED <<Operations, FirstSlot, ScalarSlots, VectorSlots, TargetSlots, circuit,
                     phase, input_target_count>>
      /\ \A k : ScalarsIn(k)' = ScalarsIn(k) /\ VectorsIn(k)' = VectorsIn(k)
      /\ \A g : Outputs(g)' = Outputs(g)
  BY CircuitStays
<1>3. phase = "built" /\ targets \in [TargetSlots -> S] /\ DOMAIN vec_targets = 0 .. VectorSlots - 1
  BY <1>1 DEF EvalOK
<1>4. /\ circuit.input_target_count = input_target_count /\ input_target_count \in Nat
      /\ Len(Operations) \in Nat /\ Len(circuit.generators) \in Nat /\ FirstSlot \in Nat
  BY <1>3, SlotsOfCircuit, LenProperties DEF CircuitOK, TypeOK, FCircuit
<1>5. ScalarsIn(0) = 0 /\ VectorsIn(0) = 0 /\ Outputs(0) = 0
  BY SlotsNext DEF Outputs
<1>6. /\ VectorsIn(op_index)' = 0 /\ ScalarsIn(op_index)' = 0 /\ Outputs(current_generator)' = 0
  BY <1>1, <1>2, <1>5
<1> QED BY <1>1, <1>2, <1>3, <1>4, <1>6 DEF EvalOK

\* An iteration of the loop.
LEMMA EvalOKOperation ==
  ASSUME CircuitOK, NEW S \in {Words, Canonical}, WordsFit(S), EvalOK(S),
         eval_operation, UNCHANGED finalizeVars
  PROVE  EvalOK(S)'
<1>1. PICK k, g, slots, op : /\ k = op_index /\ g = current_generator
                             /\ slots = IF op_index >= min_id THEN eval_generator(g + 1) ELSE targets
                             /\ op = Operations[k + 1]
  OBVIOUS
<1>2. /\ outcome = "running" /\ k < Len(Operations) /\ op_index' = k + 1
      /\ UNCHANGED outcome
  BY <1>1 DEF eval_operation, Operations
<1>3. /\ k \in Nat /\ g \in Nat /\ slots \in [TargetSlots -> S]
      /\ op_index >= min_id => g + 1 \in 1 .. Len(circuit.generators)
  BY <1>1, <1>2, DueGenerator
<1>4. /\ phase = "built" /\ DOMAIN vec_targets = 0 .. VectorSlots - 1
      /\ g \in 0 .. Len(circuit.generators)
      /\ vec_index = VectorsIn(k) /\ target_index = FirstSlot + ScalarsIn(k)
      /\ gen_target_index \in Nat /\ input_target_count <= gen_target_index
      /\ gen_target_index <= input_target_count + Outputs(g)
      /\ \A id \in 0 .. VectorsIn(k) - 1 : vec_targets[id] \in [1 .. HASH_SIZE -> S]
  BY <1>1, <1>2 DEF EvalOK
<1>5. /\ UNCHANGED <<Operations, FirstSlot, ScalarSlots, VectorSlots, TargetSlots, circuit,
                     phase, input_target_count>>
      /\ \A i : ScalarsIn(i)' = ScalarsIn(i) /\ VectorsIn(i)' = VectorsIn(i)
      /\ \A i : Outputs(i)' = Outputs(i)
  BY CircuitStays
<1>6. PICK n, first, s, v \in Nat :
        /\ n = Len(Operations) /\ first = FirstSlot /\ s = ScalarsIn(k) /\ v = VectorsIn(k)
  BY <1>3, FirstSlotIsNat, SlotsNext
<1>7. k + 1 \in 0 .. Len(Operations)
  BY <1>2, <1>3, <1>6
\* the generators
<1>8. \E h : /\ current_generator' = h /\ h \in 0 .. Len(circuit.generators)
             /\ gen_target_index' \in Nat /\ input_target_count <= gen_target_index'
             /\ gen_target_index' <= input_target_count + Outputs(h)
  <2>1. CASE op_index >= min_id
    <3>1. /\ current_generator' = g + 1
          /\ gen_target_index' = gen_target_index + circuit.generators[g + 1].constant_inputs[1]
      BY <1>1, <2>1 DEF eval_operation
    <3>2. g + 1 \in 1 .. Len(generators)
          /\ circuit.generators[g + 1].constant_inputs[1] = generators[g + 1].num_outputs
      BY <1>3, <1>4, <2>1, GeneratorOfCircuit
    <3>3. (g + 1) - 1 = g
      BY <1>3
    <3>4. PICK bits, before, after, index, count \in Nat :
            /\ bits = generators[g + 1].num_outputs /\ before = Outputs(g)
            /\ after = Outputs(g + 1) /\ index = gen_target_index /\ count = input_target_count
            /\ before + bits <= after
      BY <1>4, <3>2, <3>3, OutputsNext, SlotsOfCircuit
    <3>5. index + bits \in Nat /\ count <= index + bits /\ index + bits <= count + after
      <4>1. count <= index /\ index <= count + before
        BY <1>4, <3>4
      <4> QED BY <3>4, <4>1
    <3>6. g + 1 \in 0 .. Len(circuit.generators)
      <4>1. PICK length \in Nat : length = Len(circuit.generators)
        BY LenProperties DEF TypeOK, FCircuit, CircuitOK
      <4> QED BY <1>3, <2>1, <4>1
    <3>7. gen_target_index' = index + bits
      BY <3>1, <3>2, <3>4
    <3> QED BY <3>1, <3>4, <3>5, <3>6, <3>7
  <2>2. CASE ~(op_index >= min_id)
    <3>1. UNCHANGED <<current_generator, gen_target_index>>
      BY <2>2 DEF eval_operation
    <3> QED BY <1>1, <1>4, <3>1
  <2> QED BY <2>1, <2>2
\* the slots
<1>9. /\ targets' \in [TargetSlots -> S] /\ DOMAIN vec_targets' = DOMAIN vec_targets
      /\ vec_index' = VectorsIn(k + 1) /\ target_index' = FirstSlot + ScalarsIn(k + 1)
      /\ \A id \in 0 .. VectorsIn(k + 1) - 1 : vec_targets'[id] \in [1 .. HASH_SIZE -> S]
  <2>1. CASE IsVector(op.op_type)
    <3>1. PICK hash \in [1 .. HASH_SIZE -> S] : hash = eval_vector_op(op, slots)
      BY <1>1, <1>2, <1>3, <1>4, <2>1, VectorOpFits
    <3>2. /\ vec_targets' = [vec_targets EXCEPT ![vec_index] = hash]
          /\ vec_index' = vec_index + 1 /\ targets' = slots /\ UNCHANGED target_index
      BY <1>1, <2>1, <3>1 DEF eval_operation, Operations
    <3>3. VectorsIn(k + 1) = v + 1 /\ ScalarsIn(k + 1) = s
      BY <1>1, <1>3, <1>6, <2>1, SlotsNext
    <3>4. v \in 0 .. VectorSlots - 1
      <4>1. VectorsIn(k + 1) <= VectorsIn(n) /\ VectorsIn(n) = VectorSlots /\ VectorSlots \in Nat
        BY <1>3, <1>4, <1>6, <1>7, SlotsGrow, SlotsOfCircuit
      <4> QED BY <3>3, <4>1
    <3>5. ASSUME NEW id \in 0 .. (v + 1) - 1
          PROVE  vec_targets'[id] \in [1 .. HASH_SIZE -> S]
      <4>1. CASE id = v
        BY <1>4, <1>6, <3>1, <3>2, <3>4, <4>1
      <4>2. CASE id # v
        <5>1. id \in 0 .. v - 1 /\ id \in 0 .. VectorSlots - 1
          BY <3>4, <4>2, <1>4, SlotsOfCircuit
        <5>2. vec_targets'[id] = vec_targets[id]
          BY <1>4, <1>6, <3>2, <4>2, <5>1
        <5> QED BY <1>4, <1>6, <5>1, <5>2
      <4> QED BY <4>1, <4>2
    <3> QED BY <1>3, <1>4, <1>6, <3>2, <3>3, <3>5
  <2>2. CASE ~IsVector(op.op_type)
    <3>1. PICK word \in S : word = eval_target_op(op, slots)
      BY <1>1, <1>2, <1>3, <1>4, <2>2, TargetOpFits
    <3>2. /\ targets' = [slots EXCEPT ![target_index] = word]
          /\ target_index' = target_index + 1 /\ UNCHANGED <<vec_targets, vec_index>>
      BY <1>1, <2>2, <3>1 DEF eval_operation, Operations
    <3>3. VectorsIn(k + 1) = VectorsIn(k) /\ ScalarsIn(k + 1) = s + 1
      BY <1>1, <1>3, <1>6, <2>2, SlotsNext
    <3>4. FirstSlot + ScalarsIn(k) + 1 = FirstSlot + ScalarsIn(k + 1)
      <4>1. first + s + 1 = first + (s + 1)
        OBVIOUS
      <4> QED BY <1>6, <3>3, <4>1
    <3> QED BY <1>3, <1>4, <3>1, <3>2, <3>3, <3>4
  <2> QED BY <2>1, <2>2
<1>10. /\ VectorsIn(op_index)' = VectorsIn(k + 1) /\ ScalarsIn(op_index)' = ScalarsIn(k + 1)
  BY <1>2, <1>5
<1>11. /\ current_generator' \in 0 .. Len(circuit.generators)
       /\ gen_target_index' \in Nat /\ input_target_count <= gen_target_index'
       /\ gen_target_index' <= input_target_count + Outputs(current_generator)'
  BY <1>5, <1>8
<1> QED BY <1>2, <1>4, <1>5, <1>7, <1>9, <1>10, <1>11 DEF EvalOK

\* The end of a call, and steps of the author and the build.
LEMMA EvalOKRest ==
  ASSUME CircuitOK, NEW S \in {Words, Canonical}, EvalOK(S),
         \/ return_outputs /\ UNCHANGED finalizeVars
         \/ Compile
         \/ UNCHANGED evalVars
  PROVE  EvalOK(S)'
<1>1. CASE UNCHANGED finalizeVars
           /\ UNCHANGED <<targets, vec_targets, op_index, current_generator, vec_index,
                          target_index, gen_target_index>>
           /\ \/ UNCHANGED outcome
              \/ outcome = "running" /\ outcome' \in {"returned", "threw"}
  <2>1. /\ UNCHANGED <<Operations, FirstSlot, ScalarSlots, VectorSlots, TargetSlots, circuit,
                       phase, input_target_count>>
        /\ \A k : ScalarsIn(k)' = ScalarsIn(k) /\ VectorsIn(k)' = VectorsIn(k)
        /\ \A g : Outputs(g)' = Outputs(g)
    BY <1>1, CircuitStays
  <2>2. /\ VectorsIn(op_index)' = VectorsIn(op_index) /\ ScalarsIn(op_index)' = ScalarsIn(op_index)
        /\ Outputs(current_generator)' = Outputs(current_generator)
    BY <1>1, <2>1
  <2> QED BY <1>1, <2>1, <2>2 DEF EvalOK
<1>2. CASE return_outputs /\ UNCHANGED finalizeVars
  BY <1>1, <1>2 DEF return_outputs
<1>3. CASE Compile
  BY <1>3 DEF Compile, evaluatorVars, EvalOK
<1>4. CASE UNCHANGED evalVars
  BY <1>1, <1>4 DEF evalVars, evaluatorVars
<1> QED BY <1>2, <1>3, <1>4

\* CircuitOK /\ EvalOK(S) is inductive.
LEMMA EvaluatorStepOK ==
  ASSUME OneBuild, NEW S \in {Words, Canonical}, WordsFit(S), CircuitOK, EvalOK(S),
         [EvaluatorNext]_evalVars
  PROVE  CircuitOK' /\ EvalOK(S)'
<1>1. CASE Compile
  BY <1>1, CircuitOKStep, EvalOKRest DEF Compile
<1>2. CASE Construct
  BY <1>2, CircuitStays, EvalOKConstruct DEF Construct
<1>3. CASE eval_circuit /\ UNCHANGED finalizeVars
  BY <1>3, CircuitStays, EvalOKCall
<1>4. CASE Evaluate
  BY <1>4, CircuitStays, EvalOKOperation, EvalOKRest DEF Evaluate
<1>5. CASE UNCHANGED evalVars
  BY <1>5, CircuitStays, EvalOKRest DEF evalVars
<1> QED BY <1>1, <1>2, <1>3, <1>4, <1>5 DEF EvaluatorNext

LEMMA EvaluatorInitOK ==
  ASSUME EvaluationInit, NEW S
  PROVE  CircuitOK /\ EvalOK(S)
BY CircuitOKInit DEF EvaluationInit, EvaluatorInit, EvalOK

\* Whatever circuit was built, and whatever vector the evaluator was given: its
\* indices stay within its vectors, and its slots hold words.
THEOREM EvaluatorStaysInBounds ==
  ASSUME OneBuild, WordsFit(Words)
  PROVE  EvaluatorSpec => []EvaluatorTypeOK
<1>1. EvaluationInit => CircuitOK /\ EvalOK(Words)
  BY EvaluatorInitOK
<1>2. CircuitOK /\ EvalOK(Words) /\ [EvaluatorNext]_evalVars => CircuitOK' /\ EvalOK(Words)'
  <2>1. PICK S \in {Words, Canonical} : S = Words
    OBVIOUS
  <2> QED BY <2>1, EvaluatorStepOK
<1>3. CircuitOK /\ EvalOK(Words) => EvaluatorTypeOK
  <2> SUFFICES ASSUME CircuitOK, EvalOK(Words)
               PROVE  EvaluatorTypeOK
    OBVIOUS
  <2>1. \A id \in DOMAIN targets : targets[id] \in Words
    BY DEF EvalOK
  <2>2. Len(circuit.operations) \in Nat /\ Len(circuit.generators) \in Nat
    BY LenProperties DEF CircuitOK, TypeOK, FCircuit
  <2>3. op_index \in 0 .. Len(circuit.operations)
          /\ current_generator \in 0 .. Len(circuit.generators)
    BY <2>2 DEF EvalOK, Operations
  <2>4. ASSUME outcome = "running"
        PROVE  /\ target_index + vec_index = FirstSlot + op_index
               /\ vec_index <= circuit.vector_operation_count
               /\ gen_target_index <= FirstSlot
    <3>1. /\ phase = "built" /\ vec_index = VectorsIn(op_index)
          /\ target_index = FirstSlot + ScalarsIn(op_index)
          /\ gen_target_index \in Nat
          /\ gen_target_index <= input_target_count + Outputs(current_generator)
      BY <2>4 DEF EvalOK
    <3>2. PICK k, g, first, s, v, n, all, count, total \in Nat :
            /\ k = op_index /\ g = current_generator /\ first = FirstSlot
            /\ s = ScalarsIn(op_index) /\ v = VectorsIn(op_index) /\ n = Len(Operations)
            /\ all = VectorSlots /\ count = input_target_count /\ total = generator_target_count
      <4>1. op_index \in Nat /\ current_generator \in Nat
        BY <2>2, <2>3
      <4>2. ScalarsIn(op_index) \in Nat /\ VectorsIn(op_index) \in Nat
        BY <4>1, SlotsNext
      <4> QED BY <3>1, <4>1, <4>2, SlotsOfCircuit
    <3>3. v + s = k
      BY <3>2, SlotsInAll
    <3>4. v <= all
      <4>1. k <= n
        BY <2>3, <3>2 DEF Operations
      <4> QED BY <3>1, <3>2, <4>1, SlotsGrow, SlotsOfCircuit
    <3>5. Outputs(g) \in Nat /\ Outputs(g) <= total
      <4>1. CASE g = 0
        BY <3>2, <4>1 DEF Outputs
      <4>2. CASE g # 0
        <5>1. g \in 1 .. Len(circuit.generators)
          BY <2>2, <2>3, <3>2, <4>2
        <5> QED BY <3>1, <3>2, <5>1, GeneratorOfCircuit, OutputsNext
      <4> QED BY <4>1, <4>2
    <3>6. first = count + total /\ circuit.vector_operation_count = all
      BY <3>1, <3>2, SlotsOfCircuit
    <3>7. gen_target_index <= first
      <4>1. PICK index, o \in Nat : index = gen_target_index /\ o = Outputs(g)
        BY <3>1, <3>5
      <4>2. index <= count + o /\ o <= total
        BY <3>1, <3>2, <3>5, <4>1
      <4> QED BY <3>6, <4>1, <4>2
    <3>8. target_index + vec_index = first + k
      <4>1. (first + s) + v = first + k
        BY <3>3
      <4> QED BY <3>1, <3>2, <4>1
    <3> QED BY <3>1, <3>2, <3>4, <3>6, <3>7, <3>8
  <2> QED BY <2>1, <2>3, <2>4 DEF EvaluatorTypeOK, EvalOK
<1> QED BY <1>1, <1>2, <1>3, PTL DEF EvaluatorSpec

-----------------------------------------------------------------------------
(* The meaning of a node                                                   *)

\* The value of a node, from those of older ones.
NodeValue(value, p) ==
  LET type  == ops[p].op_type
      of(i) == value[ops[p].inputs[i]]
      const == ops[p].constants[1]
  IN
  CASE type = "CONSTANT" -> const
    [] type = "INPUT"    -> Abstract!InputValue(const)
    [] type = "GENERATOR_INPUT" ->
         LET generator == generators[Abstract!Owner(const)] IN
         Abstract!bit(value[generator.inputs[1]],
                      const - generator.start_generator_output_index)
    [] type = "NEG" -> Abstract!Truth(of(1) = 0)
    [] type = "ADD" -> (of(1) + of(2)) % GOLDILOCKS_PRIME
    [] type = "SUB" -> (of(1) - of(2)) % GOLDILOCKS_PRIME
    [] type = "MUL" -> (of(1) * of(2)) % GOLDILOCKS_PRIME
    [] type = "EQ"  -> Abstract!Truth(of(1) = of(2))
    [] type = "LEQ" -> Abstract!Truth(of(1) <= of(2))
    [] type = "POSEIDON_HASH" ->
         Poseidon([i \in DOMAIN ops[p].inputs |-> of(i)])
    [] type = "TARGET_AT" -> of(1)[const + 1]

\* The meaning is a function that satisfies the recursion.
LEMMA MeaningIsChosen ==
  Abstract!Meaning = CHOOSE f : f = [p \in 1 .. Len(ops) |-> NodeValue(f, p)]
BY DEF Abstract!Meaning, NodeValue, Abstract!InputValue, Abstract!Owner, Abstract!bit,
       Abstract!Truth, Abstract!GOLDILOCKS_PRIME, GOLDILOCKS_PRIME, Abstract!WORD, WORD

\* The meaning is of the nodes, the generators and the inputs, and of nothing else.
LEMMA MeaningStays ==
  ASSUME UNCHANGED <<ops, generators, inputs>>
  PROVE  Abstract!Meaning' = Abstract!Meaning
BY DEF Abstract!Meaning, Abstract!InputValue, Abstract!Owner, Abstract!bit, Abstract!Truth

\* Every generator input is an output of a generator, its owner.
LEMMA OwnerIs ==
  ASSUME HeapOK, InRow, NEW p \in Pointers, ops[p].op_type = "GENERATOR_INPUT",
         NEW c, c = ops[p].constants[1], NEW w, w = Abstract!Owner(c)
  PROVE  /\ c \in Nat /\ w \in 1 .. Len(generators)
         /\ generators[w].start_generator_output_index = Outputs(w - 1)
         /\ Outputs(w - 1) <= c /\ c < Outputs(w)
         /\ OutputFrom(p, Outputs(w - 1))
<1>1. PICK count, n \in Nat : count = generator_target_count /\ n = Len(generators)
  BY OutputsAreNat
<1>2. c \in 0 .. count - 1
  BY <1>1, NodeInputs DEF NodeOK
<1>3. /\ \A g \in 0 .. n : Outputs(g) \in Nat
      /\ \A g \in 1 .. n : EndOfOutputs(g) = Outputs(g)
                           /\ generators[g].start_generator_output_index = Outputs(g - 1)
      /\ Outputs(n) = count /\ Outputs(0) = 0
  BY <1>1, OutputsAreNat DEF InRow, Outputs
<1> DEFINE T == {g \in 1 .. n : c < Outputs(g)}
<1>4. n \in T
  BY <1>1, <1>2, <1>3
<1>5. PICK g \in T : \A h \in T : g <= h
  <2>1. T \in SUBSET Nat /\ T # {}
    BY <1>4
  <2> HIDE DEF T
  <2> QED BY <2>1, LeastIndex
<1>6. g \in 1 .. n /\ c < Outputs(g) /\ Outputs(g - 1) <= c
  <2>1. CASE g = 1
    BY <1>2, <1>3, <2>1
  <2>2. CASE g # 1
    <3>1. g - 1 \in 1 .. n /\ ~(g <= g - 1)
      BY <2>2
    <3>2. ~(c < Outputs(g - 1))
      BY <1>5, <3>1
    <3> QED BY <1>2, <1>3, <3>1, <3>2
  <2> QED BY <2>1, <2>2
<1> HIDE DEF T
<1>7. \E h \in 1 .. Len(generators) :
        /\ generators[h].start_generator_output_index <= c
        /\ c < generators[h].start_generator_output_index + generators[h].num_outputs
  BY <1>1, <1>3, <1>6 DEF EndOfOutputs
<1>8. /\ w \in 1 .. Len(generators) /\ generators[w].start_generator_output_index <= c
      /\ c < generators[w].start_generator_output_index + generators[w].num_outputs
  BY <1>7 DEF Abstract!Owner
<1> QED BY <1>1, <1>2, <1>3, <1>8 DEF EndOfOutputs, OutputFrom

\* The value of a node is made of those of older ones.
LEMMA ValueOfOlder ==
  ASSUME HeapOK, GeneratorsOK, NEW p \in Pointers, NEW f, NEW e,
         \A q \in 1 .. p - 1 : f[q] = e[q]
  PROVE  NodeValue(f, p) = NodeValue(e, p)
<1>1. /\ ops[p] \in Node /\ NodeOK(p) /\ p \in Nat
      /\ DOMAIN ops[p].inputs = 1 .. Len(ops[p].inputs) /\ Len(ops[p].inputs) \in Nat
      /\ ~IsVector(ops[p].op_type) => Len(ops[p].inputs) = Arity(ops[p].op_type)
  <2>1. ops[p] \in Node /\ NodeOK(p)
    BY NodeInputs, ElementOfSeq DEF HeapOK, NodesOK, Pointers
  <2>2. ops[p].inputs \in Seq(Nat)
    BY <2>1 DEF Node
  <2>3. ~IsVector(ops[p].op_type) => Len(ops[p].inputs) = Arity(ops[p].op_type)
    BY <2>1 DEF NodeOK
  <2> QED BY <2>1, <2>2, <2>3, LenProperties DEF Pointers
<1>2. \A i \in DOMAIN ops[p].inputs : f[ops[p].inputs[i]] = e[ops[p].inputs[i]]
  BY <1>1 DEF NodeOK
<1>3. CASE ops[p].op_type = "GENERATOR_INPUT"
  <2>1. PICK c, w : c = ops[p].constants[1] /\ w = Abstract!Owner(c)
    OBVIOUS
  <2>2. /\ w \in 1 .. Len(generators)
        /\ OutputFrom(p, generators[w].start_generator_output_index)
    BY <1>3, <2>1, OwnerIs DEF GeneratorsOK
  <2>3. generators[w].inputs[1] < p
    BY <2>2 DEF GeneratorsOK, ArgumentsOlder
  <2>4. generators[w].inputs[1] \in Pointers
    BY <2>2, ScalarsAreNodes DEF HeapOK, RootsOK
  <2>5. f[generators[w].inputs[1]] = e[generators[w].inputs[1]]
    BY <1>1, <2>3, <2>4, LenProperties DEF Pointers
  <2> QED BY <1>3, <2>1, <2>5 DEF NodeValue
<1>4. CASE ops[p].op_type \in BinaryOps
  <2>1. Len(ops[p].inputs) = 2
    BY <1>1, <1>4 DEF IsVector, BinaryOps, Arity
  <2>2. 1 \in DOMAIN ops[p].inputs /\ 2 \in DOMAIN ops[p].inputs
    BY <1>1, <2>1
  <2> QED BY <1>2, <1>4, <2>2 DEF NodeValue, BinaryOps
<1>5. CASE ops[p].op_type \in {"NEG", "TARGET_AT"}
  <2>1. Len(ops[p].inputs) = 1
    BY <1>1, <1>5 DEF IsVector, BinaryOps, Arity
  <2>2. 1 \in DOMAIN ops[p].inputs
    BY <1>1, <2>1
  <2> QED BY <1>2, <1>5, <2>2 DEF NodeValue
<1>6. CASE ops[p].op_type = "POSEIDON_HASH"
  <2>1. [i \in DOMAIN ops[p].inputs |-> f[ops[p].inputs[i]]]
          = [i \in DOMAIN ops[p].inputs |-> e[ops[p].inputs[i]]]
    BY <1>2
  <2> QED BY <1>6, <2>1 DEF NodeValue
<1>7. CASE ops[p].op_type \in {"CONSTANT", "INPUT"}
  BY <1>7 DEF NodeValue
<1>8. ops[p].op_type \in BinaryOps \cup {"CONSTANT", "INPUT", "GENERATOR_INPUT", "NEG",
                                         "TARGET_AT", "POSEIDON_HASH"}
  BY <1>1 DEF Node, OpType
<1> QED BY <1>3, <1>4, <1>5, <1>6, <1>7, <1>8

\* The first n nodes have values.
ValuesTo(f, n) == \A p \in 1 .. n : f[p] = NodeValue(f, p)

\* There are values for the first n nodes: each is of older nodes.
LEMMA ValuesExist ==
  ASSUME HeapOK, GeneratorsOK, NEW n \in 0 .. Len(ops)
  PROVE  \E f : ValuesTo(f, n)
<1>0. PICK N \in Nat : N = Len(ops)
  BY LenProperties DEF HeapOK, NodesOK
<1> DEFINE T == {m \in 0 .. N : ~ \E f : ValuesTo(f, m)}
<1>1. T = {}
  <2> SUFFICES ASSUME T # {}
               PROVE  FALSE
    OBVIOUS
  <2>1. PICK m \in T : \A k \in T : m <= k
    <3>1. T \in SUBSET Nat
      OBVIOUS
    <3> HIDE DEF T
    <3> QED BY <3>1, LeastIndex
  <2>2. m \in 0 .. N /\ ~ \E f : ValuesTo(f, m)
    OBVIOUS
  <2>3. m # 0
    <3> SUFFICES ASSUME m = 0
                 PROVE  \E f : ValuesTo(f, m)
      BY <2>2
    <3>1. ValuesTo(<<>>, m)
      BY DEF ValuesTo
    <3> QED BY <3>1
  <2>4. PICK k \in 0 .. N : m = k + 1 /\ k \notin T
    <3>1. m - 1 \in 0 .. N /\ m = (m - 1) + 1 /\ ~(m <= m - 1)
      BY <2>2, <2>3
    <3> HIDE DEF T
    <3> QED BY <2>1, <3>1
  <2>5. PICK f : ValuesTo(f, k)
    BY <2>4
  <2> DEFINE e == [p \in 1 .. m |-> IF p = m THEN NodeValue(f, m) ELSE f[p]]
  <2>6. /\ \A p \in 1 .. k : e[p] = f[p]
        /\ e[m] = NodeValue(f, m)
    BY <2>2, <2>3, <2>4
  <2> HIDE DEF e
  <2>7. ASSUME NEW p \in 1 .. m
        PROVE  e[p] = NodeValue(e, p)
    <3>1. p \in Pointers
      BY <1>0, <2>2 DEF Pointers
    <3>2. \A q \in 1 .. p - 1 : f[q] = e[q]
      BY <2>2, <2>4, <2>6
    <3>3. NodeValue(f, p) = NodeValue(e, p)
      BY <3>1, <3>2, ValueOfOlder
    <3>4. CASE p = m
      BY <2>6, <3>3, <3>4
    <3>5. CASE p # m
      <4>1. p \in 1 .. k
        BY <2>2, <2>4, <3>5
      <4> QED BY <2>5, <2>6, <3>3, <4>1 DEF ValuesTo
    <3> QED BY <3>4, <3>5
  <2>8. ValuesTo(e, m)
    BY <2>7 DEF ValuesTo
  <2> QED BY <2>2, <2>8
<1>2. n \in 0 .. N
  BY <1>0
<1> QED BY <1>1, <1>2

\* So the recursion has a solution, and the meaning is one.
LEMMA MeaningIs ==
  ASSUME HeapOK, GeneratorsOK
  PROVE  /\ DOMAIN Abstract!Meaning = Pointers
         /\ \A p \in Pointers : Abstract!Meaning[p] = NodeValue(Abstract!Meaning, p)
<1> DEFINE Step(f) == [p \in 1 .. Len(ops) |-> NodeValue(f, p)]
<1>0. PICK N \in Nat : N = Len(ops)
  BY LenProperties DEF HeapOK, NodesOK
<1>1. PICK f : ValuesTo(f, N)
  <2>1. N \in 0 .. Len(ops)
    BY <1>0
  <2> QED BY <2>1, ValuesExist
<1> DEFINE row == [p \in 1 .. Len(ops) |-> f[p]]
<1>2. row = Step(row)
  <2>1. ASSUME NEW p \in 1 .. Len(ops)
        PROVE  f[p] = NodeValue(row, p)
    <3>1. \A q \in 1 .. p - 1 : f[q] = row[q]
      BY <1>0
    <3>2. p \in Pointers
      BY DEF Pointers
    <3> HIDE DEF row
    <3>3. NodeValue(f, p) = NodeValue(row, p)
      BY <3>1, <3>2, ValueOfOlder
    <3> QED BY <1>0, <1>1, <3>3 DEF ValuesTo
  <2> HIDE DEF NodeValue
  <2> QED BY <2>1
<1>3. Abstract!Meaning = CHOOSE g : g = Step(g)
  BY MeaningIsChosen
<1>4. Abstract!Meaning = Step(Abstract!Meaning)
  <2> HIDE DEF Step, row
  <2> QED BY <1>2, <1>3
<1> QED BY <1>4 DEF Pointers

-----------------------------------------------------------------------------
(* Where the values are                                                    *)

\* The slot of an operation is behind those of the inputs and the generators'
\* outputs, and before those of the operations behind it.
LEMMA SlotOfPlace ==
  ASSUME CircuitOK, phase = "built", NEW j \in Nat, NEW k \in Nat, j < k,
         k <= Len(Operations), NEW p, OperationOf(j + 1, p)
  PROVE  /\ IsVector(ops[p].op_type) => target_id[p] \in 0 .. VectorsIn(k) - 1
         /\ ~IsVector(ops[p].op_type) =>
              target_id[p] \in FirstSlot .. FirstSlot + ScalarsIn(k) - 1
<1>1. /\ ops[p].op_type = Operations[j + 1].op_type /\ target_id[p] = Slot(j + 1)
  BY DEF OperationOf
<1>2. PICK first, s, v, s1, v1, sk, vk \in Nat :
        /\ first = FirstSlot /\ s = ScalarsIn(j) /\ v = VectorsIn(j)
        /\ s1 = ScalarsIn(j + 1) /\ v1 = VectorsIn(j + 1)
        /\ sk = ScalarsIn(k) /\ vk = VectorsIn(k)
  <2>1. PICK next \in Nat : next = j + 1
    OBVIOUS
  <2>2. \A i \in {j, j + 1, k} : ScalarsIn(i) \in Nat /\ VectorsIn(i) \in Nat
    BY <2>1, SlotsNext
  <2> QED BY <2>2, FirstSlotIsNat
<1>3. s1 <= sk /\ v1 <= vk
  <2>1. j + 1 \in Nat /\ j + 1 <= k
    OBVIOUS
  <2> QED BY <1>2, <2>1, SlotsGrow
<1>4. CASE IsVector(ops[p].op_type)
  <2>1. target_id[p] = v /\ v1 = v + 1
    BY <1>1, <1>2, <1>4, SlotWritten, SlotsNext
  <2> QED BY <1>2, <1>3, <1>4, <2>1
<1>5. CASE ~IsVector(ops[p].op_type)
  <2>1. target_id[p] = first + s /\ s1 = s + 1
    BY <1>1, <1>2, <1>5, SlotWritten, SlotsNext
  <2>2. target_id[p] \in first .. first + sk - 1
    BY <1>3, <2>1
  <2> QED BY <1>2, <1>5, <2>2
<1> QED BY <1>4, <1>5

\* The slots of inputs and of the generators' outputs.
LEMMA InputSlot ==
  ASSUME CircuitOK, NEW p \in Pointers, ops[p].op_type = "INPUT"
  PROVE  TargetOf(p) = ops[p].constants[1] /\ TargetOf(p) \in 0 .. input_target_count - 1
BY NodeInputs DEF CircuitOK, TypeOK, NodeOK, TargetOf, CopiesOK, LeavesHaveNoId

\* An output of a generator is behind the inputs, among its owner's.
LEMMA OutputSlot ==
  ASSUME CircuitOK, InRow, NEW p \in Pointers, ops[p].op_type = "GENERATOR_INPUT",
         NEW c, c = ops[p].constants[1], NEW w, w = Abstract!Owner(c)
  PROVE  /\ TargetOf(p) = input_target_count + c
         /\ c \in Nat /\ w \in 1 .. Len(generators)
         /\ generators[w].start_generator_output_index = Outputs(w - 1)
         /\ Outputs(w - 1) <= c /\ c < Outputs(w)
         /\ OutputFrom(p, Outputs(w - 1))
<1>1. p \notin DOMAIN target_id
  BY DEF CircuitOK, CopiesOK, LeavesHaveNoId
<1>2. TargetOf(p) = c + input_target_count
  BY <1>1 DEF TargetOf
<1>3. HeapOK /\ input_target_count \in Nat
  BY DEF CircuitOK, TypeOK, HeapOK
<1>4. /\ c \in Nat /\ w \in 1 .. Len(generators)
      /\ generators[w].start_generator_output_index = Outputs(w - 1)
      /\ Outputs(w - 1) <= c /\ c < Outputs(w)
      /\ OutputFrom(p, Outputs(w - 1))
  BY <1>3, OwnerIs
<1> QED BY <1>2, <1>3, <1>4

\* Outputs of earlier generators are before those of later ones.
LEMMA OutputsGrow ==
  ASSUME HeapOK, InRow, NEW g \in 0 .. Len(generators), NEW h \in 0 .. Len(generators), g <= h
  PROVE  Outputs(g) \in Nat /\ Outputs(h) \in Nat /\ Outputs(g) <= Outputs(h)
<1>1. Outputs(g) \in Nat /\ Outputs(h) \in Nat /\ Len(generators) \in Nat
  BY OutputsAreNat
<1>2. CASE g = h
  BY <1>1, <1>2
<1>3. CASE g = 0
  BY <1>1, <1>3 DEF Outputs
<1>4. CASE g # h /\ g # 0
  <2>1. g \in 1 .. Len(generators) /\ h \in 1 .. Len(generators) /\ h \in g + 1 .. Len(generators)
    BY <1>1, <1>4
  <2>2. EndOfOutputs(g) <= generators[h].start_generator_output_index
    BY <2>1 DEF HeapOK, OutputsOK
  <2>3. /\ Outputs(g) = EndOfOutputs(g) /\ Outputs(h) = EndOfOutputs(h)
        /\ generators[h].num_outputs \in Nat /\ generators[h].start_generator_output_index \in Nat
    BY <2>1, OutputsAreNat
  <2> QED BY <1>1, <2>2, <2>3 DEF EndOfOutputs
<1> QED BY <1>2, <1>3, <1>4

-----------------------------------------------------------------------------
(* What the slots hold                                                     *)

\* The slots hold the inputs and the outputs of the first g generators.
RawHeld(slots, g) ==
  /\ \A i \in 0 .. input_target_count - 1 : slots[i] = Abstract!InputValue(i)
  /\ \A p \in Pointers :
       ops[p].op_type = "GENERATOR_INPUT" /\ Abstract!Owner(ops[p].constants[1]) <= g =>
         slots[TargetOf(p)] = Abstract!Meaning[p]

\* They hold the values of the nodes that have one of the first k places.
NodesHeld(slots, vectors, k) ==
  \A p \in Emitted :
    global_target_id[p] - FirstSlot < k =>
      IF IsVector(ops[p].op_type) THEN vectors[target_id[p]] = Abstract!Meaning[p]
                                  ELSE slots[target_id[p]] = Abstract!Meaning[p]

\* An input is in its slot.
LEMMA InputHeld ==
  ASSUME CircuitOK, GeneratorsOK, NEW slots, NEW g, RawHeld(slots, g),
         NEW p \in Pointers, ops[p].op_type = "INPUT"
  PROVE  slots[TargetOf(p)] = Abstract!Meaning[p]
<1>1. Abstract!Meaning[p] = NodeValue(Abstract!Meaning, p)
  BY MeaningIs DEF CircuitOK, TypeOK
<1>2. NodeValue(Abstract!Meaning, p) = Abstract!InputValue(ops[p].constants[1])
  BY DEF NodeValue
<1>3. TargetOf(p) = ops[p].constants[1] /\ TargetOf(p) \in 0 .. input_target_count - 1
  BY InputSlot
<1> QED BY <1>1, <1>2, <1>3 DEF RawHeld

\* So is the argument of a generator that is the next to run.
LEMMA ArgumentHeld ==
  ASSUME CircuitOK, GeneratorsOK, ArgumentsRaw, NEW g \in 1 .. Len(generators),
         NEW slots, RawHeld(slots, g - 1), NEW q, q = generators[g].inputs[1]
  PROVE  slots[TargetOf(q)] = Abstract!Meaning[q]
<1>1. q \in Pointers /\ ops[q].op_type \in {"INPUT", "GENERATOR_INPUT"}
  BY ScalarsAreNodes DEF CircuitOK, TypeOK, HeapOK, RootsOK, ArgumentsRaw
<1>2. HeapOK /\ InRow
  BY DEF CircuitOK, TypeOK, GeneratorsOK
<1>3. CASE ops[q].op_type = "INPUT"
  BY <1>1, <1>3, InputHeld
<1>4. CASE ops[q].op_type = "GENERATOR_INPUT"
  <2>1. PICK c, w : c = ops[q].constants[1] /\ w = Abstract!Owner(c)
    OBVIOUS
  <2>2. c \in Nat /\ w \in 1 .. Len(generators) /\ Outputs(w - 1) <= c
    BY <1>1, <1>4, <2>1, OutputSlot, <1>2
  <2>3. generators[g].start_generator_output_index = Outputs(g - 1)
    BY <1>2 DEF InRow
  <2>4. ~OutputFrom(q, Outputs(g - 1))
    <3> SUFFICES ASSUME OutputFrom(q, Outputs(g - 1))
                 PROVE  FALSE
      OBVIOUS
    <3>1. q < q
      BY <1>1, <2>3 DEF GeneratorsOK, ArgumentsOlder
    <3> QED BY <1>1, <1>2, <3>1, NodeInputs
  <2>5. ~(c >= Outputs(g - 1))
    BY <1>4, <2>1, <2>4 DEF OutputFrom
  <2>6. PICK n \in Nat : n = Len(generators)
    BY <1>2, OutputsAreNat
  <2>7. w <= g - 1
    <3> SUFFICES ASSUME ~(w <= g - 1)
                 PROVE  FALSE
      OBVIOUS
    <3>1. PICK a, b \in 0 .. Len(generators) : a = g - 1 /\ b = w - 1 /\ a <= b
      BY <2>2, <2>6
    <3>2. Outputs(a) \in Nat /\ Outputs(b) \in Nat /\ Outputs(a) <= Outputs(b)
      BY <1>2, <3>1, OutputsGrow
    <3> QED BY <2>2, <2>5, <3>1, <3>2
  <2> QED BY <1>1, <1>4, <2>1, <2>7 DEF RawHeld
<1> QED BY <1>1, <1>3, <1>4

\* A generator leaves the bits of its argument in the slots of its outputs, and
\* nothing else.
LEMMA GeneratorHeld ==
  ASSUME CircuitOK, GeneratorsOK, ArgumentsRaw, phase = "built", WordsFit(Canonical),
         targets \in [TargetSlots -> Canonical], NEW g \in 1 .. Len(circuit.generators),
         gen_target_index = input_target_count + Outputs(g - 1), RawHeld(targets, g - 1)
  PROVE  /\ RawHeld(eval_generator(g), g)
         /\ \A id \in TargetSlots : id >= FirstSlot => eval_generator(g)[id] = targets[id]
<1>1. HeapOK /\ InRow /\ g \in 1 .. Len(generators)
  BY GeneratorOfCircuit DEF CircuitOK, TypeOK, GeneratorsOK
<1>2. PICK q, slots : q = generators[g].inputs[1] /\ slots = eval_generator(g)
  OBVIOUS
<1>3. PICK n, count, size, before, after, bits, scalars \in Nat :
        /\ n = Len(generators) /\ count = input_target_count /\ size = generator_target_count
        /\ before = Outputs(g - 1) /\ bits = generators[g].num_outputs
        /\ after = Outputs(g) /\ scalars = ScalarSlots
        /\ after = before + bits /\ after <= size
        /\ generators[g].start_generator_output_index = before
  <2>1. Outputs(g) = EndOfOutputs(g) /\ generators[g].start_generator_output_index = Outputs(g - 1)
    BY <1>1, OutputsAreNat DEF InRow
  <2>2. Outputs(g - 1) \in Nat /\ generators[g].num_outputs \in Nat
        /\ Outputs(g) \in Nat /\ Outputs(g) <= generator_target_count
    BY <1>1, OutputsNext
  <2>3. Outputs(g) = Outputs(g - 1) + generators[g].num_outputs
    BY <2>1 DEF EndOfOutputs
  <2>4. Len(generators) \in Nat /\ input_target_count \in Nat /\ generator_target_count \in Nat
        /\ ScalarSlots \in Nat
    BY <1>1, SlotsOfCircuit, OutputsAreNat
  <2> QED BY <2>1, <2>2, <2>3, <2>4
<1>4. FirstSlot = count + size /\ TargetSlots = 0 .. (count + size) + scalars - 1
      /\ gen_target_index = count + before
  BY <1>3, SlotsOfCircuit DEF TargetSlots
<1>5. after = before + bits /\ after <= size /\ before <= after
  BY <1>3
<1> DEFINE Written == count + before .. (count + before) + bits - 1
<1>6. \A id \in Int : id \in Written <=> count + before <= id /\ id < count + after
  BY <1>5
<1> HIDE DEF Written
<1>7. \A id \in TargetSlots :
        /\ id \in Written =>
             slots[id] = (targets[TargetOf(q)] \div 2 ^ (id - (count + before))) % 2
        /\ id \notin Written => slots[id] = targets[id]
  <2>1. gen_target_index \in Nat /\ Canonical \in {Words, Canonical}
    BY <1>3, <1>4
  <2>2. \A id \in TargetSlots : eval_generator(g)[id] =
          IF id \in gen_target_index .. gen_target_index + generators[g].num_outputs - 1
          THEN (targets[TargetOf(generators[g].inputs[1])] \div 2 ^ (id - gen_target_index)) % 2
          ELSE targets[id]
    BY <2>1, GeneratorWritesWords
  <2>3. gen_target_index .. gen_target_index + generators[g].num_outputs - 1 = Written
    BY <1>3, <1>4 DEF Written
  <2>4. \A id \in TargetSlots : slots[id] =
          IF id \in Written THEN (targets[TargetOf(q)] \div 2 ^ (id - gen_target_index)) % 2
          ELSE targets[id]
    BY <1>2, <2>2, <2>3
  <2> QED BY <1>4, <2>4
<1>8. targets[TargetOf(q)] = Abstract!Meaning[q]
  BY <1>1, <1>2, ArgumentHeld
<1>9. ASSUME NEW i \in 0 .. input_target_count - 1
      PROVE  slots[i] = Abstract!InputValue(i)
  <2>1. i \in TargetSlots /\ i \notin Written
    BY <1>6, <1>3, <1>4
  <2> QED BY <1>7, <2>1 DEF RawHeld
<1>10. ASSUME NEW id \in TargetSlots, id >= FirstSlot
      PROVE  slots[id] = targets[id]
  <2>1. id >= count + size /\ id \in Int
    BY <1>4, <1>10
  <2>2. id \notin Written
    BY <1>6, <1>3, <2>1
  <2> QED BY <1>7, <2>2
<1>11. ASSUME NEW p \in Pointers, ops[p].op_type = "GENERATOR_INPUT",
             Abstract!Owner(ops[p].constants[1]) <= g
      PROVE  slots[TargetOf(p)] = Abstract!Meaning[p]
  <2>1. PICK c, w : c = ops[p].constants[1] /\ w = Abstract!Owner(c)
    OBVIOUS
  <2>2. /\ c \in Nat /\ w \in 1 .. n /\ Outputs(w - 1) <= c /\ c < Outputs(w)
        /\ TargetOf(p) = count + c /\ w <= g
    BY <1>1, <1>3, <1>11, <2>1, OutputSlot
  <2>3. w \in 0 .. Len(generators) /\ g - 1 \in 0 .. Len(generators) /\ g \in 1 .. n
    <3>1. g \in 1 .. n
      BY <1>1, <1>3
    <3>2. w \in 0 .. n /\ g - 1 \in 0 .. n
      BY <2>2, <3>1
    <3> QED BY <1>3, <3>1, <3>2
  <2>4. CASE w = g
    <3>0. before <= c /\ c < after
      BY <1>3, <2>2, <2>4
    <3>1. TargetOf(p) \in TargetSlots
          /\ TargetOf(p) \in Written
          /\ TargetOf(p) - (count + before) = c - before
      <4>1. count + c \in 0 .. (count + size) + scalars - 1
        BY <1>5, <2>2, <3>0
      <4>2. count + c \in Written
        BY <1>6, <2>2, <3>0
      <4>3. (count + c) - (count + before) = c - before
        BY <2>2
      <4> QED BY <1>4, <2>2, <4>1, <4>2, <4>3
    <3>2. slots[TargetOf(p)] = (Abstract!Meaning[q] \div 2 ^ (c - before)) % 2
      BY <1>7, <1>8, <3>1
    <3>3. Abstract!Meaning[p] = NodeValue(Abstract!Meaning, p)
      BY <1>1, MeaningIs
    <3>4. NodeValue(Abstract!Meaning, p) = (Abstract!Meaning[q] \div 2 ^ (c - before)) % 2
      BY <1>2, <1>3, <1>11, <2>1, <2>4 DEF NodeValue, Abstract!bit
    <3> QED BY <3>2, <3>3, <3>4
  <2>5. CASE w # g
    <3>1. w <= g - 1
      BY <2>2, <2>3, <2>5
    <3>2. Outputs(w) <= before /\ Outputs(w) \in Nat
      BY <1>1, <1>3, <2>3, <3>1, OutputsGrow
    <3>3. before <= size
      BY <1>3
    <3>4. TargetOf(p) \in TargetSlots
          /\ TargetOf(p) \notin Written
      <4>1. c < before
        BY <2>2, <3>2
      <4>2. count + c \in 0 .. (count + size) + scalars - 1
        BY <1>3, <2>2, <4>1, <3>3
      <4>3. count + c \notin Written
        BY <1>6, <1>3, <2>2, <4>1
      <4> QED BY <1>4, <2>2, <4>2, <4>3
    <3>5. slots[TargetOf(p)] = targets[TargetOf(p)]
      BY <1>7, <3>4
    <3> QED BY <1>11, <2>1, <3>1, <3>5 DEF RawHeld
  <2> QED BY <2>4, <2>5
<1> QED BY <1>2, <1>9, <1>10, <1>11 DEF RawHeld

\* What is known, when a call is under way, of the slots and the generators run.
ValuesOK ==
  /\ outcome # "none" =>
       \A i \in 0 .. input_target_count - 1 : targets[i] = Abstract!InputValue(i)
  /\ outcome \notin {"none", "ready"} =>
       /\ gen_target_index = input_target_count + Outputs(current_generator)
       /\ current_generator <= op_index
       /\ current_generator = op_index \/ current_generator = Len(generators)
  /\ outcome \in {"returned", "threw"} => LoopDone
  /\ SlotsHoldMeaning

\* What the proofs about values have of a circuit.
MeaningOK == CircuitOK /\ GeneratorsOK /\ ArgumentsRaw /\ ScheduleOK

\* What ValuesOK says of the slots, with the slots as an argument.
LEMMA ValuesAre ==
  ASSUME MeaningOK, ValuesOK, outcome \notin {"none", "ready"}
  PROVE  RawHeld(targets, current_generator) /\ NodesHeld(targets, vec_targets, op_index)
BY DEF ValuesOK, SlotsHoldMeaning, RawHeld, NodesHeld

\* A node whose operation has been passed.
LEMMA PlaceBelow ==
  ASSUME CircuitOK, phase = "built", NEW p \in Emitted, NEW k \in Nat,
         global_target_id[p] - FirstSlot < k
  PROVE  \E j \in Nat : j < k /\ OperationOf(j + 1, p)
         /\ global_target_id[p] = FirstSlot + j
<1>1. Place(p) \in 1 .. Len(Operations) /\ OperationOf(Place(p), p)
  BY NodeOfPlace
<1>2. PICK first, id \in Nat : first = FirstSlot /\ id = global_target_id[p]
  BY FirstSlotIsNat DEF CircuitOK, TypeOK, Emitted
<1>3. Place(p) = id - first + 1
  BY <1>2 DEF Place
<1>4. PICK j \in Nat : j = id - first
  <2>1. id - first + 1 \in 1 .. Len(Operations)
    BY <1>1, <1>3
  <2>2. id - first \in Nat
    BY <1>2, <2>1
  <2> QED BY <2>2
<1>5. Place(p) = j + 1 /\ j < k /\ id = first + j
  BY <1>2, <1>3, <1>4
<1> QED BY <1>1, <1>2, <1>5

\* The slots an operation of an iteration reads: the generators among the first
\* ones have run, all those the schedule asks for.
LEMMA SlotsOfIteration ==
  ASSUME MeaningOK, WordsFit(Canonical), EvalOK(Canonical), ValuesOK, outcome = "running",
         NEW k, k = op_index, k < Len(Operations), NEW g, g = current_generator,
         NEW slots, slots = IF op_index >= min_id THEN eval_generator(g + 1) ELSE targets,
         NEW h, h = IF op_index >= min_id THEN g + 1 ELSE g
  PROVE  /\ phase = "built" /\ k \in Nat /\ h \in 0 .. Len(generators)
         /\ h <= k + 1 /\ (h = k + 1 \/ h = Len(generators))
         /\ slots \in [TargetSlots -> Canonical]
         /\ RawHeld(slots, h) /\ NodesHeld(slots, vec_targets, k)
         /\ op_index >= min_id =>
              gen_target_index + circuit.generators[g + 1].constant_inputs[1]
                = input_target_count + Outputs(h)
<1>1. /\ phase = "built" /\ targets \in [TargetSlots -> Canonical]
      /\ g \in 0 .. Len(circuit.generators)
      /\ gen_target_index = input_target_count + Outputs(g)
      /\ g <= k /\ (g = k \/ g = Len(generators))
  BY DEF EvalOK, ValuesOK
<1>2. /\ k \in Nat /\ slots \in [TargetSlots -> Canonical]
      /\ op_index >= min_id => g + 1 \in 1 .. Len(circuit.generators)
  <2>1. Canonical \in {Words, Canonical}
    OBVIOUS
  <2> QED BY <2>1, DueGenerator DEF MeaningOK
<1>3. RawHeld(targets, g) /\ NodesHeld(targets, vec_targets, k)
  BY ValuesAre
<1>4. /\ Len(circuit.generators) = Len(generators)
      /\ \A i \in 1 .. Len(circuit.generators) : circuit.generators[i].op_dependency_id = 0
  BY <1>1 DEF MeaningOK, CircuitOK, BuiltOnce, NeedsOK, LoopsInOrder, ScheduleOK, FirstBuild,
              NoDependencies
<1>5. PICK n, m \in Nat : n = Len(generators) /\ m = Len(Operations)
  BY OutputsAreNat, FirstSlotIsNat DEF MeaningOK, CircuitOK, TypeOK
<1>6. CASE op_index >= min_id
  <2>1. g + 1 \in 1 .. Len(circuit.generators) /\ (g + 1) - 1 = g
    BY <1>1, <1>2, <1>4, <1>5, <1>6
  <2>2. h = g + 1 /\ g + 1 \in 1 .. n /\ g = k
    BY <1>1, <1>4, <1>5, <1>6, <2>1
  <2>3. RawHeld(slots, h)
        /\ \A id \in TargetSlots : id >= FirstSlot => slots[id] = targets[id]
    BY <1>1, <1>3, <1>6, <2>1, <2>2, GeneratorHeld DEF MeaningOK
  <2>4. gen_target_index + circuit.generators[g + 1].constant_inputs[1]
          = input_target_count + Outputs(h)
    <3>1. /\ g + 1 \in 1 .. Len(generators)
          /\ circuit.generators[g + 1].constant_inputs[1] = generators[g + 1].num_outputs
      BY <1>1, <2>1, GeneratorOfCircuit DEF MeaningOK
    <3>2. /\ EndOfOutputs(g + 1) = Outputs(g + 1)
          /\ generators[g + 1].start_generator_output_index = Outputs(g)
          /\ generators[g + 1].num_outputs \in Nat /\ Outputs(g) \in Nat
      BY <2>1, <3>1, OutputsAreNat, OutputsNext
      DEF MeaningOK, CircuitOK, TypeOK, GeneratorsOK, InRow
    <3>3. Outputs(g + 1) = Outputs(g) + generators[g + 1].num_outputs
      BY <3>2 DEF EndOfOutputs
    <3>4. input_target_count \in Nat
      BY DEF MeaningOK, CircuitOK, TypeOK, HeapOK
    <3> QED BY <1>1, <2>2, <3>1, <3>2, <3>3, <3>4
  <2>5. NodesHeld(slots, vec_targets, k)
    <3> SUFFICES ASSUME NEW p \in Emitted, global_target_id[p] - FirstSlot < k,
                        ~IsVector(ops[p].op_type)
                 PROVE  slots[target_id[p]] = targets[target_id[p]]
      BY <1>3 DEF NodesHeld
    <3>1. PICK j \in Nat : j < k /\ OperationOf(j + 1, p)
      BY <1>1, <1>2, PlaceBelow DEF MeaningOK
    <3>2. target_id[p] \in FirstSlot .. FirstSlot + ScalarsIn(k) - 1
      <4>1. k <= Len(Operations)
        BY <1>2, <1>5
      <4> QED BY <1>1, <1>2, <3>1, <4>1, SlotOfPlace DEF MeaningOK
    <3>3. PICK first, s, all \in Nat :
            first = FirstSlot /\ s = ScalarsIn(k) /\ all = ScalarSlots /\ s <= all
      <4>1. ScalarsIn(k) <= ScalarsIn(m) /\ ScalarSlots = ScalarsIn(m)
        BY <1>1, <1>2, <1>5, SlotsGrow, SlotsOfCircuit DEF MeaningOK
      <4>2. ScalarSlots \in Nat /\ FirstSlot \in Nat /\ ScalarsIn(k) \in Nat
        BY <1>1, <1>2, SlotsNext, SlotsOfCircuit DEF MeaningOK
      <4> QED BY <4>1, <4>2
    <3>4. target_id[p] \in 0 .. first + all - 1 /\ target_id[p] >= first
      BY <3>2, <3>3
    <3> QED BY <2>3, <3>3, <3>4 DEF TargetSlots
  <2>6. h \in 0 .. Len(generators) /\ h = k + 1
    BY <1>5, <2>2
  <2> QED BY <1>1, <1>2, <2>3, <2>4, <2>5, <2>6
<1>7. CASE ~(op_index >= min_id)
  <2>1. h = g /\ slots = targets
    BY <1>7
  <2>2. g = Len(generators)
    <3> SUFFICES ASSUME g # Len(generators)
                 PROVE  FALSE
      OBVIOUS
    <3>1. g < Len(circuit.generators) /\ g + 1 \in 1 .. Len(circuit.generators)
      BY <1>1, <1>4, <1>5
    <3>2. min_id = 0
      BY <1>4, <3>1 DEF min_id
    <3> QED BY <1>2, <1>7, <3>2
  <2> QED BY <1>1, <1>2, <1>3, <1>4, <1>5, <1>7, <2>1, <2>2
<1> QED BY <1>6, <1>7

\* The operands of the next operation are the values of the node's inputs.
LEMMA OperandHeld ==
  ASSUME MeaningOK, phase = "built", NEW k \in Nat, NEW p, OperationOf(k + 1, p),
         NEW slots, NEW h, RawHeld(slots, h), NodesHeld(slots, vec_targets, k),
         h = k + 1 \/ h = Len(generators),
         NEW i \in DOMAIN ops[p].inputs, NEW q, q = ops[p].inputs[i]
  PROVE  /\ q \in Pointers
         /\ IsVector(ops[q].op_type) => vec_targets[TargetOf(q)] = Abstract!Meaning[q]
         /\ ~IsVector(ops[q].op_type) => slots[TargetOf(q)] = Abstract!Meaning[q]
<1>1. /\ p \in Emitted /\ p \in Pointers /\ global_target_id[p] = FirstSlot + (k + 1) - 1
      /\ FirstSlot \in Nat /\ CircuitOK /\ GeneratorsOK
  BY FirstSlotIsNat DEF OperationOf, MeaningOK
<1>2. q \in Pointers
  BY <1>1, NodeInputs DEF CircuitOK, TypeOK
<1>3. Resolved(q) /\ (q \in Emitted => global_target_id[q] < global_target_id[p])
  BY <1>1 DEF CircuitOK, PostOrder, BuiltOnce
<1>4. CASE q \in DOMAIN target_id
  <2>1. q \in Emitted /\ TargetOf(q) = target_id[q] /\ global_target_id[q] \in Nat
    BY <1>1, <1>4 DEF CircuitOK, TypeOK, Emitted, TargetOf
  <2>2. global_target_id[q] - FirstSlot < k
    <3>1. global_target_id[q] < FirstSlot + (k + 1) - 1
      BY <1>1, <1>3, <2>1
    <3> QED BY <1>1, <2>1, <3>1
  <2> QED BY <1>2, <2>1, <2>2 DEF NodesHeld
<1>5. CASE ops[q].op_type = "INPUT"
  BY <1>1, <1>2, <1>5, InputHeld DEF IsVector
<1>6. CASE ops[q].op_type = "GENERATOR_INPUT"
  <2>1. PICK c, w : c = ops[q].constants[1] /\ w = Abstract!Owner(c)
    OBVIOUS
  <2>2. InRow /\ Len(generators) \in Nat
    BY <1>1, OutputsAreNat DEF GeneratorsOK, CircuitOK, TypeOK
  <2>3. w \in 1 .. Len(generators) /\ OutputFrom(q, Outputs(w - 1))
    BY <1>1, <1>2, <1>6, <2>1, <2>2, OutputSlot
  <2>4. Waits(p, Place(p))
    BY <1>1 DEF MeaningOK, ScheduleOK, ReadersWait, CircuitOK, BuiltOnce, FirstBuild
  <2>5. w - 1 \in 0 .. Len(generators) - 1 /\ Place(p) = k + 1
    BY <1>1, <2>2, <2>3 DEF Place
  <2>6. w - 1 < k + 1
    BY <2>3, <2>4, <2>5 DEF Waits
  <2>7. w <= h
    BY <2>2, <2>3, <2>6
  <2>8. slots[TargetOf(q)] = Abstract!Meaning[q]
    BY <1>2, <1>6, <2>1, <2>7 DEF RawHeld
  <2> QED BY <1>2, <1>6, <2>8 DEF IsVector
<1> QED BY <1>3, <1>4, <1>5, <1>6 DEF Resolved

\* An operation on the values of a node's inputs gives the value of the node.
LEMMA TargetOpMeans ==
  ASSUME MeaningOK, phase = "built", WordsFit(Canonical),
         NEW k \in Nat, k < Len(Operations), NEW p, OperationOf(k + 1, p),
         ~IsVector(ops[p].op_type), NEW slots \in [TargetSlots -> Canonical], NEW h,
         RawHeld(slots, h), NodesHeld(slots, vec_targets, k), h = k + 1 \/ h = Len(generators)
  PROVE  eval_target_op(Operations[k + 1], slots) = Abstract!Meaning[p]
<1>1. PICK op, M : op = Operations[k + 1] /\ M = Abstract!Meaning
  OBVIOUS
<1>2. /\ op.op_type = ops[p].op_type /\ op.constant_inputs = ops[p].constants
      /\ \A i \in DOMAIN ops[p].inputs : op.target_inputs[i] = TargetOf(ops[p].inputs[i])
      /\ p \in Pointers /\ NodeOK(p)
  BY <1>1 DEF OperationOf
<1>3. /\ op.op_type \in BinaryOps \cup {"CONSTANT", "NEG", "TARGET_AT"}
      /\ DOMAIN ops[p].inputs = 1 .. Arity(ops[p].op_type)
      /\ op.op_type # "TARGET_AT" =>
           \A i \in DOMAIN ops[p].inputs : op.target_inputs[i] \in TargetSlots
  BY <1>1, <1>2, OperandSlots DEF IsVector, MeaningOK
<1>4. M[p] = NodeValue(M, p)
  BY <1>1, <1>2, MeaningIs DEF MeaningOK, CircuitOK, TypeOK
<1>5. ASSUME NEW i \in DOMAIN ops[p].inputs, op.op_type # "TARGET_AT"
      PROVE  /\ slots[op.target_inputs[i]] = M[ops[p].inputs[i]]
             /\ slots[op.target_inputs[i]] \in Canonical
  <2>1. PICK q : q = ops[p].inputs[i]
    OBVIOUS
  <2>2. ~IsVector(ops[q].op_type)
    <3>1. i \in 1 .. Len(ops[p].inputs)
      BY DEF OperationOf
    <3>2. IsVector(ops[q].op_type) <=> ops[p].op_type = "TARGET_AT"
      BY <1>2, <2>1, <3>1 DEF NodeOK
    <3> QED BY <1>2, <1>5, <3>2
  <2>3. slots[TargetOf(q)] = M[q]
    BY <1>1, <2>1, <2>2, OperandHeld
  <2> QED BY <1>2, <1>3, <1>5, <2>1, <2>3
<1>6. Canonical \subseteq Words
  BY OperatorsClosed
<1>7. CASE op.op_type \in BinaryOps
  <2>1. 1 \in DOMAIN ops[p].inputs /\ 2 \in DOMAIN ops[p].inputs /\ op.op_type # "TARGET_AT"
    <3>1. Arity(ops[p].op_type) = 2 /\ op.op_type # "TARGET_AT"
      BY <1>2, <1>7 DEF Arity, BinaryOps
    <3> QED BY <1>3, <3>1
  <2>2. PICK a, b \in Canonical :
          /\ a = slots[op.target_inputs[1]] /\ b = slots[op.target_inputs[2]]
          /\ a = M[ops[p].inputs[1]] /\ b = M[ops[p].inputs[2]]
    BY <1>5, <2>1
  <2>3. /\ add(a, b) = (a + b) % GOLDILOCKS_PRIME
        /\ sub(a, b) = (a - b) % GOLDILOCKS_PRIME
        /\ mul(a, b) = (a * b) % GOLDILOCKS_PRIME
    BY <1>6, AddIsOfField, SubIsOfField, MulIsOfField
  <2>4. /\ Flag(eq(a, b)) = Abstract!Truth(a = b) /\ Flag(leq(a, b)) = Abstract!Truth(a <= b)
    BY DEF Flag, eq, leq, Abstract!Truth
  <2>5. CASE op.op_type = "ADD"
    BY <1>1, <1>2, <1>4, <2>2, <2>3, <2>5 DEF eval_target_op, NodeValue
  <2>6. CASE op.op_type = "SUB"
    BY <1>1, <1>2, <1>4, <2>2, <2>3, <2>6 DEF eval_target_op, NodeValue
  <2>7. CASE op.op_type = "MUL"
    BY <1>1, <1>2, <1>4, <2>2, <2>3, <2>7 DEF eval_target_op, NodeValue
  <2>8. CASE op.op_type = "EQ"
    BY <1>1, <1>2, <1>4, <2>2, <2>4, <2>8 DEF eval_target_op, NodeValue
  <2>9. CASE op.op_type = "LEQ"
    BY <1>1, <1>2, <1>4, <2>2, <2>4, <2>9 DEF eval_target_op, NodeValue
  <2> QED BY <1>7, <2>5, <2>6, <2>7, <2>8, <2>9 DEF BinaryOps
<1>8. CASE op.op_type = "NEG"
  <2>1. 1 \in DOMAIN ops[p].inputs /\ op.op_type # "TARGET_AT"
    <3>1. Arity(ops[p].op_type) = 1
      BY <1>2, <1>8 DEF Arity, BinaryOps
    <3> QED BY <1>3, <1>8, <3>1
  <2>2. slots[op.target_inputs[1]] = M[ops[p].inputs[1]]
    BY <1>5, <2>1
  <2> QED BY <1>1, <1>2, <1>4, <1>8, <2>2 DEF eval_target_op, NodeValue, Flag, eq, Abstract!Truth
<1>9. CASE op.op_type = "CONSTANT"
  BY <1>1, <1>2, <1>4, <1>9 DEF eval_target_op, NodeValue
<1>10. CASE op.op_type = "TARGET_AT"
  <2>1. 1 \in DOMAIN ops[p].inputs
    <3>1. Arity(ops[p].op_type) = 1
      BY <1>2, <1>10 DEF Arity, BinaryOps
    <3> QED BY <1>3, <3>1
  <2>2. PICK q : q = ops[p].inputs[1]
    OBVIOUS
  <2>3. IsVector(ops[q].op_type)
    <3>1. 1 \in 1 .. Len(ops[p].inputs)
      BY <2>1 DEF OperationOf
    <3>2. IsVector(ops[q].op_type) <=> ops[p].op_type = "TARGET_AT"
      BY <1>2, <2>2, <3>1 DEF NodeOK
    <3> QED BY <1>2, <1>10, <3>2
  <2>4. vec_targets[op.target_inputs[1]] = M[q]
    BY <1>1, <1>2, <2>1, <2>2, <2>3, OperandHeld
  <2> QED BY <1>1, <1>2, <1>4, <1>10, <2>2, <2>4 DEF eval_target_op, NodeValue
<1> QED BY <1>1, <1>3, <1>7, <1>8, <1>9, <1>10

\* So does a hash.
LEMMA VectorOpMeans ==
  ASSUME MeaningOK, phase = "built", NEW k \in Nat, NEW p, OperationOf(k + 1, p),
         IsVector(ops[p].op_type), NEW slots, NEW h,
         RawHeld(slots, h), NodesHeld(slots, vec_targets, k), h = k + 1 \/ h = Len(generators)
  PROVE  eval_vector_op(Operations[k + 1], slots) = Abstract!Meaning[p]
<1>1. PICK op, M : op = Operations[k + 1] /\ M = Abstract!Meaning
  OBVIOUS
<1>2. /\ ops[p].op_type = "POSEIDON_HASH" /\ p \in Pointers /\ NodeOK(p)
      /\ DOMAIN op.target_inputs = DOMAIN ops[p].inputs
      /\ \A i \in DOMAIN ops[p].inputs : op.target_inputs[i] = TargetOf(ops[p].inputs[i])
  BY <1>1 DEF OperationOf, IsVector
<1>3. M[p] = NodeValue(M, p)
  BY <1>1, <1>2, MeaningIs DEF MeaningOK, CircuitOK, TypeOK
<1>4. ASSUME NEW i \in DOMAIN ops[p].inputs
      PROVE  slots[op.target_inputs[i]] = M[ops[p].inputs[i]]
  <2>1. PICK q : q = ops[p].inputs[i]
    OBVIOUS
  <2>2. ~IsVector(ops[q].op_type)
    <3>1. i \in 1 .. Len(ops[p].inputs)
      BY DEF OperationOf
    <3>2. IsVector(ops[q].op_type) <=> ops[p].op_type = "TARGET_AT"
      BY <1>2, <2>1, <3>1 DEF NodeOK
    <3> QED BY <1>2, <3>2
  <2> QED BY <1>1, <1>2, <2>1, <2>2, OperandHeld
<1>5. [i \in DOMAIN op.target_inputs |-> slots[op.target_inputs[i]]]
        = [i \in DOMAIN ops[p].inputs |-> M[ops[p].inputs[i]]]
  BY <1>2, <1>4
<1>6. NodeValue(M, p) = Poseidon([i \in DOMAIN ops[p].inputs |-> M[ops[p].inputs[i]]])
  BY <1>2 DEF NodeValue
<1> QED BY <1>1, <1>3, <1>5, <1>6 DEF eval_vector_op

-----------------------------------------------------------------------------
(* Every step keeps the values in the slots                                *)

\* What the evaluator does not touch has the same value after its step.
LEMMA MeaningKept ==
  ASSUME UNCHANGED finalizeVars, UNCHANGED inputs
  PROVE  /\ UNCHANGED <<ops, generators, input_target_count, target_id, global_target_id,
                        Emitted, Pointers, FirstSlot, Abstract!Meaning>>
         /\ \A i : /\ Abstract!Owner(i)' = Abstract!Owner(i)
                   /\ Abstract!InputValue(i)' = Abstract!InputValue(i)
         /\ \A p : TargetOf(p)' = TargetOf(p)
         /\ \A g : Outputs(g)' = Outputs(g)
<1>1. UNCHANGED <<ops, generators, input_target_count, target_id, global_target_id, circuit>>
  BY DEF finalizeVars, builderVars, finalizerVars
<1>2. UNCHANGED <<Emitted, Pointers, FirstSlot>>
  BY <1>1 DEF Emitted, Pointers, FirstSlot
<1>3. Abstract!Meaning' = Abstract!Meaning
  BY <1>1, MeaningStays
<1>4. \A i : /\ Abstract!Owner(i)' = Abstract!Owner(i)
             /\ Abstract!InputValue(i)' = Abstract!InputValue(i)
  BY <1>1 DEF Abstract!Owner, Abstract!InputValue
<1>5. \A p : TargetOf(p)' = TargetOf(p)
  BY <1>1 DEF TargetOf
<1>6. \A g : Outputs(g)' = Outputs(g)
  BY <1>1 DEF Outputs, EndOfOutputs
<1> QED BY <1>1, <1>2, <1>3, <1>4, <1>5, <1>6

\* The new slots hold values if they hold those of the nodes as they are.
LEMMA ValuesAfter ==
  ASSUME UNCHANGED finalizeVars, UNCHANGED inputs,
         NEW slots, slots = targets', NEW vectors, vectors = vec_targets',
         NEW k, k = op_index', NEW g, g = current_generator',
         RawHeld(slots, g), NodesHeld(slots, vectors, k),
         gen_target_index' = input_target_count + Outputs(g),
         g <= k, g = k \/ g = Len(generators), outcome' = "running"
  PROVE  ValuesOK'
<1>1. /\ UNCHANGED <<ops, generators, input_target_count, target_id, global_target_id,
                     Emitted, Pointers, FirstSlot, Abstract!Meaning>>
      /\ \A i : /\ Abstract!Owner(i)' = Abstract!Owner(i)
                /\ Abstract!InputValue(i)' = Abstract!InputValue(i)
      /\ \A p : TargetOf(p)' = TargetOf(p)
      /\ \A i : Outputs(i)' = Outputs(i)
  BY MeaningKept
<1>2. Outputs(current_generator)' = Outputs(g)
  BY <1>1
<1>3. \A i \in 0 .. input_target_count' - 1 : targets'[i] = Abstract!InputValue(i)'
  BY <1>1 DEF RawHeld
<1>4. ASSUME NEW p \in Emitted', global_target_id'[p] - FirstSlot' < op_index'
      PROVE  IF IsVector(ops'[p].op_type) THEN vec_targets'[target_id'[p]] = Abstract!Meaning'[p]
             ELSE targets'[target_id'[p]] = Abstract!Meaning'[p]
  BY <1>1, <1>4 DEF NodesHeld
<1>5. ASSUME NEW p \in Pointers', ops'[p].op_type = "GENERATOR_INPUT",
             Abstract!Owner(ops[p].constants[1]) <= g
      PROVE  targets'[TargetOf(p)] = Abstract!Meaning'[p]
  BY <1>1, <1>5 DEF RawHeld
<1>6. SlotsHoldMeaning'
  BY <1>1, <1>4, <1>5 DEF SlotsHoldMeaning
<1> QED BY <1>1, <1>2, <1>3, <1>6 DEF ValuesOK

\* An iteration of the loop.
LEMMA ValuesOperation ==
  ASSUME MeaningOK, WordsFit(Canonical), EvalOK(Canonical), ValuesOK,
         eval_operation, UNCHANGED finalizeVars
  PROVE  ValuesOK'
<1>1. PICK k, g, slots, h, op :
        /\ k = op_index /\ g = current_generator
        /\ slots = IF op_index >= min_id THEN eval_generator(g + 1) ELSE targets
        /\ h = IF op_index >= min_id THEN g + 1 ELSE g
        /\ op = Operations[k + 1]
  OBVIOUS
<1>2. /\ outcome = "running" /\ k < Len(Operations) /\ op_index' = k + 1
      /\ current_generator' = h /\ UNCHANGED <<inputs, outcome>>
  BY <1>1 DEF eval_operation, Operations
<1>3. /\ phase = "built" /\ k \in Nat /\ h \in 0 .. Len(generators)
      /\ h <= k + 1 /\ (h = k + 1 \/ h = Len(generators))
      /\ slots \in [TargetSlots -> Canonical]
      /\ RawHeld(slots, h) /\ NodesHeld(slots, vec_targets, k)
      /\ op_index >= min_id =>
           gen_target_index + circuit.generators[g + 1].constant_inputs[1]
             = input_target_count + Outputs(h)
  BY <1>1, <1>2, SlotsOfIteration
<1>4. gen_target_index' = input_target_count + Outputs(h)
  BY <1>1, <1>2, <1>3 DEF eval_operation, ValuesOK
<1>5. /\ DOMAIN vec_targets = 0 .. VectorSlots - 1
      /\ vec_index = VectorsIn(k) /\ target_index = FirstSlot + ScalarsIn(k)
  BY <1>1, <1>2 DEF EvalOK
<1>6. PICK n, first, s, v, all, vectors, count, size \in Nat :
        /\ n = Len(Operations) /\ first = FirstSlot /\ s = ScalarsIn(k) /\ v = VectorsIn(k)
        /\ all = ScalarSlots /\ vectors = VectorSlots
        /\ count = input_target_count /\ size = generator_target_count
        /\ first = count + size
  <2>1. ScalarsIn(k) \in Nat /\ VectorsIn(k) \in Nat
    BY <1>3, SlotsNext
  <2>2. /\ Len(Operations) \in Nat /\ FirstSlot \in Nat /\ ScalarSlots \in Nat
        /\ VectorSlots \in Nat /\ input_target_count \in Nat /\ generator_target_count \in Nat
        /\ FirstSlot = input_target_count + generator_target_count
    BY <1>3, SlotsOfCircuit DEF MeaningOK
  <2> QED BY <2>1, <2>2
<1>7. CircuitOK /\ GeneratorsOK /\ HeapOK /\ InRow
  BY DEF MeaningOK, CircuitOK, TypeOK, GeneratorsOK
<1>8. k + 1 \in 1 .. Len(Operations)
  BY <1>2, <1>3, <1>6
<1>9. PICK new, newVectors : new = targets' /\ newVectors = vec_targets'
  OBVIOUS
\* the operation's own slot
<1>10. \A p : OperationOf(k + 1, p) =>
         IF IsVector(ops[p].op_type) THEN target_id[p] = v ELSE target_id[p] = first + s
  BY <1>3, <1>6, SlotWritten DEF OperationOf
<1>11. /\ \A id \in TargetSlots : id # first + s => new[id] = slots[id]
       /\ \A id \in 0 .. vectors - 1 : id # v => newVectors[id] = vec_targets[id]
       /\ \A p : OperationOf(k + 1, p) =>
            IF IsVector(ops[p].op_type) THEN newVectors[v] = Abstract!Meaning[p]
                                        ELSE new[first + s] = Abstract!Meaning[p]
  <2>1. CASE IsVector(op.op_type)
    <3>1. /\ newVectors = [vec_targets EXCEPT ![v] = eval_vector_op(op, slots)]
          /\ new = slots
      BY <1>1, <1>5, <1>6, <1>9, <2>1 DEF eval_operation, Operations
    <3>2. v \in 0 .. vectors - 1
      <4>1. VectorsIn(k + 1) = v + 1
        BY <1>1, <1>3, <1>6, <2>1, SlotsNext
      <4>2. k + 1 \in Nat /\ k + 1 <= n
        BY <1>3, <1>6, <1>8
      <4>3. VectorsIn(k + 1) <= VectorsIn(n) /\ VectorsIn(n) = vectors
        BY <1>3, <1>6, <1>7, <4>2, SlotsGrow, SlotsOfCircuit
      <4> QED BY <4>1, <4>3
    <3>3. ASSUME NEW p, OperationOf(k + 1, p)
          PROVE  IsVector(ops[p].op_type) /\ newVectors[v] = Abstract!Meaning[p]
      <4>1. IsVector(ops[p].op_type)
        BY <1>1, <2>1, <3>3 DEF OperationOf
      <4>2. eval_vector_op(op, slots) = Abstract!Meaning[p]
        BY <1>1, <1>3, <3>3, <4>1, VectorOpMeans
      <4> QED BY <1>5, <1>6, <3>1, <3>2, <4>1, <4>2
    <3> QED BY <1>5, <1>6, <3>1, <3>2, <3>3
  <2>2. CASE ~IsVector(op.op_type)
    <3>1. /\ new = [slots EXCEPT ![first + s] = eval_target_op(op, slots)]
          /\ newVectors = vec_targets
      BY <1>1, <1>5, <1>6, <1>9, <2>2 DEF eval_operation, Operations
    <3>2. first + s \in TargetSlots
      <4>1. ScalarsIn(k + 1) = s + 1
        BY <1>1, <1>3, <1>6, <2>2, SlotsNext
      <4>2. k + 1 \in Nat /\ k + 1 <= n
        BY <1>3, <1>6, <1>8
      <4>3. ScalarsIn(k + 1) <= ScalarsIn(n) /\ ScalarsIn(n) = all
        BY <1>3, <1>6, <1>7, <4>2, SlotsGrow, SlotsOfCircuit
      <4>4. first + s \in 0 .. first + all - 1
        BY <4>1, <4>3
      <4> QED BY <1>6, <4>4 DEF TargetSlots
    <3>3. ASSUME NEW p, OperationOf(k + 1, p)
          PROVE  ~IsVector(ops[p].op_type) /\ new[first + s] = Abstract!Meaning[p]
      <4>1. ~IsVector(ops[p].op_type)
        BY <1>1, <2>2, <3>3 DEF OperationOf
      <4>2. eval_target_op(op, slots) = Abstract!Meaning[p]
        BY <1>1, <1>2, <1>3, <3>3, <4>1, TargetOpMeans
      <4> QED BY <1>3, <3>1, <3>2, <4>1, <4>2
    <3>4. \A id \in TargetSlots : id # first + s => new[id] = slots[id]
      BY <1>3, <3>1
    <3> QED BY <3>1, <3>3, <3>4
  <2> QED BY <2>1, <2>2
<1>12. RawHeld(new, h)
  <2>1. \A id \in 0 .. first - 1 : id \in TargetSlots /\ id # first + s
    <3>1. \A id \in 0 .. first - 1 : id \in 0 .. first + all - 1 /\ id # first + s
      OBVIOUS
    <3> QED BY <1>6, <3>1 DEF TargetSlots
  <2>2. \A id \in 0 .. first - 1 : new[id] = slots[id]
    BY <1>11, <2>1
  <2>3. \A i \in 0 .. input_target_count - 1 : i \in 0 .. first - 1
    BY <1>6
  <2>4. ASSUME NEW p \in Pointers, ops[p].op_type = "GENERATOR_INPUT"
        PROVE  TargetOf(p) \in 0 .. first - 1
    <3>1. PICK c, w : c = ops[p].constants[1] /\ w = Abstract!Owner(c)
      OBVIOUS
    <3>2. c \in Nat /\ TargetOf(p) = count + c /\ w \in 1 .. Len(generators) /\ c < Outputs(w)
      BY <1>6, <1>7, <2>4, <3>1, OutputSlot
    <3>3. Outputs(w) \in Nat /\ Outputs(w) <= size
      BY <1>6, <1>7, <3>2, OutputsNext
    <3>4. c < size
      BY <3>2, <3>3
    <3> QED BY <1>6, <3>2, <3>4
  <2> QED BY <1>3, <2>2, <2>3, <2>4 DEF RawHeld
<1>13. NodesHeld(new, newVectors, k + 1)
  <2> SUFFICES ASSUME NEW p \in Emitted, global_target_id[p] - FirstSlot < k + 1
               PROVE  IF IsVector(ops[p].op_type)
                      THEN newVectors[target_id[p]] = Abstract!Meaning[p]
                      ELSE new[target_id[p]] = Abstract!Meaning[p]
    BY DEF NodesHeld
  <2>1. PICK j \in Nat : /\ j < k + 1 /\ OperationOf(j + 1, p)
                         /\ global_target_id[p] = FirstSlot + j
    <3>1. k + 1 \in Nat
      BY <1>3
    <3> QED BY <1>3, <1>7, <3>1, PlaceBelow
  <2>2. CASE j = k
    BY <1>10, <1>11, <2>1, <2>2
  <2>3. CASE j < k
    <3>1. /\ IsVector(ops[p].op_type) => vec_targets[target_id[p]] = Abstract!Meaning[p]
          /\ ~IsVector(ops[p].op_type) => slots[target_id[p]] = Abstract!Meaning[p]
      <4>1. global_target_id[p] - FirstSlot < k
        <5>1. (first + j) - first < k
          BY <1>3, <2>3
        <5> QED BY <1>6, <2>1, <5>1
      <4> QED BY <1>3, <4>1 DEF NodesHeld
    <3>2. k <= n /\ s <= all /\ v <= vectors
      <4>1. k <= n
        BY <1>3, <1>6, <1>8
      <4> QED BY <1>3, <1>6, <1>7, <4>1, SlotsGrow, SlotsOfCircuit
    <3>3. CASE IsVector(ops[p].op_type)
      <4>1. target_id[p] \in 0 .. v - 1
        BY <1>3, <1>6, <1>7, <2>1, <2>3, <3>2, <3>3, SlotOfPlace
      <4>2. target_id[p] \in 0 .. vectors - 1 /\ target_id[p] # v
        BY <3>2, <4>1
      <4> QED BY <1>11, <3>1, <3>3, <4>2
    <3>4. CASE ~IsVector(ops[p].op_type)
      <4>1. target_id[p] \in first .. first + s - 1
        BY <1>3, <1>6, <1>7, <2>1, <2>3, <3>2, <3>4, SlotOfPlace
      <4>2. target_id[p] \in 0 .. first + all - 1 /\ target_id[p] # first + s
        BY <3>2, <4>1
      <4> QED BY <1>6, <1>11, <3>1, <3>4, <4>2 DEF TargetSlots
    <3> QED BY <3>3, <3>4
  <2> QED BY <1>3, <2>1, <2>2, <2>3
<1> QED BY <1>2, <1>3, <1>4, <1>9, <1>12, <1>13, ValuesAfter

\* The constructor puts the inputs in the first slots.
LEMMA ValuesConstruct ==
  ASSUME CircuitOK, Construct
  PROVE  ValuesOK'
<1>1. PICK n \in Nat : \E in \in [1 .. n -> InputWords] : new_evaluator(in)
  <2>1. input_target_count + 1 \in Nat
    BY DEF CircuitOK, TypeOK, HeapOK
  <2>2. PICK n \in 0 .. input_target_count + 1 : \E in \in [1 .. n -> InputWords] : new_evaluator(in)
    BY DEF Construct
  <2>3. n \in Nat
    BY <2>1
  <2> QED BY <2>2, <2>3
<1> PICK in \in [1 .. n -> InputWords] : new_evaluator(in)
  BY <1>1
<1>2. /\ phase = "built" /\ outcome' = "ready" /\ inputs' = in /\ UNCHANGED input_target_count
  BY DEF new_evaluator, Construct, finalizeVars, builderVars
<1>3. PICK slots, first, all, count, size \in Nat :
        /\ slots = Len(circuit.operations) + FirstSlot - circuit.vector_operation_count
        /\ count = input_target_count /\ size = generator_target_count
        /\ first = FirstSlot /\ all = ScalarSlots
        /\ first = count + size /\ slots = first + all
  <2>1. PICK m, v, first, all, count, size \in Nat :
          /\ m = Len(circuit.operations) /\ v = circuit.vector_operation_count
          /\ count = input_target_count /\ size = generator_target_count
          /\ first = FirstSlot /\ all = ScalarSlots
          /\ first = count + size /\ m = all + v
    BY <1>2, SlotsOfCircuit DEF Operations
  <2>2. m + first - v = first + all
    BY <2>1
  <2> QED BY <2>1, <2>2
<1>4. ASSUME NEW i \in 0 .. input_target_count - 1
      PROVE  targets'[i] = Abstract!InputValue(i)'
  <2>1. i \in 0 .. slots - 1
    BY <1>3
  <2>2. targets' = [id \in 0 .. slots - 1 |-> IF id < Len(in) THEN in[id + 1] ELSE 0]
    BY <1>3 DEF new_evaluator
  <2>3. targets'[i] = IF i < Len(in) THEN in[i + 1] ELSE 0
    BY <2>1, <2>2
  <2> QED BY <1>2, <2>3 DEF Abstract!InputValue
<1> QED BY <1>2, <1>4 DEF ValuesOK, SlotsHoldMeaning

\* A call begins with the inputs in their slots, whatever earlier calls have
\* left in the others.
LEMMA ValuesCall ==
  ASSUME MeaningOK, EvalOK(Canonical), ValuesOK, eval_circuit, UNCHANGED finalizeVars
  PROVE  ValuesOK'
<1>1. /\ outcome # "none" /\ op_index' = 0 /\ current_generator' = 0
      /\ gen_target_index' = circuit.input_target_count /\ outcome' = "running"
      /\ UNCHANGED <<inputs, targets, vec_targets>>
  BY DEF eval_circuit
<1>2. phase = "built" /\ CircuitOK /\ HeapOK /\ InRow
  BY <1>1 DEF EvalOK, MeaningOK, CircuitOK, TypeOK, GeneratorsOK
<1>3. circuit.input_target_count = input_target_count /\ input_target_count \in Nat
  BY <1>2, SlotsOfCircuit
<1>4. gen_target_index' = input_target_count + Outputs(0)
  BY <1>1, <1>3 DEF Outputs
<1>5. RawHeld(targets, 0)
  <2>1. \A i \in 0 .. input_target_count - 1 : targets[i] = Abstract!InputValue(i)
    BY <1>1 DEF ValuesOK
  <2>2. ASSUME NEW p \in Pointers, ops[p].op_type = "GENERATOR_INPUT",
               Abstract!Owner(ops[p].constants[1]) <= 0
        PROVE  FALSE
    <3>1. PICK c, w : c = ops[p].constants[1] /\ w = Abstract!Owner(c)
      OBVIOUS
    <3>2. w \in 1 .. Len(generators)
      BY <1>2, <2>2, <3>1, OwnerIs
    <3> QED BY <2>2, <3>1, <3>2
  <2> QED BY <2>1, <2>2 DEF RawHeld
<1>6. NodesHeld(targets, vec_targets, 0)
  <2> SUFFICES ASSUME NEW p \in Emitted, global_target_id[p] - FirstSlot < 0
               PROVE  FALSE
    BY DEF NodesHeld
  <2>1. 0 \in Nat
    OBVIOUS
  <2>2. PICK j \in Nat : j < 0
    BY <1>2, <2>1, PlaceBelow
  <2> QED BY <2>2
<1>7. PICK slots, vectors, k, g :
        /\ slots = targets' /\ vectors = vec_targets' /\ k = op_index' /\ g = current_generator'
  OBVIOUS
<1>8. RawHeld(slots, g) /\ NodesHeld(slots, vectors, k) /\ k = 0 /\ g = 0
  BY <1>1, <1>5, <1>6, <1>7
<1> QED BY <1>1, <1>4, <1>7, <1>8, ValuesAfter

\* The end of a call, and steps of the author and the build.
LEMMA ValuesRest ==
  ASSUME ValuesOK,
         \/ return_outputs /\ UNCHANGED finalizeVars
         \/ Compile
         \/ UNCHANGED evalVars
  PROVE  ValuesOK'
<1>1. CASE UNCHANGED finalizeVars
           /\ UNCHANGED <<inputs, targets, vec_targets, op_index, current_generator,
                          gen_target_index>>
           /\ \/ UNCHANGED outcome
              \/ outcome = "running" /\ outcome' \in {"returned", "threw"} /\ LoopDone
  <2>1. /\ UNCHANGED <<ops, generators, input_target_count, target_id, global_target_id,
                       Emitted, Pointers, FirstSlot, Abstract!Meaning>>
        /\ \A i : /\ Abstract!Owner(i)' = Abstract!Owner(i)
                  /\ Abstract!InputValue(i)' = Abstract!InputValue(i)
        /\ \A p : TargetOf(p)' = TargetOf(p)
        /\ \A g : Outputs(g)' = Outputs(g)
    BY <1>1, MeaningKept
  <2>2. Outputs(current_generator)' = Outputs(current_generator)
    BY <1>1, <2>1
  <2>3. SlotsHoldMeaning'
    BY <1>1, <2>1 DEF ValuesOK, SlotsHoldMeaning
  <2>4. LoopDone' = LoopDone
    BY <1>1 DEF LoopDone, finalizeVars, finalizerVars
  <2>5. outcome' \in {"returned", "threw"} => LoopDone'
    BY <1>1, <2>4 DEF ValuesOK
  <2>6. outcome' # "none" => outcome # "none"
    BY <1>1
  <2>7. outcome' \notin {"none", "ready"} => outcome \notin {"none", "ready"}
    BY <1>1
  <2> QED BY <1>1, <2>1, <2>2, <2>3, <2>5, <2>6, <2>7 DEF ValuesOK
<1>2. CASE return_outputs /\ UNCHANGED finalizeVars
  BY <1>1, <1>2 DEF return_outputs
<1>3. CASE Compile
  BY <1>3 DEF Compile, evaluatorVars, ValuesOK, SlotsHoldMeaning
<1>4. CASE UNCHANGED evalVars
  BY <1>1, <1>4 DEF evalVars, evaluatorVars
<1> QED BY <1>2, <1>3, <1>4

-----------------------------------------------------------------------------
(* What the evaluator computes                                             *)

\* The inductive invariant.
ValuesInv ==
  /\ CircuitOK /\ GeneratorsOK /\ EvalOK(Canonical)
  /\ ArgumentsRaw => ScheduleOK /\ ValuesOK

\* It holds at first, and every step keeps it.
LEMMA ValuesInvInit ==
  ASSUME EvaluationInit
  PROVE  ValuesInv
<1>1. CircuitOK /\ EvalOK(Canonical)
  BY EvaluatorInitOK
<1>2. GeneratorsOK /\ ScheduleOK
  BY GeneratorsInit DEF EvaluationInit, CircuitInit, FinalizerInit, ScheduleOK, FirstBuild
<1>3. ValuesOK
  BY DEF EvaluationInit, EvaluatorInit, ValuesOK, SlotsHoldMeaning
<1> QED BY <1>1, <1>2, <1>3 DEF ValuesInv

LEMMA ValuesInvStep ==
  ASSUME OneBuild, NoStrayInputs, WordsFit(Canonical), ValuesInv, [EvaluatorNext]_evalVars
  PROVE  ValuesInv'
<1>1. CircuitOK /\ EvalOK(Canonical) /\ CircuitOK' /\ EvalOK(Canonical)'
  <2>1. PICK S \in {Words, Canonical} : S = Canonical
    OBVIOUS
  <2> QED BY <2>1, EvaluatorStepOK DEF ValuesInv
<1>2. [BuilderCall \/ build \/ Walk]_finalizeVars
  BY DEF EvaluatorNext, Compile, Construct, Evaluate, evalVars
<1>3. GeneratorsOK'
  BY <1>1, <1>2, BuilderSideStep DEF ValuesInv, CircuitOK
<1>4. ASSUME ArgumentsRaw'
      PROVE  ScheduleOK'
  <2>1. /\ TypeOK /\ TypeOK' /\ StackOK /\ GlobalIdsCounted /\ SlotsOK /\ NeedsOK /\ GeneratorsOK
        /\ ArgumentsRaw => ScheduleOK
    BY <1>1 DEF CircuitOK, ValuesInv
  <2> QED BY <1>2, <1>4, <2>1, ScheduleStep
<1>5. ASSUME ArgumentsRaw'
      PROVE  ValuesOK'
  <2>1. UNCHANGED finalizeVars => MeaningOK /\ ValuesOK
    <3>1. UNCHANGED finalizeVars => ArgumentsRaw
      BY <1>5 DEF finalizeVars, builderVars, ArgumentsRaw
    <3> QED BY <3>1 DEF ValuesInv, MeaningOK
  <2>2. CASE Compile
    <3>1. outcome' = "none"
      BY <2>2 DEF Compile, evaluatorVars
    <3> QED BY <3>1 DEF ValuesOK, SlotsHoldMeaning
  <2>3. CASE Construct
    BY <1>1, <2>3, ValuesConstruct
  <2>4. CASE eval_circuit /\ UNCHANGED finalizeVars
    BY <1>1, <2>1, <2>4, ValuesCall
  <2>5. CASE Evaluate
    BY <1>1, <2>1, <2>5, ValuesOperation, ValuesRest DEF Evaluate
  <2>6. CASE UNCHANGED evalVars
    BY <2>1, <2>6, ValuesRest DEF evalVars
  <2> QED BY <2>2, <2>3, <2>4, <2>5, <2>6 DEF EvaluatorNext
<1> QED BY <1>1, <1>3, <1>4, <1>5 DEF ValuesInv

\* Whatever circuit was built, and in whatever call, every slot the evaluator has
\* written holds the value of its node in the prime field.
THEOREM SlotsHoldTheMeaning ==
  ASSUME OneBuild, NoStrayInputs, WordsFit(Canonical)
  PROVE  EvaluatorSpec => [](ArgumentsRaw => SlotsHoldMeaning)
<1>1. EvaluationInit => ValuesInv
  BY ValuesInvInit
<1>2. ValuesInv /\ [EvaluatorNext]_evalVars => ValuesInv'
  BY ValuesInvStep
<1>3. ValuesInv => (ArgumentsRaw => SlotsHoldMeaning)
  BY DEF ValuesInv, ValuesOK
<1> QED BY <1>1, <1>2, <1>3, PTL DEF EvaluatorSpec

-----------------------------------------------------------------------------
(* The evaluator implements the abstract circuit                           *)

\* The author adds to the graph, and leaves what is there as it is.
LEMMA AuthorGrows ==
  ASSUME HeapOK, BuilderNext
  PROVE  /\ \A i \in 1 .. Len(ops) : ops'[i] = ops[i]
         /\ \A i \in 1 .. Len(generators) : generators'[i] = generators[i]
         /\ \A i \in 1 .. Len(assertions) : assertions'[i] = assertions[i]
         /\ \A i \in 1 .. Len(output_ops) : output_ops'[i] = output_ops[i]
<1>1. \A i \in 1 .. Len(ops) : ops'[i] = ops[i]
  BY BuilderCallOK DEF HeapGrows, Pointers
<1>2. \A i \in 1 .. Len(output_ops) : output_ops'[i] = output_ops[i]
  <2>1. UNCHANGED output_ops \/ \E p \in ScalarNodes : output_ops' = Append(output_ops, p)
    BY DEF BuilderNext, add_input, add_generator_input, constant, negate, binary, hash_no_pad,
           add_generator, new_generator, connect, register_output, Allocate
  <2>2. ASSUME NEW p \in ScalarNodes, output_ops' = Append(output_ops, p)
        PROVE  \A i \in 1 .. Len(output_ops) : output_ops'[i] = output_ops[i]
    <3>1. output_ops \in Seq(Nat) /\ p \in Nat
      BY DEF HeapOK, RootsOK, ScalarNodes
    <3> QED BY <2>2, <3>1, AppendProperties
  <2> QED BY <2>1, <2>2
<1>3. CASE PlainCall \/ add_generator_input
  BY <1>1, <1>2, <1>3 DEF PlainCall, AssertionsGrow, add_generator_input
<1>4. ASSUME NEW arg \in ScalarNodes, NEW bits \in GeneratorBits, new_generator(arg, bits)
      PROVE  /\ \A i \in 1 .. Len(generators) : generators'[i] = generators[i]
             /\ \A i \in 1 .. Len(assertions) : assertions'[i] = assertions[i]
  <2>1. arg \in Nat /\ bits \in Nat \ {0} /\ generator_target_count \in Nat
    BY AuthorAssumption, OutputsAreNat DEF ScalarNodes
  <2>2. \A i \in 1 .. Len(generators) : generators'[i] = generators[i]
    <3> DEFINE definition == [generator_id |-> BitSum, inputs |-> <<arg>>,
                              constants |-> <<bits>>, num_outputs |-> num_outputs(<<bits>>),
                              start_generator_output_index |-> generator_target_count]
    <3>1. definition \in GeneratorDefinition
      BY <2>1 DEF GeneratorDefinition, num_outputs
    <3>2. generators' = Append(generators, definition) /\ generators \in Seq(GeneratorDefinition)
      BY <1>4 DEF new_generator, HeapOK, RootsOK
    <3> HIDE DEF definition
    <3> QED BY <3>1, <3>2, AppendProperties
  <2>3. \A i \in 1 .. Len(assertions) : assertions'[i] = assertions[i]
    <3>1. PICK base, size \in Nat : base = Len(ops) /\ size = base + 2 + 3 * bits + 3 * (bits - 1)
      <4>1. Len(ops) \in Nat
        BY LenProperties DEF HeapOK, NodesOK
      <4> QED BY <2>1, <4>1
    <3>2. Nat \in SUBSET Nat /\ base + 1 .. size \subseteq Nat /\ arg \in Nat
      BY <2>1, <3>1
    <3>3. PICK new : new = ConstrainAssertions(base, bits, arg)
                     /\ new \in Seq([left : Nat, right : Nat])
      <4>1. PICK S \in SUBSET Nat : base + 1 .. size \subseteq S /\ arg \in S
        BY <3>2
      <4>2. bits \in Nat \ {0} /\ size = base + 2 + 3 * bits + 3 * (bits - 1)
        BY <2>1, <3>1
      <4>3. ConstrainAssertions(base, bits, arg) \in Seq([left : Nat, right : Nat])
        BY <4>1, <4>2, ConstrainRoots
      <4> QED BY <4>3
    <3>4. assertions' = assertions \o new /\ assertions \in Seq([left : Nat, right : Nat])
      BY <1>4, <3>1, <3>3 DEF new_generator, HeapOK, RootsOK
    <3>5. PICK Pair : Pair = [left : Nat, right : Nat]
      OBVIOUS
    <3>6. new \in Seq(Pair) /\ assertions \in Seq(Pair)
      BY <3>3, <3>4, <3>5
    <3>7. Len(assertions) \in Nat /\ Len(new) \in Nat
      BY <3>6, LenProperties
    <3>8. ASSUME NEW i \in 1 .. Len(assertions)
          PROVE  assertions'[i] = assertions[i]
      <4>1. i \in 1 .. Len(assertions) + Len(new) /\ i <= Len(assertions)
        BY <3>7
      <4> QED BY <3>4, <3>6, <4>1, ConcatProperties
    <3> QED BY <3>8
  <2> QED BY <2>2, <2>3
<1> QED BY <1>1, <1>2, <1>3, <1>4, CallKinds

\* When the loop is done all generators have run, and a root of the graph is in
\* its slot.
LEMMA RootHeld ==
  ASSUME MeaningOK, EvalOK(Canonical), ValuesOK, outcome \notin {"none", "ready"}, LoopDone,
         NEW q \in ScalarNodes, Resolved(q)
  PROVE  targets[TargetOf(q)] = Abstract!Meaning[q]
<1>1. /\ phase = "built" /\ current_generator \in 0 .. Len(circuit.generators)
      /\ op_index = Len(Operations)
      /\ current_generator = op_index \/ current_generator = Len(generators)
      /\ CircuitOK /\ GeneratorsOK /\ HeapOK /\ InRow
      /\ q \in Pointers /\ ~IsVector(ops[q].op_type)
  BY DEF EvalOK, ValuesOK, LoopDone, Operations, MeaningOK, CircuitOK, TypeOK, GeneratorsOK,
         ScalarNodes, Pointers
<1>2. RawHeld(targets, current_generator) /\ NodesHeld(targets, vec_targets, op_index)
  BY ValuesAre
<1>3. CASE q \in DOMAIN target_id
  <2>1. q \in Emitted /\ TargetOf(q) = target_id[q]
    BY <1>1, <1>3 DEF CircuitOK, TypeOK, Emitted, TargetOf
  <2>2. Place(q) \in 1 .. Len(Operations) /\ Place(q) = global_target_id[q] - FirstSlot + 1
    BY <1>1, <2>1, NodeOfPlace DEF Place
  <2>3. global_target_id[q] - FirstSlot < Len(Operations)
    <3>1. PICK id, first, n \in Nat : id = global_target_id[q] /\ first = FirstSlot
                                      /\ n = Len(Operations)
      BY <1>1, <2>1, FirstSlotIsNat DEF CircuitOK, TypeOK, Emitted
    <3> QED BY <2>2, <3>1
  <2> QED BY <1>1, <1>2, <2>1, <2>3 DEF NodesHeld
<1>4. CASE ops[q].op_type = "INPUT"
  BY <1>1, <1>2, <1>4, InputHeld
<1>5. CASE ops[q].op_type = "GENERATOR_INPUT"
  <2>1. PICK c, w : c = ops[q].constants[1] /\ w = Abstract!Owner(c)
    OBVIOUS
  <2>2. w \in 1 .. Len(generators)
    BY <1>1, <1>5, <2>1, OwnerIs
  <2>3. Len(generators) <= Len(Operations) /\ Len(circuit.generators) = Len(generators)
    BY <1>1 DEF MeaningOK, ScheduleOK, ReadersWait, CircuitOK, BuiltOnce, FirstBuild, NeedsOK,
                LoopsInOrder
  <2>4. w <= current_generator
    <3>1. PICK n, m \in Nat : n = Len(generators) /\ m = Len(Operations)
      BY <1>1, OutputsAreNat, FirstSlotIsNat
    <3> QED BY <1>1, <2>2, <2>3, <3>1
  <2> QED BY <1>1, <1>2, <1>5, <2>1, <2>4 DEF RawHeld
<1> QED BY <1>3, <1>4, <1>5 DEF Resolved

\* What is read of the slots at the end of a call is what the abstract circuit
\* says of the graph.
LEMMA CallReturnsMeaning ==
  ASSUME MeaningOK, EvalOK(Canonical), ValuesOK, return_outputs, UNCHANGED finalizeVars
  PROVE  Abstract!Return \/ Abstract!Throw
<1>1. /\ outcome = "running" /\ LoopDone /\ phase = "built"
      /\ UNCHANGED <<ops, generators, assertions, output_ops, inputs>>
  BY DEF return_outputs, EvalOK, finalizeVars, builderVars
<1>2. /\ LoopsInOrder /\ RootsCopied /\ RootsOK
      /\ Len(circuit.assertions) = Len(assertions) /\ Len(circuit.output_ops) = Len(output_ops)
  BY <1>1 DEF MeaningOK, CircuitOK, BuiltOnce, NeedsOK, LoopsInOrder, CopiesOK, FirstBuild,
              TypeOK, HeapOK
<1>3. AssertionsHold <=> Abstract!Satisfied
  <2>1. ASSUME NEW a \in 1 .. Len(assertions)
        PROVE  /\ targets[circuit.assertions[a].left] = Abstract!Meaning[assertions[a].left]
               /\ targets[circuit.assertions[a].right] = Abstract!Meaning[assertions[a].right]
    <3>1. PICK left, right \in ScalarNodes :
            left = assertions[a].left /\ right = assertions[a].right
      BY <1>2 DEF RootsOK
    <3>2. Resolved(left) /\ Resolved(right)
      BY <1>2, <3>1 DEF LoopsInOrder
    <3>3. circuit.assertions[a] = [left |-> TargetOf(left), right |-> TargetOf(right)]
      BY <1>2, <3>1 DEF RootsCopied, AssertionCopied
    <3> QED BY <1>1, <3>1, <3>2, <3>3, RootHeld
  <2> QED BY <1>2, <2>1 DEF AssertionsHold, Abstract!Satisfied, eq
<1>4. [o \in DOMAIN circuit.output_ops |-> targets[circuit.output_ops[o]]]
        = [o \in 1 .. Len(output_ops) |-> Abstract!Meaning[output_ops[o]]]
  <2>1. DOMAIN circuit.output_ops = 1 .. Len(output_ops)
    <3>1. circuit.output_ops \in Seq(Nat)
      BY DEF MeaningOK, CircuitOK, TypeOK, FCircuit
    <3> QED BY <1>2, <3>1, LenProperties
  <2>2. ASSUME NEW o \in 1 .. Len(output_ops)
        PROVE  targets[circuit.output_ops[o]] = Abstract!Meaning[output_ops[o]]
    <3>1. PICK q \in ScalarNodes : q = output_ops[o]
      BY <1>2 DEF RootsOK
    <3>2. Resolved(q) /\ circuit.output_ops[o] = TargetOf(q)
      BY <1>2, <3>1 DEF LoopsInOrder, RootsCopied
    <3> QED BY <1>1, <3>1, <3>2, RootHeld
  <2> QED BY <2>1, <2>2
<1>5. CASE AssertionsHold
  BY <1>1, <1>3, <1>4, <1>5 DEF return_outputs, Abstract!Return, Abstract!graph
<1>6. CASE ~AssertionsHold
  BY <1>1, <1>3, <1>6 DEF return_outputs, Abstract!Throw, Abstract!graph
<1> QED BY <1>5, <1>6

\* A step of the program is a step of the abstract circuit, or changes nothing
\* in it.
LEMMA EvaluatorStepRefines ==
  ASSUME ValuesInv, ArgumentsRaw, [EvaluatorNext]_evalVars
  PROVE  [Abstract!AbstractNext]_(Abstract!abstractVars)
<1>1. MeaningOK /\ EvalOK(Canonical) /\ ValuesOK
  BY DEF ValuesInv, MeaningOK
<1>2. CASE Compile
  <2>1. outcome = "none" /\ UNCHANGED <<inputs, outcome, outputs>>
    BY <1>2 DEF Compile, evaluatorVars
  <2>2. CASE BuilderCall
    <3>1. HeapOK /\ BuilderNext
      BY <1>1, <2>2 DEF MeaningOK, CircuitOK, TypeOK, BuilderCall
    <3>2. Abstract!Author
      BY <2>1, <3>1, AuthorGrows DEF Abstract!Author
    <3> QED BY <3>2 DEF Abstract!AbstractNext
  <2>3. CASE build \/ Walk
    <3>1. UNCHANGED builderVars
      BY <1>1, <2>3, StackMoves DEF MeaningOK, CircuitOK, build
    <3> QED BY <2>1, <3>1 DEF builderVars, Abstract!abstractVars, Abstract!graph
  <2> QED BY <1>2, <2>2, <2>3 DEF Compile
<1>3. UNCHANGED finalizeVars => UNCHANGED Abstract!graph
  BY DEF finalizeVars, builderVars, Abstract!graph
<1>4. CASE Construct
  <2>1. Abstract!GiveInputs
    BY <1>3, <1>4 DEF Construct, new_evaluator, Abstract!GiveInputs
  <2> QED BY <2>1 DEF Abstract!AbstractNext
<1>5. CASE eval_circuit /\ UNCHANGED finalizeVars
  <2>1. Abstract!Call
    BY <1>3, <1>5 DEF eval_circuit, Abstract!Call
  <2> QED BY <2>1 DEF Abstract!AbstractNext
<1>6. CASE eval_operation /\ UNCHANGED finalizeVars
  BY <1>3, <1>6 DEF eval_operation, Abstract!abstractVars
<1>7. CASE return_outputs /\ UNCHANGED finalizeVars
  BY <1>1, <1>7, CallReturnsMeaning DEF Abstract!AbstractNext
<1>8. CASE UNCHANGED evalVars
  BY <1>3, <1>8 DEF evalVars, evaluatorVars, Abstract!abstractVars
<1> QED BY <1>2, <1>4, <1>5, <1>6, <1>7, <1>8 DEF EvaluatorNext, Evaluate

\* The circuit that is evaluated behaves as its author was promised, but for the
\* promise that a call ends: a call returns the values the outputs have in the
\* prime field if the connected nodes have equal values, and throws if not.
THEOREM EvaluatorImplementsCircuit ==
  ASSUME OneBuild, NoStrayInputs, WordsFit(Canonical)
  PROVE  EvaluatorSpec /\ []ArgumentsRaw =>
           Abstract!AbstractInit /\ [][Abstract!AbstractNext]_(Abstract!abstractVars)
<1>1. EvaluationInit => ValuesInv
  BY ValuesInvInit
<1>2. ValuesInv /\ [EvaluatorNext]_evalVars => ValuesInv'
  BY ValuesInvStep
<1>3. EvaluationInit => Abstract!AbstractInit
  BY DEF EvaluationInit, CircuitInit, BuilderInit, EvaluatorInit, Abstract!AbstractInit,
         Abstract!graph
<1>4. ValuesInv /\ ArgumentsRaw /\ [EvaluatorNext]_evalVars
        => [Abstract!AbstractNext]_(Abstract!abstractVars)
  BY EvaluatorStepRefines
<1> QED BY <1>1, <1>2, <1>3, <1>4, PTL DEF EvaluatorSpec

\* If generators are given inputs and outputs of generators, a call that returns
\* has the bits of every generator's argument in the slots of its outputs.
THEOREM BitsAreOfArguments ==
  ASSUME OneBuild, NoStrayInputs, WordsFit(Canonical)
  PROVE  EvaluatorSpec => [](ArgumentsRaw => BitsAreCorrect)
<1>1. EvaluationInit => ValuesInv
  BY ValuesInvInit
<1>2. ValuesInv /\ [EvaluatorNext]_evalVars => ValuesInv'
  BY ValuesInvStep
<1>3. ASSUME ValuesInv, ArgumentsRaw
      PROVE  BitsAreCorrect
  <2> SUFFICES ASSUME outcome = "returned", NEW p \in Pointers, ops[p].op_type = "GENERATOR_INPUT"
               PROVE  targets[TargetOf(p)] = Abstract!Meaning[p]
    BY DEF BitsAreCorrect
  <2>1. /\ MeaningOK /\ EvalOK(Canonical) /\ ValuesOK /\ LoopDone
        /\ outcome \notin {"none", "ready"}
    BY <1>3 DEF ValuesInv, MeaningOK, ValuesOK
  <2>2. p \in ScalarNodes /\ Resolved(p)
    BY DEF ScalarNodes, Pointers, IsVector, Resolved
  <2> QED BY <2>1, <2>2, RootHeld
<1> QED BY <1>1, <1>2, <1>3, PTL DEF EvaluatorSpec
=============================================================================
