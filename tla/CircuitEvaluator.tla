-------------------------- MODULE CircuitEvaluator --------------------------
(***************************************************************************)
(* CircuitEvaluator and its ACEvalContext (include/circuitpp/eval.h): one  *)
(* pass over the operations of an FCircuit, in which every operation       *)
(* writes the next slot of `targets` (or of `vec_targets`), and the        *)
(* generators are run in between when their op_dependency_id is reached.   *)
(* The builder and the finalizer produce the circuit (CircuitFinalizer);   *)
(* the values are the machine words of GoldilocksField.                    *)
(***************************************************************************)
EXTENDS CircuitFinalizer, GoldilocksField

CONSTANTS
  Poseidon(_),        \* hash_n_to_m_no_pad with four outputs
  InputWords          \* the words passed to the evaluator

VARIABLES
  inputs,             \* the vector the evaluator was constructed with
  outcome,            \* "none", "ready", "running", "returned" or "threw"
  outputs,
  targets,            \* ACEvalContext::targets, indexed from 0
  vec_targets,        \* ACEvalContext::vec_targets, indexed from 0
  op_index, target_index, vec_index, gen_target_index, current_generator

evaluatorVars == <<inputs, outcome, outputs, targets, vec_targets, op_index,
                   target_index, vec_index, gen_target_index, current_generator>>
evalVars == <<finalizeVars, evaluatorVars>>

-----------------------------------------------------------------------------

EvaluatorInit ==
  /\ inputs = <<>>
  /\ outcome = "none"
  /\ outputs = <<>>
  /\ targets = <<>>
  /\ vec_targets = <<>>
  /\ op_index = 0
  /\ target_index = 0
  /\ vec_index = 0
  /\ gen_target_index = 0
  /\ current_generator = 0

\* The constructor: the inputs are copied to the first slots, whatever their
\* number, and the vector is then given one slot for each target.
new_evaluator(in) ==
  LET vectors == circuit.vector_operation_count
      slots   == Len(circuit.operations) + FirstSlot - vectors
  IN
  /\ phase = "built"
  /\ outcome = "none"
  /\ outcome' = "ready"
  /\ inputs' = in
  /\ targets' = [id \in 0 .. slots - 1 |-> IF id < Len(in) THEN in[id + 1] ELSE 0]
  /\ vec_targets' = [id \in 0 .. vectors - 1 |-> <<>>]
  /\ UNCHANGED <<outputs, op_index, target_index, vec_index, gen_target_index,
                 current_generator>>

\* A call of eval_circuit.  The slots keep what an earlier call left in them.
eval_circuit ==
  /\ outcome \in {"ready", "returned", "threw"}
  /\ outcome' = "running"
  /\ outputs' = <<>>
  /\ op_index' = 0
  /\ target_index' = FirstSlot
  /\ vec_index' = 0
  /\ gen_target_index' = circuit.input_target_count
  /\ current_generator' = 0
  /\ UNCHANGED <<inputs, targets, vec_targets>>

\* (Mutant: the last generator is forgotten.)
min_id_but_last ==
  IF current_generator + 1 < Len(circuit.generators)
  THEN circuit.generators[current_generator + 1].op_dependency_id
  ELSE Len(circuit.operations)

\* The position at which the next generator is due.
min_id ==
  IF current_generator < Len(circuit.generators)
  THEN circuit.generators[current_generator + 1].op_dependency_id
  ELSE Len(circuit.operations)

\* (Mutant: the most significant bit first.)
evaluate_reversed(word, num_bits) ==
  [i \in 1 .. num_bits |-> (word \div 2 ^ (num_bits - i)) % 2]

\* BitSumGenerator::evaluate
evaluate(word, num_bits) == [i \in 1 .. num_bits |-> (word \div 2 ^ (i - 1)) % 2]

\* eval_generator: the targets, with the outputs of the g-th generator in the
\* slots from gen_target_index on.
eval_generator(g) ==
  LET gen  == circuit.generators[g]
      bits == evaluate(targets[gen.target_inputs[1]], gen.constant_inputs[1])
  IN  [id \in DOMAIN targets |->
         IF id \in gen_target_index .. gen_target_index + Len(bits) - 1
         THEN bits[id - gen_target_index + 1] ELSE targets[id]]

\* A comparison's result is the word 1 or 0.
Flag(condition) == IF condition THEN 1 ELSE 0

eval_target_op(op, slots) ==
  LET operand(i) == slots[op.target_inputs[i]] IN
  CASE op.op_type = "CONSTANT"  -> op.constant_inputs[1]
    [] op.op_type = "ADD"       -> add(operand(1), operand(2))
    [] op.op_type = "SUB"       -> sub(operand(1), operand(2))
    [] op.op_type = "MUL"       -> mul(operand(1), operand(2))
    [] op.op_type = "EQ"        -> Flag(eq(operand(1), operand(2)))
    [] op.op_type = "LEQ"       -> Flag(leq(operand(1), operand(2)))
    [] op.op_type = "NEG"       -> Flag(eq(operand(1), 0))
    [] op.op_type = "TARGET_AT" ->
         vec_targets[op.target_inputs[1]][op.constant_inputs[1] + 1]

eval_vector_op(op, slots) ==
  Poseidon([i \in DOMAIN op.target_inputs |-> slots[op.target_inputs[i]]])

\* One iteration of the loop: at most one generator, then one operation.
eval_operation ==
  LET op    == circuit.operations[op_index + 1]
      due   == op_index >= min_id
      slots == IF due THEN eval_generator(current_generator + 1) ELSE targets
  IN
  /\ outcome = "running"
  /\ op_index < Len(circuit.operations)
  /\ op_index' = op_index + 1
  /\ IF due
     THEN /\ current_generator' = current_generator + 1
          /\ gen_target_index' =
               gen_target_index + circuit.generators[current_generator + 1].constant_inputs[1]
     ELSE UNCHANGED <<current_generator, gen_target_index>>
  /\ IF IsVector(op.op_type)
     THEN /\ vec_targets' = [vec_targets EXCEPT ![vec_index] = eval_vector_op(op, slots)]
          /\ vec_index' = vec_index + 1
          /\ targets' = slots
          /\ UNCHANGED target_index
     ELSE /\ targets' = [slots EXCEPT ![target_index] = eval_target_op(op, slots)]
          /\ target_index' = target_index + 1
          /\ UNCHANGED <<vec_targets, vec_index>>
  /\ UNCHANGED <<inputs, outcome, outputs>>

\* The end of eval_circuit: the outputs are read, the assertions checked.
AssertionsHold ==
  \A a \in 1 .. Len(circuit.assertions) :
    eq(targets[circuit.assertions[a].left], targets[circuit.assertions[a].right])

LoopDone == op_index = Len(circuit.operations)

return_outputs ==
  /\ outcome = "running"
  /\ LoopDone
  /\ IF AssertionsHold
     THEN /\ outcome' = "returned"
          /\ outputs' = [o \in DOMAIN circuit.output_ops |->
                           targets[circuit.output_ops[o]]]
     ELSE outcome' = "threw" /\ UNCHANGED outputs
  /\ UNCHANGED <<inputs, targets, vec_targets, op_index, target_index, vec_index,
                 gen_target_index, current_generator>>

-----------------------------------------------------------------------------

\* The circuit that is evaluated stays as it was built.
Compile ==
  /\ outcome = "none"
  /\ BuilderCall \/ build \/ Walk
  /\ UNCHANGED evaluatorVars

\* The caller passes a vector of any length up to one too many.
Construct ==
  /\ \E n \in 0 .. input_target_count + 1 :
       \E in \in [1 .. n -> InputWords] : new_evaluator(in)
  /\ UNCHANGED finalizeVars

Evaluate == (eval_operation \/ return_outputs) /\ UNCHANGED finalizeVars

EvaluatorNext ==
  \/ Compile
  \/ Construct
  \/ eval_circuit /\ UNCHANGED finalizeVars
  \/ Evaluate

EvaluationInit == CircuitInit /\ EvaluatorInit

EvaluatorSpec ==
  /\ EvaluationInit
  /\ [][EvaluatorNext]_evalVars
  /\ WF_evalVars(Evaluate)
-----------------------------------------------------------------------------
(* Properties                                                              *)

Abstract == INSTANCE AbstractCircuit

\* Type invariant.  The indices stay within the vectors they index: a circuit
\* has exactly as many slots as it has results to store.
EvaluatorTypeOK ==
  /\ outcome \in {"none", "ready", "running", "returned", "threw"}
  /\ \A id \in DOMAIN targets : targets[id] \in Words
  /\ op_index \in 0 .. Len(circuit.operations)
  /\ current_generator \in 0 .. Len(circuit.generators)
  /\ outcome = "running" =>
       /\ target_index + vec_index = FirstSlot + op_index
       /\ vec_index <= circuit.vector_operation_count
       /\ gen_target_index <= FirstSlot

\* What the evaluator has computed, at any moment of any call: every node
\* whose operation it has passed has its value in the slot the finalizer gave
\* it, and so has every output of a generator that has run.
SlotsHoldMeaning ==
  outcome \notin {"none", "ready"} =>
    /\ \A p \in Emitted :
         global_target_id[p] - FirstSlot < op_index =>
           IF IsVector(ops[p].op_type)
           THEN vec_targets[target_id[p]] = Abstract!Meaning[p]
           ELSE targets[target_id[p]] = Abstract!Meaning[p]
    /\ \A p \in Pointers :
         ops[p].op_type = "GENERATOR_INPUT"
           /\ Abstract!Owner(ops[p].constants[1]) <= current_generator =>
           targets[TargetOf(p)] = Abstract!Meaning[p]

\* eval_circuit computes what the DAG means, over the prime field, and returns
\* or throws.
ImplementsMeaning == Abstract!AbstractSpec

\* bit_sum_generator.h:55, "ensure input == sum, meaning that our bits are
\* correct": when eval_circuit returns, the outputs of every generator are the
\* bits of the value its input has.
BitsAreCorrect ==
  outcome = "returned" =>
    \A p \in Pointers :
      ops[p].op_type = "GENERATOR_INPUT" =>
        targets[TargetOf(p)] = Abstract!Meaning[p]
=============================================================================
