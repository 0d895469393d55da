--------------------------- MODULE AbstractCircuit ---------------------------
(***************************************************************************)
(* What a circuit promises its author: eval_circuit computes, for every    *)
(* node of the DAG, the value the node has in the prime field, and either  *)
(* returns the values of the outputs or throws because two nodes that were *)
(* connected have different values.  No ids, no slots, no order of         *)
(* evaluation.  CircuitEvaluator implements this specification.            *)
(***************************************************************************)
EXTENDS GoldilocksField, Sequences

CONSTANT Poseidon(_)     \* the four words of the hash of a sequence of words

VARIABLES
  ops, generators, assertions, output_ops,  \* what the author has built
  inputs,                                   \* the vector of input values
  outcome,  \* "none", "ready", "running", "returned" or "threw"
  outputs   \* the vector eval_circuit returned

graph == <<ops, generators, assertions, output_ops>>
abstractVars == <<graph, inputs, outcome, outputs>>

\* An input vector of the wrong length is cut or filled up with zeros.
InputValue(index) == IF index < Len(inputs) THEN inputs[index + 1] ELSE 0

\* The generator whose outputs contain the index-th generator input.
Owner(index) ==
  CHOOSE g \in 1 .. Len(generators) :
    /\ generators[g].start_generator_output_index <= index
    /\ index < generators[g].start_generator_output_index + generators[g].num_outputs

bit(word, i) == (word \div 2 ^ i) % 2

Truth(condition) == IF condition THEN 1 ELSE 0

\* The value of every node, a residue modulo the prime (a hash: four of them).
Meaning ==
  LET value[p \in 1 .. Len(ops)] ==
        LET type  == ops[p].op_type
            of(i) == value[ops[p].inputs[i]]
            const == ops[p].constants[1]
        IN
        CASE type = "CONSTANT" -> const
          [] type = "INPUT"    -> InputValue(const)
          [] type = "GENERATOR_INPUT" ->
               LET generator == generators[Owner(const)] IN
               bit(value[generator.inputs[1]],
                   const - generator.start_generator_output_index)
          [] type = "NEG" -> Truth(of(1) = 0)
          [] type = "ADD" -> (of(1) + of(2)) % GOLDILOCKS_PRIME
          [] type = "SUB" -> (of(1) - of(2)) % GOLDILOCKS_PRIME
          [] type = "MUL" -> (of(1) * of(2)) % GOLDILOCKS_PRIME
          [] type = "EQ"  -> Truth(of(1) = of(2))
          [] type = "LEQ" -> Truth(of(1) <= of(2))
          [] type = "POSEIDON_HASH" ->
               Poseidon([i \in DOMAIN ops[p].inputs |-> of(i)])
          [] type = "TARGET_AT" -> of(1)[const + 1]
  IN  value

Satisfied ==
  \A a \in 1 .. Len(assertions) :
    Meaning[assertions[a].left] = Meaning[assertions[a].right]

AbstractInit ==
  /\ graph = <<(<<>>), <<>>, <<>>, <<>>>>
  /\ inputs = <<>>
  /\ outcome = "none"
  /\ outputs = <<>>

\* Until it is evaluated, a circuit only grows.
Author ==
  /\ outcome = "none"
  /\ \A i \in 1 .. Len(ops) : ops'[i] = ops[i]
  /\ \A i \in 1 .. Len(generators) : generators'[i] = generators[i]
  /\ \A i \in 1 .. Len(assertions) : assertions'[i] = assertions[i]
  /\ \A i \in 1 .. Len(output_ops) : output_ops'[i] = output_ops[i]
  /\ UNCHANGED <<inputs, outcome, outputs>>

GiveInputs ==
  /\ outcome = "none"
  /\ outcome' = "ready"
  /\ UNCHANGED <<graph, outputs>>

Call ==
  /\ outcome \in {"ready", "returned", "threw"}
  /\ outcome' = "running"
  /\ outputs' = <<>>
  /\ UNCHANGED <<graph, inputs>>

Return ==
  /\ outcome = "running"
  /\ Satisfied
  /\ outcome' = "returned"
  /\ outputs' = [o \in 1 .. Len(output_ops) |-> Meaning[output_ops[o]]]
  /\ UNCHANGED <<graph, inputs>>

Throw ==
  /\ outcome = "running"
  /\ ~Satisfied
  /\ outcome' = "threw"
  /\ UNCHANGED <<graph, inputs, outputs>>

AbstractNext == Author \/ GiveInputs \/ Call \/ Return \/ Throw

AbstractSpec ==
  AbstractInit /\ [][AbstractNext]_abstractVars /\ WF_abstractVars(Return \/ Throw)
=============================================================================
