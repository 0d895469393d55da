---------------------------- MODULE MCEvaluator ----------------------------
(***************************************************************************)
(* Values of the constants for model checking CircuitEvaluator.            *)
(***************************************************************************)
EXTENDS CircuitEvaluator

\* What the author passes to new_generator: the targets that exist before the
\* first operation is evaluated (the repository's example passes an input), or
\* results of operations as well.
RawArg(type) == type \in {"INPUT", "GENERATOR_INPUT"}
ComputedArg(type) == type \in {"INPUT", "NEG"}

\* A stand-in for the hash that tells its inputs and its elements apart.
SumHash(words) ==
  LET total[i \in 0 .. Len(words)] ==
        IF i = 0 THEN 1 ELSE (2 * total[i - 1] + words[i]) % GOLDILOCKS_PRIME
  IN  [i \in 1 .. HASH_SIZE |-> (total[Len(words)] + i) % GOLDILOCKS_PRIME]

\* The circuits evaluated: with arithmetic, with generators, or with hashes.
SmallCircuit ==
  IF registry # {} THEN AuthorNodes <= 1
  ELSE \/ AuthorNodes <= 3
       \/ {ops[p].op_type : p \in Pointers}
            \subseteq {"INPUT", "POSEIDON_HASH", "TARGET_AT"}

\* Only Compile changes what SmallCircuit reads.
SmallCompile == Compile /\ SmallCircuit'

SmallNext ==
  \/ SmallCompile
  \/ Construct
  \/ eval_circuit /\ UNCHANGED finalizeVars
  \/ Evaluate

SmallSpec ==
  /\ EvaluationInit
  /\ [][SmallNext]_evalVars
  /\ WF_evalVars(Evaluate)
=============================================================================
