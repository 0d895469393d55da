---------------------------- MODULE MCFinalizer ----------------------------
(***************************************************************************)
(* Values of the constants for model checking CircuitFinalizer.            *)
(***************************************************************************)
EXTENDS CircuitFinalizer

\* The author may pass the generator any node.
AnyArg(type) == TRUE

\* The circuits a run with everything walks: a registry that is empty, or one or
\* two generators and little else than what their constrain allocates, or up to
\* three that give one bit each, on raw arguments.
Nodes(type) == Cardinality({p \in Pointers : ops[p].op_type = type})
SmallCircuit ==
  registry # {} =>
    /\ \/ AuthorNodes + Len(generators) <= 3
       \/ /\ AuthorNodes + Len(generators) <= 4
          /\ GeneratorOutputs = Len(generators)
          /\ ArgumentsRaw
    /\ generator_target_count = GeneratorOutputs
    /\ Len(assertions) = GeneratorOutputs + Len(generators)
    /\ Nodes("CONSTANT") = GeneratorOutputs + Len(generators)
    /\ Nodes("ADD") = GeneratorOutputs - Len(generators)

\* Only the author's calls change what SmallCircuit reads.
SmallCall == BuilderCall /\ SmallCircuit'

SmallSpec ==
  CircuitInit /\ [][SmallCall \/ build \/ Walk]_finalizeVars
=============================================================================
