-------------------------- MODULE CircuitFinalizer --------------------------
(***************************************************************************)
(* CircuitFinalizer and ACCircuitBuilder::build, finalize                  *)
(* (include/circuitpp/builder.h): the DAG is flattened into an FCircuit    *)
(* (finalized.h), a list of operations that refer to numbered targets.     *)
(*                                                                         *)
(* visit_op is a depth-first walk that remembers in every node the id it   *)
(* was given (target_id).  The walk is modelled call by call: `stack` is   *)
(* the C++ call stack, a frame holding what a visit_generator, visit_op or *)
(* the body of a loop of finalize has resolved so far.  The id a call      *)
(* returns is the one it left in the node, so a return is modelled by the  *)
(* caller finding the node resolved.                                       *)
(***************************************************************************)
EXTENDS CircuitBuilder, FiniteSets

CONSTANT MaxBuilds             \* bound on build() calls

VARIABLES
  phase,                  \* "building", "finalizing" or "built"
  builds,                 \* number of build() calls so far
  target_id,              \* ACOperation::target_id, of the nodes that have one
  global_target_id,       \* ACOperation::global_target_id
  circuit,                \* the FCircuit
  op_count,               \* CircuitFinalizer::op_count
  total_op_count,         \* CircuitFinalizer::total_op_count
  stack

finalizerVars == <<target_id, global_target_id, circuit, op_count,
                   total_op_count, stack>>

-----------------------------------------------------------------------------

EmptyCircuit(inputs, generatorTargets) ==
  [input_target_count |-> inputs, generator_target_count |-> generatorTargets,
   vector_operation_count |-> 0, operations |-> <<>>, generators |-> <<>>,
   assertions |-> <<>>, output_ops |-> <<>>]

\* Targets below FirstSlot are inputs and generator outputs.
FirstSlot == circuit.input_target_count + circuit.generator_target_count

SetId(ids, p, id) == [q \in DOMAIN ids \cup {p} |-> IF q = p THEN id ELSE ids[q]]

\* (Mutant: the memo is not consulted.)
Resolved_without_memo(p) == ops[p].op_type \in {"INPUT", "GENERATOR_INPUT"}

\* Nodes visit_op answers for at once: those with a target_id (the memo) and
\* those whose target is fixed by their index.
Resolved(p) ==
  p \in DOMAIN target_id \/ ops[p].op_type \in {"INPUT", "GENERATOR_INPUT"}

\* (Mutant: generator inputs are not moved behind the inputs.)
TargetOf_unmoved(p) ==
  IF p \in DOMAIN target_id THEN target_id[p] ELSE ops[p].constants[1]

TargetOf(p) ==
  IF p \in DOMAIN target_id THEN target_id[p]
  ELSE IF ops[p].op_type = "INPUT" THEN ops[p].constants[1]
  ELSE ops[p].constants[1] + input_target_count

-----------------------------------------------------------------------------
(* The call stack                                                          *)

Frame(kind, ref) ==
  [kind |-> kind, ref |-> ref, ids |-> <<>>,
   op_dependency_id |-> total_op_count - circuit.input_target_count
                                       - circuit.generator_target_count]

\* (Mutant: the left side of an assertion is visited twice.)
Wanted_left_twice(frame) ==
  CASE frame.kind = "generator" -> generators[frame.ref].inputs
    [] frame.kind = "assertion" -> <<assertions[frame.ref].left,
                                     assertions[frame.ref].left>>
    [] frame.kind = "output"    -> <<output_ops[frame.ref]>>
    [] frame.kind = "operation" -> ops[frame.ref].inputs

\* The nodes a frame resolves, in order.
Wanted(frame) ==
  CASE frame.kind = "generator" -> generators[frame.ref].inputs
    [] frame.kind = "assertion" -> <<assertions[frame.ref].left,
                                     assertions[frame.ref].right>>
    [] frame.kind = "output"    -> <<output_ops[frame.ref]>>
    [] frame.kind = "operation" -> ops[frame.ref].inputs

Top == stack[Len(stack)]
Child == Wanted(Top)[Len(Top.ids) + 1]
Complete == Len(Top.ids) = Len(Wanted(Top))

Push(frame) == stack' = Append(stack, frame)
Pop == stack' = SubSeq(stack, 1, Len(stack) - 1)

-----------------------------------------------------------------------------

FinalizerInit ==
  /\ phase = "building"
  /\ builds = 0
  /\ target_id = <<>>
  /\ global_target_id = <<>>
  /\ circuit = EmptyCircuit(0, 0)
  /\ op_count = 0
  /\ total_op_count = 0
  /\ stack = <<>>

\* A call of the builder's interface, between builds.
BuilderCall ==
  /\ phase \in {"building", "built"}
  /\ builds < MaxBuilds
  /\ BuilderNext
  /\ phase' = "building"
  /\ UNCHANGED <<builds, finalizerVars>>

\* build: a new CircuitFinalizer.  The ids the nodes were given by an earlier
\* build stay.
build ==
  /\ phase \in {"building", "built"}
  /\ builds < MaxBuilds
  /\ phase' = "finalizing"
  /\ builds' = builds + 1
  /\ circuit' = EmptyCircuit(input_target_count, generator_target_count)
  /\ op_count' = input_target_count + generator_target_count
  /\ total_op_count' = input_target_count + generator_target_count
  /\ UNCHANGED <<builderVars, target_id, global_target_id, stack>>

Walking ==
  /\ phase = "finalizing"
  /\ UNCHANGED <<builderVars, builds>>

\* The three loops of finalize: generators, then assertions, then outputs.
visit_generator ==
  /\ Walking
  /\ stack = <<>>
  /\ Len(circuit.generators) < Len(generators)
  /\ Push(Frame("generator", Len(circuit.generators) + 1))
  /\ UNCHANGED <<phase, target_id, global_target_id, circuit, op_count,
                 total_op_count>>

visit_assertion ==
  /\ Walking
  /\ stack = <<>>
  /\ Len(circuit.generators) = Len(generators)
  /\ Len(circuit.assertions) < Len(assertions)
  /\ Push(Frame("assertion", Len(circuit.assertions) + 1))
  /\ UNCHANGED <<phase, target_id, global_target_id, circuit, op_count,
                 total_op_count>>

\* (Mutant: the last output is not visited.)
MoreOutputs_but_one == Len(circuit.output_ops) + 1 < Len(output_ops)

MoreOutputs == Len(circuit.output_ops) < Len(output_ops)

\* (Mutant: the outputs are visited as soon as the generators are.)
visit_output_early ==
  /\ Walking
  /\ stack = <<>>
  /\ Len(circuit.generators) = Len(generators)
  /\ MoreOutputs
  /\ Push(Frame("output", Len(circuit.output_ops) + 1))
  /\ UNCHANGED <<phase, target_id, global_target_id, circuit, op_count,
                 total_op_count>>

visit_output ==
  /\ Walking
  /\ stack = <<>>
  /\ Len(circuit.generators) = Len(generators)
  /\ Len(circuit.assertions) = Len(assertions)
  /\ MoreOutputs
  /\ Push(Frame("output", Len(circuit.output_ops) + 1))
  /\ UNCHANGED <<phase, target_id, global_target_id, circuit, op_count,
                 total_op_count>>

\* visit_op on a resolved node returns its target to the caller.
return_target ==
  /\ Walking
  /\ stack # <<>>
  /\ ~Complete
  /\ Resolved(Child)
  /\ stack' = [stack EXCEPT ![Len(stack)].ids = Append(@, TargetOf(Child))]
  /\ UNCHANGED <<phase, target_id, global_target_id, circuit, op_count,
                 total_op_count>>

\* visit_op on any other node starts to walk the node's inputs.
visit_op ==
  /\ Walking
  /\ stack # <<>>
  /\ ~Complete
  /\ ~Resolved(Child)
  /\ Push(Frame("operation", Child))
  /\ UNCHANGED <<phase, target_id, global_target_id, circuit, op_count,
                 total_op_count>>

\* (Mutants: ++op_count for op_count++;
\* constants do not count; the global ids count down.)
NextId_preincrement(type) ==
  IF IsVector(type) THEN circuit.vector_operation_count ELSE op_count + 1
CountAfter_without_constants(type) ==
  IF IsVector(type) \/ type = "CONSTANT" THEN op_count ELSE op_count + 1

NextGlobalId_downwards == -total_op_count

NextId(type) == IF IsVector(type) THEN circuit.vector_operation_count ELSE op_count
CountAfter(type) == IF IsVector(type) THEN op_count ELSE op_count + 1
NextGlobalId == total_op_count

\* The tail of visit_op: the node's inputs are resolved, the node is given
\* the next id of its stack type and its FOperation is appended.
emit_operation ==
  LET p  == Top.ref
      op == ops[p]
  IN
  /\ Walking
  /\ stack # <<>>
  /\ Top.kind = "operation"
  /\ Complete
  /\ target_id' = SetId(target_id, p, NextId(op.op_type))
  /\ global_target_id' = SetId(global_target_id, p, NextGlobalId)
  /\ total_op_count' = total_op_count + 1
  /\ op_count' = CountAfter(op.op_type)
  /\ circuit' = [circuit EXCEPT
       !.vector_operation_count = IF IsVector(op.op_type) THEN @ + 1 ELSE @,
       !.operations = Append(@, [op_type |-> op.op_type,
                                 target_inputs |-> Top.ids,
                                 constant_inputs |-> op.constants])]
  /\ Pop
  /\ UNCHANGED phase

\* The constants of a generator are copied by a loop over its inputs.
CopiedConstants(generator) ==
  [i \in 1 .. Len(generator.constants) |->
     IF i <= Len(generator.inputs) THEN generator.constants[i] ELSE 0]

finish_generator ==
  /\ Walking
  /\ stack # <<>>
  /\ Top.kind = "generator"
  /\ Complete
  /\ circuit' = [circuit EXCEPT !.generators = Append(@,
       [generator_id |-> generators[Top.ref].generator_id,
        op_dependency_id |-> Top.op_dependency_id,
        target_inputs |-> Top.ids,
        constant_inputs |-> CopiedConstants(generators[Top.ref])])]
  /\ Pop
  /\ UNCHANGED <<phase, target_id, global_target_id, op_count, total_op_count>>

finish_assertion ==
  /\ Walking
  /\ stack # <<>>
  /\ Top.kind = "assertion"
  /\ Complete
  /\ circuit' = [circuit EXCEPT !.assertions =
       Append(@, [left |-> Top.ids[1], right |-> Top.ids[2]])]
  /\ Pop
  /\ UNCHANGED <<phase, target_id, global_target_id, op_count, total_op_count>>

finish_output ==
  /\ Walking
  /\ stack # <<>>
  /\ Top.kind = "output"
  /\ Complete
  /\ circuit' = [circuit EXCEPT !.output_ops = Append(@, Top.ids[1])]
  /\ Pop
  /\ UNCHANGED <<phase, target_id, global_target_id, op_count, total_op_count>>

\* finalize returns.
finish_build ==
  /\ Walking
  /\ stack = <<>>
  /\ Len(circuit.generators) = Len(generators)
  /\ Len(circuit.assertions) = Len(assertions)
  /\ Len(circuit.output_ops) = Len(output_ops)
  /\ phase' = "built"
  /\ UNCHANGED finalizerVars

Walk ==
  \/ visit_generator \/ visit_assertion \/ visit_output
  \/ return_target \/ visit_op \/ emit_operation
  \/ finish_generator \/ finish_assertion \/ finish_output \/ finish_build

finalizeVars == <<builderVars, finalizerVars, phase, builds>>

CircuitInit == BuilderInit /\ FinalizerInit

FinalizerSpec ==
  /\ CircuitInit
  /\ [][BuilderCall \/ build \/ Walk]_finalizeVars
  /\ WF_finalizeVars(Walk)
-----------------------------------------------------------------------------
(* Properties                                                              *)

Emitted == DOMAIN global_target_id
Operations == circuit.operations

FOperation ==
  [op_type : OpType, target_inputs : Seq(Nat), constant_inputs : Seq(ConstantWords)]

FGenerator ==
  [generator_id : {BitSum}, op_dependency_id : Int, target_inputs : Seq(Nat),
   constant_inputs : Seq(Nat)]

FCircuit ==
  [input_target_count : Nat, generator_target_count : Nat,
   vector_operation_count : Nat, operations : Seq(FOperation),
   generators : Seq(FGenerator), assertions : Seq([left : Nat, right : Nat]),
   output_ops : Seq(Nat)]

StackFrame ==
  [kind : {"generator", "assertion", "output", "operation"}, ref : Nat,
   ids : Seq(Nat), op_dependency_id : Int]

\* Type invariant: the shape of every variable, and every pointer in range.
TypeOK ==
  /\ HeapOK
  /\ phase \in {"building", "finalizing", "built"}
  /\ builds \in Nat
  /\ DOMAIN target_id \subseteq Pointers
  /\ target_id \in [DOMAIN target_id -> Nat]
  /\ global_target_id \in [DOMAIN target_id -> Nat]
  /\ circuit \in FCircuit
  /\ op_count \in Nat
  /\ total_op_count \in Nat
  /\ stack \in Seq(StackFrame)

\* A call on the stack: a loop of finalize at the bottom, a visit_op on an
\* unresolved node above it; what it has resolved so far stays resolved; a node
\* is visited on behalf of a newer one.
FrameOK(k) ==
  /\ stack[k].kind = "operation" <=> k > 1
  /\ stack[k].kind = "operation" => stack[k].ref \in Pointers /\ ~Resolved(stack[k].ref)
  /\ stack[k].kind = "generator" => stack[k].ref \in 1 .. Len(generators)
  /\ stack[k].kind = "assertion" => stack[k].ref \in 1 .. Len(assertions)
  /\ stack[k].kind = "output" => stack[k].ref \in 1 .. Len(output_ops)
  /\ Len(stack[k].ids) <= Len(Wanted(stack[k]))
  /\ \A i \in 1 .. Len(stack[k].ids) : Resolved(Wanted(stack[k])[i])
  /\ \A j \in 2 .. k - 1 : stack[k].ref < stack[j].ref

\* The call stack is well formed, and empty between calls of build: what
\* TargetIdNeverSetTwice, PostOrder and IdsArePermanent rest on.
StackOK ==
  /\ phase # "finalizing" => stack = <<>>
  /\ \A k \in 1 .. Len(stack) : FrameOK(k)

\* set_target_id and set_global_target_id throw "Target ID already set" when a
\* node has an id.  They never do: no node on the call stack has an id yet, and
\* none is on the stack twice.
TargetIdNeverSetTwice ==
  \A i, j \in 1 .. Len(stack) : stack[i].kind = "operation" =>
    /\ stack[i].ref \notin DOMAIN target_id \cup DOMAIN global_target_id
    /\ i # j /\ stack[j].kind = "operation" => stack[i].ref # stack[j].ref

\* The slot the evaluator stores the k-th operation's value in: the evaluator
\* counts the scalar and the vector operations it has passed.
Slot(k) ==
  LET same == {j \in 1 .. k - 1 :
                 IsVector(Operations[j].op_type) = IsVector(Operations[k].op_type)}
  IN  IF IsVector(Operations[k].op_type) THEN Cardinality(same)
                                         ELSE FirstSlot + Cardinality(same)

\* The ids visit_op hands out agree with the positions the evaluator will use:
\* each emitted node's operation stands at the place its global id says, its
\* target id is the slot of that place, and its inputs are its inputs' targets.
\* (Of the first build, see RebuiltOperationsHaveInputs, until the author goes
\* on: a new input moves the generators' targets.)
IdsAreSlots ==
  builds = 1 /\ phase # "building" =>
    /\ total_op_count = FirstSlot + Len(Operations)
    /\ Cardinality(Emitted) = Len(Operations)
    /\ \A p \in Emitted :
         LET k == global_target_id[p] - FirstSlot + 1 IN
         /\ k \in 1 .. Len(Operations)
         /\ Operations[k].op_type = ops[p].op_type
         /\ Slot(k) = target_id[p]
         /\ Len(Operations[k].target_inputs) = Len(ops[p].inputs)
         /\ \A i \in 1 .. Len(ops[p].inputs) :
              Operations[k].target_inputs[i] = TargetOf(ops[p].inputs[i])

\* What the slots before the k-th operation hold when it is evaluated.
DefinedBefore(k, vector, id) ==
  \/ ~vector /\ id < FirstSlot
  \/ \E j \in 1 .. k - 1 : /\ IsVector(Operations[j].op_type) = vector
                           /\ Slot(j) = id

OperationsHaveInputs ==
  \A k \in 1 .. Len(Operations) : \A i \in DOMAIN Operations[k].target_inputs :
    DefinedBefore(k, Operations[k].op_type = "TARGET_AT",
                  Operations[k].target_inputs[i])

\* visit_op's post-order makes the list executable in one pass: an operation
\* only refers to inputs, generator outputs and operations before it, and
\* assertions, outputs and generators to targets the circuit has.
FirstBuildExecutable ==
  LET Defined(id) == DefinedBefore(Len(Operations) + 1, FALSE, id) IN
  builds = 1 =>
    /\ OperationsHaveInputs
    /\ \A a \in 1 .. Len(circuit.assertions) :
         Defined(circuit.assertions[a].left) /\ Defined(circuit.assertions[a].right)
    /\ \A o \in 1 .. Len(circuit.output_ops) : Defined(circuit.output_ops[o])
    /\ \A g \in 1 .. Len(circuit.generators) :
         \A i \in DOMAIN circuit.generators[g].target_inputs :
           Defined(circuit.generators[g].target_inputs[i])

Roots ==
  (UNION {{generators[g].inputs[i] : i \in DOMAIN generators[g].inputs} :
            g \in 1 .. Len(generators)})
    \cup {assertions[a].left : a \in 1 .. Len(assertions)}
    \cup {assertions[a].right : a \in 1 .. Len(assertions)}
    \cup {output_ops[o] : o \in 1 .. Len(output_ops)}

\* A finished first build contains what the roots need and nothing else: every
\* root is resolved, and every operation is a root or an input of another one.
NothingMissingNothingDead ==
  builds = 1 /\ phase = "built" =>
    /\ \A p \in Roots : Resolved(p)
    /\ \A p \in Emitted : \A i \in DOMAIN ops[p].inputs : Resolved(ops[p].inputs[i])
    /\ \A p \in Emitted \ Roots :
         \E q \in Emitted : \E i \in DOMAIN ops[q].inputs : ops[q].inputs[i] = p

\* The targets of the generators' outputs are where the evaluator will write
\* them: it lays them out one generator after the other, behind the inputs, and
\* takes their number from the constants the finalizer copied.
GeneratorSlotsInOrder ==
  LET place[g \in 1 .. Len(circuit.generators)] ==
        IF g = 1 THEN circuit.input_target_count
        ELSE place[g - 1] + num_outputs(circuit.generators[g - 1].constant_inputs)
      node(g, i) == CHOOSE p \in Pointers :
                      /\ ops[p].op_type = "GENERATOR_INPUT"
                      /\ ops[p].constants[1] =
                           generators[g].start_generator_output_index + i
  IN  builds = 1 /\ phase # "building" =>
        \A g \in DOMAIN place : \A i \in 0 .. generators[g].num_outputs - 1 :
          TargetOf(node(g, i)) = place[g] + i

\* Every generator is given an input, or an output of a generator: what is there
\* before the first operation is evaluated.
ArgumentsRaw ==
  \A g \in 1 .. Len(generators) :
    ops[generators[g].inputs[1]].op_type \in {"INPUT", "GENERATOR_INPUT"}

\* When the evaluator comes to an operation, the generators whose outputs it
\* reads have run.  Before each operation the evaluator runs the next generator,
\* if that is due: the k-th may read outputs of the first k generators, which
\* have to be due from the start, and every generator needs an operation to run
\* before.  (Where their arguments are raw; for others see BitsAreCorrect.)
GeneratorsInTime ==
  builds = 1 /\ phase = "built" /\ ArgumentsRaw =>
    /\ Len(generators) <= Len(Operations)
    /\ \A g \in 1 .. Len(generators) : circuit.generators[g].op_dependency_id = 0
    /\ \A k \in 1 .. Len(Operations), g \in 1 .. Len(generators) :
         k < g /\ Operations[k].op_type # "TARGET_AT" =>
           \A i \in DOMAIN Operations[k].target_inputs :
             Operations[k].target_inputs[i] - input_target_count \notin
               generators[g].start_generator_output_index .. EndOfOutputs(g) - 1

\* In the first build an operation is emitted after the operations it reads.
PostOrder ==
  builds = 1 =>
    \A p \in Emitted : \A i \in DOMAIN ops[p].inputs :
      LET q == ops[p].inputs[i] IN
      /\ Resolved(q)
      /\ q \in Emitted => global_target_id[q] < global_target_id[p]

\* Across any number of builds a node keeps the ids it was given first.
IdsArePermanent ==
  [][\A p \in DOMAIN target_id :
       /\ p \in DOMAIN target_id'
       /\ target_id'[p] = target_id[p]
       /\ global_target_id'[p] = global_target_id[p]]_finalizeVars

\* build() returns: the walk ends, as nodes are only given older nodes.
BuildReturns == phase = "finalizing" ~> phase = "built"

\* builder.h:75 rejects an operation whose input is missing.  In no circuit
\* built would an operation then lack an input.
RebuiltOperationsHaveInputs == phase = "built" => OperationsHaveInputs
=============================================================================
