--------------------------- MODULE MCSerialization ---------------------------
(***************************************************************************)
(* Values for model checking CircuitSerialization: circuits that build()   *)
(* returns (operation types by their number in core_base.h:34-55).         *)
(***************************************************************************)
EXTENDS CircuitSerialization

Op(type, targets, constants) ==
  [op_type |-> type, target_inputs |-> targets, constant_inputs |-> constants]

\* The largest word.
MaxWord == BYTE ^ 8 - 1

\* An input is compared with the largest constant; the constant is the output.
LargeConstant ==
  [NewCircuit EXCEPT
    !.input_target_count = 1,
    !.operations = <<Op(0, <<>>, <<MaxWord>>)>>,
    !.assertions = <<[left |-> 0, right |-> 1, message |-> <<>>]>>,
    !.output_ops = <<1>>]

\* The hash of two inputs; its first and its last element are the outputs.
HashOfInputs ==
  [NewCircuit EXCEPT
    !.input_target_count = 2,
    !.vector_operation_count = 1,
    !.operations = <<Op(64, <<0, 1>>, <<>>), Op(48, <<0>>, <<0>>),
                     Op(48, <<0>>, <<3>>)>>,
    !.output_ops = <<2, 3>>]

\* A bit sum of one bit, with a message on one of its assertions.
OneBit ==
  [NewCircuit EXCEPT
    !.input_target_count = 1,
    !.generator_target_count = 1,
    !.operations = <<Op(0, <<>>, <<1>>), Op(5, <<2, 1>>, <<>>),
                     Op(6, <<1, 3>>, <<>>), Op(0, <<>>, <<0>>)>>,
    !.generators = <<[generator_id |-> MaxWord - 1, op_dependency_id |-> 0,
                      target_inputs |-> <<0>>, constant_inputs |-> <<1>>]>>,
    !.assertions = <<[left |-> 4, right |-> 5, message |-> <<>>],
                     [left |-> 0, right |-> 1, message |-> <<7, 0, 9>>]>>]

MCCircuits == {NewCircuit, LargeConstant, HashOfInputs, OneBit}
=============================================================================
