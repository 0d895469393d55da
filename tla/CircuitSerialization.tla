------------------------- MODULE CircuitSerialization -------------------------
(***************************************************************************)
(* FCircuit::write, read and size_bytes and those of the FOperation,       *)
(* FCircuitAssertion and FGenerator objects in it                          *)
(* (include/circuitpp/finalized.h), on a buffer of bytes.                  *)
(*                                                                         *)
(* write and read are loops over the parts of a circuit with a cursor ptr  *)
(* that each part moves on by its own size; one step handles one part.     *)
(* Numbers are stored as their bytes, so that a part read at another place *)
(* or with another width than it was written yields another number.  The   *)
(* module is parameterised by the number BYTE of values of a byte: 256 in  *)
(* the code.                                                               *)
(***************************************************************************)
EXTENDS Integers, Sequences, FiniteSets

CONSTANTS
  BYTE,         \* the number of values of a byte
  Objects,      \* the FCircuit objects of the program
  Circuits      \* the circuits the program obtains, from build() or new

ASSUME ByteAssumption == BYTE \in Nat /\ BYTE >= 2

VARIABLES
  circuits,     \* the value of each object
  buffer,       \* the bytes the caller allocated, from address 0
  saved,        \* the circuits of which the buffer holds an image: {} or {c}
  call          \* the call of write or read that is running

vars == <<circuits, buffer, saved, call>>

-----------------------------------------------------------------------------
(* Bytes                                                                   *)

\* A byte that nothing wrote: new memory, or the padding in a struct.
Unwritten == BYTE

Padding(n) == [k \in 1 .. n |-> Unwritten]

\* What is left of a number behind its first k bytes, for k up to n.
Rest(n, v) ==
  LET rest[k \in 0 .. n] == IF k = 0 THEN v ELSE rest[k - 1] \div BYTE
  IN  rest

\* The numbers that n bytes hold.
Words(n) == {v \in Nat : Rest(n, v)[n] = 0}

\* A number in n bytes, the least significant first; higher bytes are lost.
Number(n, v) == [k \in 1 .. n |-> Rest(n, v)[k - 1] % BYTE]

Numbers(n, values) ==
  [k \in 1 .. n * Len(values) |->
     Number(n, values[((k - 1) \div n) + 1])[((k - 1) % n) + 1]]

\* Memory with bytes stored from the address `at` on; padding is not stored.
Stored(memory, at, bytes) ==
  [a \in DOMAIN memory \cup at .. at + Len(bytes) - 1 |->
     IF a - at + 1 \in 1 .. Len(bytes) /\ bytes[a - at + 1] # Unwritten
     THEN bytes[a - at + 1]
     ELSE IF a \in DOMAIN memory THEN memory[a] ELSE Unwritten]

\* The n bytes from an address on; behind the buffer there is foreign memory.
LoadBytes(at, n) ==
  [k \in 1 .. n |-> IF at + k - 1 \in DOMAIN buffer THEN buffer[at + k - 1]
                                                    ELSE Unwritten]

Load(n, at) ==
  LET value[k \in 0 .. n] ==
        IF k = 0 THEN 0
        ELSE LoadBytes(at, n)[n - k + 1] + BYTE * value[k - 1]
  IN  value[n]

LoadNumbers(n, at, count) == [i \in 1 .. count |-> Load(n, at + n * (i - 1))]

\* vector::resize keeps the elements there are.
Resize(seq, count, element) ==
  [i \in 1 .. count |-> IF i <= Len(seq) THEN seq[i] ELSE element]

-----------------------------------------------------------------------------
(* The parts                                                               *)

sizeof_OPIndex == 8
sizeof_uint64_t == 8
sizeof_FOperationSerializedHeader == 12
sizeof_FGeneratorSerializedHeader == 24
sizeof_FCircuitAssertionSerializedHeader == 24
sizeof_FCircuitSerializedHeader == 40

\* size_bytes multiplies the number of constants by the size of an OPIndex and
\* the number of targets by that of a uint64_t.
VectorsSize(part) ==
  Len(part.constant_inputs) * sizeof_OPIndex
    + Len(part.target_inputs) * sizeof_uint64_t

Vectors(part) ==
  Numbers(sizeof_OPIndex, part.target_inputs)
    \o Numbers(sizeof_uint64_t, part.constant_inputs)

\* The op_type is a short, padded to the alignment of the lengths behind it.
operation_size(op) == sizeof_FOperationSerializedHeader + VectorsSize(op)

operation_bytes(op) ==
  Number(2, op.op_type) \o Padding(2)
    \o Number(4, Len(op.target_inputs)) \o Number(4, Len(op.constant_inputs))
    \o Vectors(op)

read_operation_at(at) ==
  LET targets == Load(4, at + 4)
      ptr     == at + sizeof_FOperationSerializedHeader
  IN  [op_type |-> Load(2, at),
       target_inputs |-> LoadNumbers(sizeof_OPIndex, ptr, targets),
       constant_inputs |-> LoadNumbers(sizeof_uint64_t,
                             ptr + targets * sizeof_OPIndex, Load(4, at + 8))]

generator_size(gen) == sizeof_FGeneratorSerializedHeader + VectorsSize(gen)

generator_bytes(gen) ==
  Number(8, gen.generator_id) \o Number(8, gen.op_dependency_id)
    \o Number(4, Len(gen.target_inputs)) \o Number(4, Len(gen.constant_inputs))
    \o Vectors(gen)

read_generator_at(at) ==
  LET targets == Load(4, at + 16)
      ptr     == at + sizeof_FGeneratorSerializedHeader
  IN  [generator_id |-> Load(8, at), op_dependency_id |-> Load(8, at + 8),
       target_inputs |-> LoadNumbers(sizeof_OPIndex, ptr, targets),
       constant_inputs |-> LoadNumbers(sizeof_uint64_t,
                             ptr + targets * sizeof_OPIndex, Load(4, at + 20))]

\* (Mutant: the size of the header is taken without its padding.)
assertion_size_packed(a) == 20 + Len(a.message)

assertion_size(a) == sizeof_FCircuitAssertionSerializedHeader + Len(a.message)

assertion_bytes(a) ==
  Number(8, a.left) \o Number(8, a.right) \o Number(4, Len(a.message))
    \o Padding(4) \o a.message

\* (Mutant: the length is read where it would be behind one target.)
read_assertion_early(at) ==
  [left |-> Load(8, at), right |-> Load(8, at + 8),
   message |-> LoadBytes(at + sizeof_FCircuitAssertionSerializedHeader,
                         Load(4, at + 12))]

read_assertion_at(at) ==
  [left |-> Load(8, at), right |-> Load(8, at + 8),
   message |-> LoadBytes(at + sizeof_FCircuitAssertionSerializedHeader,
                         Load(4, at + 16))]

output_size(id) == sizeof_OPIndex
output_bytes(id) == Number(sizeof_OPIndex, id)
read_output_at(at) == Load(sizeof_OPIndex, at)

\* (Mutant: write leaves the count of vector operations where read expects the
\* count of assertions.)
circuit_header_swapped(c) ==
  Number(8, c.input_target_count) \o Number(8, c.generator_target_count)
    \o Number(4, Len(c.operations)) \o Number(4, Len(c.assertions))
    \o Number(4, c.vector_operation_count) \o Number(4, Len(c.generators))
    \o Number(4, Len(c.output_ops)) \o Padding(4)

circuit_header(c) ==
  Number(8, c.input_target_count) \o Number(8, c.generator_target_count)
    \o Number(4, Len(c.operations)) \o Number(4, c.vector_operation_count)
    \o Number(4, Len(c.assertions)) \o Number(4, Len(c.generators))
    \o Number(4, Len(c.output_ops)) \o Padding(4)

\* The sums of the first n sizes, for each n.
Total(sizes) ==
  LET total[n \in 0 .. Len(sizes)] ==
        IF n = 0 THEN 0 ELSE total[n - 1] + sizes[n]
  IN  total

\* What size_bytes says of each part of a circuit.
Sizes(c) ==
  [operations |-> [i \in DOMAIN c.operations |-> operation_size(c.operations[i])],
   assertions |-> [i \in DOMAIN c.assertions |-> assertion_size(c.assertions[i])],
   generators |-> [i \in DOMAIN c.generators |-> generator_size(c.generators[i])],
   output_ops |-> [i \in DOMAIN c.output_ops |-> output_size(c.output_ops[i])]]

\* The size of the first parts of a circuit, as many as `done` tells.
HandledSize(c, done) ==
  Total(Sizes(c).operations)[done.operations]
    + Total(Sizes(c).assertions)[done.assertions]
    + Total(Sizes(c).generators)[done.generators]
    + Total(Sizes(c).output_ops)[done.output_ops]

size_bytes(c) ==
  sizeof_FCircuitSerializedHeader
    + Total(Sizes(c).operations)[Len(c.operations)]
    + Total(Sizes(c).generators)[Len(c.generators)]
    + Total(Sizes(c).assertions)[Len(c.assertions)]
    + Total(Sizes(c).output_ops)[Len(c.output_ops)]

-----------------------------------------------------------------------------
(* The circuits                                                            *)

\* A vector, or the bytes of a string, whose length fits an OPVecLength.
VectorOf(S) == {s \in Seq(S) : Len(s) \in Words(4)}

FOperation ==
  [op_type : Words(2), target_inputs : VectorOf(Words(8)),
   constant_inputs : VectorOf(Words(8))]

FGenerator ==
  [generator_id : Words(8), op_dependency_id : Words(8),
   target_inputs : VectorOf(Words(8)), constant_inputs : VectorOf(Words(8))]

FCircuitAssertion ==
  [left : Words(8), right : Words(8), message : VectorOf(0 .. BYTE - 1)]

FCircuit ==
  [input_target_count : Words(8), generator_target_count : Words(8),
   vector_operation_count : Words(4),
   operations : VectorOf(FOperation), generators : VectorOf(FGenerator),
   assertions : VectorOf(FCircuitAssertion), output_ops : VectorOf(Words(8))]

ASSUME CircuitsAssumption == Circuits \subseteq FCircuit

-----------------------------------------------------------------------------
(* The calls                                                               *)

NewCircuit ==
  [input_target_count |-> 0, generator_target_count |-> 0,
   vector_operation_count |-> 0, operations |-> <<>>, generators |-> <<>>,
   assertions |-> <<>>, output_ops |-> <<>>]

\* What a vector of parts is extended with by resize, before it is read into.
NewOperation == [op_type |-> 0, target_inputs |-> <<>>, constant_inputs |-> <<>>]
NewAssertion == [left |-> 0, right |-> 0, message |-> <<>>]
NewGenerator == [generator_id |-> 0, op_dependency_id |-> 0,
                 target_inputs |-> <<>>, constant_inputs |-> <<>>]

\* The loops of write and read, in their order.
Loops == <<"operations", "assertions", "generators", "output_ops">>
LoopNames == {Loops[k] : k \in DOMAIN Loops}

NoCall == [what |-> "none"]

\* `before` is the object's value when the call began; only properties read it.
Call(what, o) ==
  [what |-> what, object |-> o, ptr |-> sizeof_FCircuitSerializedHeader,
   done |-> [loop \in LoopNames |-> 0], before |-> circuits[o]]

PartsLeft(loop) == call.done[loop] < Len(circuits[call.object][loop])

\* The call is in this loop: those before have handled all their parts.
In(what, loop) ==
  /\ call.what = what
  /\ PartsLeft(loop)
  /\ \A k, j \in DOMAIN Loops : Loops[k] = loop /\ j < k => ~PartsLeft(Loops[j])

Finished(what) == call.what = what /\ \A loop \in LoopNames : ~PartsLeft(loop)

Advance(loop, size) ==
  call' = [call EXCEPT !.ptr = @ + size, !.done[loop] = @ + 1]

SerializationInit ==
  /\ circuits = [o \in Objects |-> NewCircuit]
  /\ buffer = <<>>
  /\ saved = {}
  /\ call = NoCall

\* The program builds a circuit, or makes a new one, between calls.
obtain(o) ==
  /\ call = NoCall
  /\ \E c \in Circuits : circuits' = [circuits EXCEPT ![o] = c]
  /\ UNCHANGED <<buffer, saved, call>>

\* The caller allocates size_bytes() and calls write.
write(o) ==
  /\ call = NoCall
  /\ buffer' = Stored([a \in 0 .. size_bytes(circuits[o]) - 1 |-> Unwritten],
                      0, circuit_header(circuits[o]))
  /\ call' = Call("write", o)
  /\ UNCHANGED <<circuits, saved>>

\* One turn of a loop of write.
WritePart(loop, bytes(_), size(_)) ==
  LET part == circuits[call.object][loop][call.done[loop] + 1] IN
  /\ In("write", loop)
  /\ buffer' = Stored(buffer, call.ptr, bytes(part))
  /\ Advance(loop, size(part))
  /\ UNCHANGED <<circuits, saved>>

write_operation == WritePart("operations", operation_bytes, operation_size)
write_assertion == WritePart("assertions", assertion_bytes, assertion_size)
write_generator == WritePart("generators", generator_bytes, generator_size)
write_output == WritePart("output_ops", output_bytes, output_size)

return_from_write ==
  /\ Finished("write")
  /\ saved' = {circuits[call.object]}
  /\ call' = NoCall
  /\ UNCHANGED <<circuits, buffer>>

\* read is called on an image and takes the counts, but for the number of
\* vector operations; what the object's vectors held stays until it is replaced.
read(o) ==
  /\ call = NoCall
  /\ saved # {}
  /\ circuits' = [circuits EXCEPT
       ![o].input_target_count = Load(8, 0),
       ![o].generator_target_count = Load(8, 8),
       ![o].operations = Resize(@, Load(4, 16), NewOperation),
       ![o].assertions = Resize(@, Load(4, 24), NewAssertion),
       ![o].generators = Resize(@, Load(4, 28), NewGenerator),
       ![o].output_ops = Resize(@, Load(4, 32), 0)]
  /\ call' = Call("read", o)
  /\ UNCHANGED <<buffer, saved>>

\* One turn of a loop of read: a part returns the size of what it has become.
ReadPart(loop, part, size(_)) ==
  /\ In("read", loop)
  /\ circuits' = [circuits EXCEPT ![call.object][loop][call.done[loop] + 1] = part]
  /\ Advance(loop, size(part))
  /\ UNCHANGED <<buffer, saved>>

read_operation == ReadPart("operations", read_operation_at(call.ptr), operation_size)
read_assertion == ReadPart("assertions", read_assertion_at(call.ptr), assertion_size)
read_generator == ReadPart("generators", read_generator_at(call.ptr), generator_size)
read_output == ReadPart("output_ops", read_output_at(call.ptr), output_size)

return_from_read ==
  /\ Finished("read")
  /\ call' = NoCall
  /\ UNCHANGED <<circuits, buffer, saved>>

SerializationNext ==
  \/ \E o \in Objects : obtain(o) \/ write(o) \/ read(o)
  \/ write_operation \/ write_assertion \/ write_generator \/ write_output
  \/ return_from_write
  \/ read_operation \/ read_assertion \/ read_generator \/ read_output
  \/ return_from_read

SerializationSpec == SerializationInit /\ [][SerializationNext]_vars

-----------------------------------------------------------------------------
(* Properties                                                              *)

\* The circuit a call is about: the one it writes or the one in the buffer.
Image == CHOOSE c \in (IF call.what = "write" THEN {call.before} ELSE saved) : TRUE

\* finalized.h:185-221: write and read never get out of step.  In both the
\* cursor stands where the sizes of the parts of the circuit in the image, not
\* of those read so far or left from before, put it; and once every part is
\* handled it stands at the end of the buffer.
CursorsAgree ==
  call # NoCall =>
    /\ call.ptr = sizeof_FCircuitSerializedHeader + HandledSize(Image, call.done)
    /\ Finished(call.what) => call.ptr = Cardinality(DOMAIN buffer)

\* finalized.h:160-173: write stays inside size_bytes() bytes, and leaves none
\* of them unwritten but the padding of the headers.
SizeIsExact ==
  /\ call # NoCall => DOMAIN buffer = 0 .. size_bytes(Image) - 1
  /\ call.what = "read" =>
       Cardinality({a \in DOMAIN buffer : buffer[a] = Unwritten})
         = 4 + 2 * Len(Image.operations) + 4 * Len(Image.assertions)

\* finalized.h:174-223: whatever the object held, read makes it the circuit that
\* was written, but for vector_operation_count, which is written and not read
\* back.  An object is changed only by its read's return.
Store == INSTANCE CircuitStore WITH
  objects <- [o \in Objects |->
                IF call.what = "read" /\ call.object = o THEN call.before
                ELSE circuits[o]]

ImplementsStore == Store!StoreSpec
=============================================================================
