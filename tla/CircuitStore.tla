----------------------------- MODULE CircuitStore -----------------------------
(***************************************************************************)
(* What FCircuit's write and read (include/circuitpp/finalized.h) promise  *)
(* together, without bytes: write keeps a copy of a circuit, read makes an *)
(* object equal to the copy but for its vector_operation_count, which read *)
(* leaves as it was.                                                       *)
(***************************************************************************)
CONSTANTS
  Objects,      \* the FCircuit objects of the program
  Circuits,     \* the circuits the program obtains: from build(), or new
  NewCircuit    \* an FCircuit just constructed

VARIABLES
  objects,      \* the value of each object
  saved         \* what was written last: a set of at most one circuit

storeVars == <<objects, saved>>

StoreInit ==
  /\ objects = [o \in Objects |-> NewCircuit]
  /\ saved = {}

Obtain(o) ==
  /\ \E c \in Circuits : objects' = [objects EXCEPT ![o] = c]
  /\ UNCHANGED saved

Write(o) ==
  /\ saved' = {objects[o]}
  /\ UNCHANGED objects

Read(o) ==
  /\ \E c \in saved :
       objects' = [objects EXCEPT ![o] =
         [c EXCEPT !.vector_operation_count = objects[o].vector_operation_count]]
  /\ UNCHANGED saved

StoreNext == \E o \in Objects : Obtain(o) \/ Write(o) \/ Read(o)

StoreSpec == StoreInit /\ [][StoreNext]_storeVars
=============================================================================
