------------------------------ MODULE SparseGroup ------------------------------
(***************************************************************************)
(* sparsegroup of sparsepp (spp.h): GROUP_SIZE logical buckets of which    *)
(* only the full ones take memory.  The values are packed in an array in   *)
(* the order of their buckets; a bitmap says which buckets are full and a  *)
(* second one which were full and have been erased.  A group is a record   *)
(* of the fields of the class, and `capacity`, the number of slots the     *)
(* allocator really gave the array.                                        *)
(*                                                                         *)
(* The values here are pointers (builder.h:276), which are relocatable, so *)
(* the reallocating variants of _set_aux and _group_erase_aux are the ones *)
(* the program has.                                                        *)
(***************************************************************************)
EXTENDS Integers, Sequences, SequencesExt

CONSTANT GROUP_SIZE     \* SPP_GROUP_SIZE, buckets of a group (32)

ASSUME GroupSizeAssumption == GROUP_SIZE \in {8, 16, 32, 64}

NewGroup ==
  [group |-> <<>>, bitmap |-> {}, bm_erased |-> {},
   num_buckets |-> 0, num_allocated |-> 0, capacity |-> 0]

\* The table of _sizing: the slots to allocate for n items, larger steps
\* first and smaller ones as the group fills up.
alloc_batch_size ==
  LET group_sz == GROUP_SIZE \div 4
      start[i \in 0..3] == IF i = 0 THEN GROUP_SIZE \div 8
                           ELSE LET larger == start[i - 1]
                                IN  IF larger > 2 THEN larger \div 2 ELSE larger
      data[n \in 1..GROUP_SIZE] ==
        LET quarter == start[(n - 1) \div group_sz]
        IN  IF n = 1 THEN start[0]
            ELSE data[n - 1] + (IF ((n - 1) % group_sz) % quarter = 0
                                THEN quarter ELSE 0)
  IN  data

sizing(n) == IF n = 0 THEN 0 ELSE alloc_batch_size[n]

allocate_group(g, n) ==
  [g EXCEPT !.num_allocated = sizing(n), !.capacity = sizing(n)]

\* alloc.reallocate in _set_aux and _group_erase_aux.
reallocate(g, num_alloc) ==
  [g EXCEPT !.num_allocated = num_alloc, !.capacity = num_alloc]

pos_to_offset(bm, pos) == Cardinality({i \in bm : i < pos})

\* The bucket of the value at an offset: the lowest bit is dropped `offset`
\* times, and the bits below the lowest one that is left are counted.
offset_to_pos(bm, offset) ==
  LET lowest(s) == CHOOSE i \in s : \A j \in s : i =< j
      rest[n \in 0..offset] ==
        IF n = 0 THEN bm
        ELSE LET bits == rest[n - 1]
             IN  IF bits = {} THEN {} ELSE bits \ {lowest(bits)}
      last == rest[offset]
  IN  IF last = {} THEN GROUP_SIZE ELSE lowest(last)

clear_group(g, erased) ==
  [NewGroup EXCEPT !.bm_erased = IF erased THEN {} ELSE g.bm_erased]

set_aux(g, offset, val) ==
  LET num_items == g.num_buckets
      room == IF num_items = sizing(num_items)
              THEN reallocate(g, sizing(num_items + 1)) ELSE g
  IN  [room EXCEPT !.group = InsertAt(@, offset + 1, val)]

set_in_group(g, i, val) ==
  LET offset == pos_to_offset(g.bitmap, i)
      clean  == [g EXCEPT !.bm_erased = @ \ {i}]
  IN  IF i \in g.bitmap
      THEN [clean EXCEPT !.group[offset + 1] = val]
      ELSE [set_aux(clean, offset, val) EXCEPT
              !.num_buckets = @ + 1, !.bitmap = @ \cup {i}]

\* (Mutant: the array never shrinks.)
group_erase_unshrunk(g, offset) == [g EXCEPT !.group = RemoveAt(@, offset + 1)]

group_erase(g, offset) ==
  LET fewer     == [g EXCEPT !.group = RemoveAt(@, offset + 1)]
      num_alloc == sizing(g.num_buckets - 1)
  IN  IF num_alloc # sizing(g.num_buckets)
      THEN reallocate(fewer, num_alloc) ELSE fewer

\* Both erase and erase_ne: the bucket is emptied and remembered as erased.
erase_pos(g, i, offset) ==
  LET emptied ==
        IF g.num_buckets =< 1
        THEN clear_group(g, FALSE)
        ELSE [group_erase(g, offset) EXCEPT
                !.num_buckets = @ - 1, !.bitmap = @ \ {i}]
  IN  [emptied EXCEPT !.bm_erased = @ \cup {i}]

erase_in_group(g, i) ==
  IF i \in g.bitmap THEN erase_pos(g, i, pos_to_offset(g.bitmap, i)) ELSE g

erase_ne(g, offset) == erase_pos(g, offset_to_pos(g.bitmap, offset), offset)

copy_group(x) ==
  LET bits == [NewGroup EXCEPT !.bitmap = x.bitmap, !.bm_erased = x.bm_erased]
  IN  IF x.num_buckets = 0 THEN bits
      ELSE [allocate_group(bits, x.num_buckets) EXCEPT
              !.num_buckets = x.num_buckets, !.group = x.group]

\* What a group writes of itself: the bitmap, not the erased one.
write_group_metadata(g) == g.bitmap

\* The array is allocated and its values, read later, are not there yet.
read_group_metadata(bits, raw) ==
  LET num_items == Cardinality(bits)
      sized == [NewGroup EXCEPT !.bitmap = bits, !.num_buckets = num_items]
  IN  IF num_items = 0 THEN sized
      ELSE [allocate_group(sized, num_items) EXCEPT
              !.group = [n \in 1..num_items |-> raw]]

\* What the class keeps true of a group.
GroupOK(g) ==
  /\ g.bitmap \subseteq 0..(GROUP_SIZE - 1)
  /\ g.bm_erased \subseteq 0..(GROUP_SIZE - 1)
  /\ g.bitmap \cap g.bm_erased = {}
  /\ g.num_buckets = Cardinality(g.bitmap) /\ Len(g.group) = g.num_buckets
  /\ g.num_buckets =< g.capacity /\ g.capacity = sizing(g.num_buckets)
  /\ g.num_allocated = g.capacity
  /\ \A i \in g.bitmap : offset_to_pos(g.bitmap, pos_to_offset(g.bitmap, i)) = i
=============================================================================
