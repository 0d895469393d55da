------------------------------ MODULE SparseTable ------------------------------
(***************************************************************************)
(* sparsetable of sparsepp (spp.h): an array of table_size buckets divided *)
(* into groups, of which the full ones can be walked with an iterator.  A  *)
(* table is a record of the fields of the class.  An iterator is the row   *)
(* of a group and the column of a value in its packed array; the end       *)
(* marker is the row after the last group.                                 *)
(***************************************************************************)
EXTENDS SparseGroup

CONSTANTS
  MAGIC_NUMBER,     \* the number a stream begins with
  FIRST4            \* the smallest number that does not fit in 4 bytes

ASSUME StreamAssumption ==
  MAGIC_NUMBER \in Nat /\ FIRST4 \in Nat /\ MAGIC_NUMBER + 1 < FIRST4

num_groups(num) == IF num = 0 THEN 0 ELSE ((num - 1) \div GROUP_SIZE) + 1
pos_in_group(i) == i % GROUP_SIZE
group_num(i) == i \div GROUP_SIZE
which_group(t, i) == t.groups[group_num(i) + 1]

NewTable(sz) ==
  [groups |-> [r \in 1..num_groups(sz) |-> NewGroup],
   table_size |-> sz, num_buckets |-> 0]

copy_table(o) == [o EXCEPT !.groups = [r \in DOMAIN @ |-> copy_group(@[r])]]

\* The groups that stay are moved, new ones are empty; the count is left.
resize_table(t, new_size) ==
  [t EXCEPT !.table_size = new_size,
            !.groups = [r \in 1..num_groups(new_size) |->
                          IF r \in DOMAIN @ THEN @[r] ELSE NewGroup]]

test(t, i) == pos_in_group(i) \in which_group(t, i).bitmap
test_strict(t, i) ==
  pos_in_group(i) \in which_group(t, i).bitmap \cup which_group(t, i).bm_erased

unsafe_get(t, i) ==
  LET g == which_group(t, i)
  IN  g.group[pos_to_offset(g.bitmap, pos_in_group(i)) + 1]

\* set counts what the group gained, move always one.
set(t, i, val) ==
  LET r == group_num(i) + 1
      g == set_in_group(t.groups[r], pos_in_group(i), val)
  IN  [t EXCEPT !.groups[r] = g,
                !.num_buckets = @ + g.num_buckets - t.groups[r].num_buckets]

move(t, i, val) ==
  [t EXCEPT !.groups[group_num(i) + 1] = set_in_group(@, pos_in_group(i), val),
            !.num_buckets = @ + 1]

\* GrpPos::erase, of a bucket known to be full.
erase_bucket(t, i) ==
  [t EXCEPT !.groups[group_num(i) + 1] = erase_in_group(@, pos_in_group(i)),
            !.num_buckets = @ - 1]

(***************************************************************************)
(* Iterators over the full buckets.                                        *)
(***************************************************************************)
EndOf(t) == [row |-> Len(t.groups) + 1, col |-> 0]

advance_past_end(t, it) ==
  LET later == {r \in (it.row + 1)..Len(t.groups) : t.groups[r].num_buckets # 0}
  IN  IF it.row > Len(t.groups) \/ it.col # t.groups[it.row].num_buckets
      THEN it
      ELSE IF later = {} THEN EndOf(t)
      ELSE [row |-> CHOOSE r \in later : \A s \in later : r =< s, col |-> 0]

BeginOf(t) == advance_past_end(t, [row |-> 1, col |-> 0])
increment(t, it) == advance_past_end(t, [it EXCEPT !.col = @ + 1])

\* operator--: back over the ends of rows to the last value before.
decrement(t, it) ==
  LET earlier == {r \in 1..(it.row - 1) : t.groups[r].num_buckets # 0}
      prev    == CHOOSE r \in earlier : \A s \in earlier : s =< r
  IN  IF it.row =< Len(t.groups) /\ it.col # 0
      THEN [it EXCEPT !.col = @ - 1]
      ELSE [row |-> prev, col |-> t.groups[prev].num_buckets - 1]

deref(t, it) == t.groups[it.row].group[it.col + 1]

get_iter(t, i) ==
  [row |-> group_num(i) + 1,
   col |-> pos_to_offset(which_group(t, i).bitmap, pos_in_group(i))]

get_pos(t, it) ==
  (it.row - 1) * GROUP_SIZE + offset_to_pos(t.groups[it.row].bitmap, it.col)

\* The iterators a loop over the table has, from begin() until end().
Walk(t) ==
  FlattenSeq([r \in DOMAIN t.groups |->
                [c \in 1..t.groups[r].num_buckets |->
                   [row |-> r, col |-> c - 1]]])

\* The values a loop over the table visits.
Elements(t) == LET w == Walk(t) IN [n \in DOMAIN w |-> deref(t, w[n])]

\* The values a rehash visits: group by group, each freed when it is left.
destructive_elements(t) ==
  FlattenSeq([r \in DOMAIN t.groups |-> t.groups[r].group])

\* (Mutant: the iterator may be left behind the last value of a row.)
erase_at_row_end(t, it) ==
  [table |-> [t EXCEPT !.groups[it.row] = erase_ne(@, it.col), !.num_buckets = @ - 1],
   it |-> it]

\* erase(it) and erase(f, l): each erasure gives the iterator to go on from.
erase_at(t, it) ==
  LET less == [t EXCEPT !.groups[it.row] = erase_ne(@, it.col),
                        !.num_buckets = @ - 1]
      col  == IF t.groups[it.row].num_buckets =< 1 THEN 0 ELSE it.col
  IN  [table |-> less, it |-> advance_past_end(less, [it EXCEPT !.col = col])]

erase_range(t, f, diff) ==
  LET step[n \in 0..diff] == IF n = 0 THEN [table |-> t, it |-> f]
                             ELSE LET from == step[n - 1]
                                  IN  erase_at(from.table, from.it)
  IN  step[diff]

(***************************************************************************)
(* Streams: a sequence of words, the metadata first, then the values in    *)
(* the order of the iterators.  A read of a stream that is too short       *)
(* fails, and leaves the table as far as it had been read.                 *)
(***************************************************************************)
write_32_or_64(value) == IF value < FIRST4 THEN <<value>> ELSE <<FIRST4, value>>

write_metadata(t) ==
  write_32_or_64(MAGIC_NUMBER)
    \o write_32_or_64(t.table_size) \o write_32_or_64(t.num_buckets)
    \o [r \in DOMAIN t.groups |-> write_group_metadata(t.groups[r])]

serialize(t) == write_metadata(t) \o Elements(t)

\* The number at the cursor, the cursor after it, and whether it was there.
read_32_or_64(fp, at) ==
  IF at > Len(fp) THEN [ok |-> FALSE, value |-> 0, at |-> at]
  ELSE IF fp[at] < FIRST4 THEN [ok |-> TRUE, value |-> fp[at], at |-> at + 1]
  ELSE IF at = Len(fp) THEN [ok |-> FALSE, value |-> 0, at |-> at]
  ELSE [ok |-> TRUE, value |-> fp[at + 1], at |-> at + 2]

\* read_metadata, of a table that unserialize has just cleared.
read_metadata(fp, raw) ==
  LET magic == read_32_or_64(fp, 1)
      size  == read_32_or_64(fp, magic.at)
      count == read_32_or_64(fp, size.at)
      none  == NewTable(0)
      sized == [resize_table(none, size.value) EXCEPT
                  !.num_buckets = count.value]
      rows  == Len(sized.groups)
      here  == IF Len(fp) - count.at + 1 < rows
               THEN Len(fp) - count.at + 1 ELSE rows
      read  == [sized EXCEPT !.groups = [r \in DOMAIN @ |->
                  IF r =< here
                  THEN read_group_metadata(fp[count.at + r - 1], raw)
                  ELSE @[r]]]
  IN  IF ~magic.ok \/ magic.value # MAGIC_NUMBER
      THEN [ok |-> FALSE, table |-> none, at |-> 0]
      ELSE IF ~size.ok
      THEN [ok |-> FALSE, table |-> none, at |-> 0]
      ELSE IF ~count.ok
      THEN [ok |-> FALSE, table |-> [none EXCEPT !.table_size = size.value],
            at |-> 0]
      ELSE [ok |-> here = rows, table |-> read, at |-> count.at + rows]

\* The value read for the n-th iterator is the n-th after the metadata.
unserialize(fp, raw) ==
  LET meta == read_metadata(fp, raw)
      w    == Walk(meta.table)
      word(r, c) == meta.at + (CHOOSE n \in DOMAIN w : w[n] = [row |-> r, col |-> c - 1]) - 1
      filled(r) == [c \in DOMAIN meta.table.groups[r].group |->
                      IF word(r, c) =< Len(fp) THEN fp[word(r, c)] ELSE raw]
  IN  IF ~meta.ok THEN [ok |-> FALSE, table |-> meta.table]
      ELSE [ok |-> meta.at + Len(w) - 1 =< Len(fp),
            table |-> [meta.table EXCEPT !.groups =
                         [r \in DOMAIN @ |-> [@[r] EXCEPT !.group = filled(r)]]]]

\* What the class keeps true of a table: the counts, and an iteration that
\* meets the full buckets, each once, in their order, forwards and back.
TableOK(t) ==
  LET w == Walk(t)
      full == {i \in 0..(t.table_size - 1) : test(t, i)}
  IN  /\ \A r \in DOMAIN t.groups : GroupOK(t.groups[r])
      /\ Len(t.groups) = num_groups(t.table_size)
      /\ t.num_buckets = Cardinality(full) /\ Len(w) = t.num_buckets
      /\ BeginOf(t) = IF w = <<>> THEN EndOf(t) ELSE w[1]
      /\ {get_pos(t, w[n]) : n \in DOMAIN w} = full
      /\ \A n \in DOMAIN w :
           /\ get_iter(t, get_pos(t, w[n])) = w[n]
           /\ unsafe_get(t, get_pos(t, w[n])) = deref(t, w[n])
           /\ increment(t, w[n]) = IF n = Len(w) THEN EndOf(t) ELSE w[n + 1]
           /\ decrement(t, increment(t, w[n])) = w[n]
           /\ n > 1 => get_pos(t, w[n - 1]) < get_pos(t, w[n])
=============================================================================
