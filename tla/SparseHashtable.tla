----------------------------- MODULE SparseHashtable -----------------------------
(***************************************************************************)
(* sparse_hashtable of sparsepp (spp.h): open addressing with quadratic    *)
(* probing over a sparse table, erased buckets that stay in the way until  *)
(* a rehash, and growing and shrinking by thresholds.  A value is its own  *)
(* key, as in sparse_hash_set.  A hash table is a record of the table and  *)
(* of the settings; the operators are the member functions, each giving    *)
(* the record the call leaves.                                             *)
(***************************************************************************)
EXTENDS SparseTable

CONSTANTS
  Key,                            \* the values, each its own key
  Hash,                           \* hash of a key, before it is masked
  HT_MIN_BUCKETS,                 \* the smallest table that is ever grown (4)
  HT_DEFAULT_STARTING_BUCKETS,    \* buckets of a table made with no size (32)
  HT_OCCUPANCY_PCT,               \* how full before it grows (50)
  HT_EMPTY_PCT,                   \* how empty before it shrinks (20)
  LargestPower                    \* bound: tables have at most 2^LargestPower
                                  \* buckets (63 in the code)

power_of_two[n \in 0..LargestPower] ==
  IF n = 0 THEN 1 ELSE 2 * power_of_two[n - 1]

PowersOfTwo == {power_of_two[n] : n \in 0..LargestPower}

ASSUME HashtableAssumption ==
  /\ LargestPower \in Nat
  /\ Hash \in [Key -> Nat]
  /\ {HT_MIN_BUCKETS, HT_DEFAULT_STARTING_BUCKETS} \subseteq PowersOfTwo
  /\ 4 =< HT_MIN_BUCKETS /\ HT_MIN_BUCKETS =< HT_DEFAULT_STARTING_BUCKETS
  /\ HT_OCCUPANCY_PCT \in 1..99 /\ HT_EMPTY_PCT \in 0..HT_OCCUPANCY_PCT

(***************************************************************************)
(* Settings.                                                               *)
(***************************************************************************)
NewSettings ==
  [enlarge_threshold |-> 0, shrink_threshold |-> 0,
   enlarge_factor |-> HT_OCCUPANCY_PCT, shrink_factor |-> HT_EMPTY_PCT,
   consider_shrink |-> FALSE]

enlarge_size(s, x) == (x * s.enlarge_factor) \div 100
shrink_size(s, x) == (x * s.shrink_factor) \div 100

reset_thresholds(s, num_buckets) ==
  [s EXCEPT !.enlarge_threshold = enlarge_size(s, num_buckets),
            !.shrink_threshold = shrink_size(s, num_buckets),
            !.consider_shrink = FALSE]

\* A shrink factor above half the enlarge factor is cut to it.
set_resizing_parameters(s, shrink, grow) ==
  [s EXCEPT !.shrink_factor = IF 2 * shrink > grow THEN grow \div 2 ELSE shrink,
            !.enlarge_factor = grow]

\* The smallest power of two that is large enough and not too crowded.
min_buckets(s, num_elts, min_buckets_wanted) ==
  LET enough == {sz \in PowersOfTwo : /\ sz >= HT_MIN_BUCKETS
                                      /\ sz >= min_buckets_wanted
                                      /\ num_elts < enlarge_size(s, sz)}
  IN  CHOOSE sz \in enough : \A other \in enough : sz =< other

(***************************************************************************)
(* Probing.                                                                *)
(***************************************************************************)
bucket_count(ht) == ht.table.table_size
size(ht) == ht.table.num_buckets

\* (Mutant: squares, which do not reach every bucket of a power of two.)
Probe_squares(key, n, buckets) == (Hash[key] + n * n) % buckets

\* The bucket of the n-th probe: jumps of 1, 2, 3, ... from the hash.
Probe(key, n, buckets) == (Hash[key] + (n * (n + 1)) \div 2) % buckets

\* The probes a loop can make before the assertion on num_probes fails.
Probes(table) == 0..(table.table_size - 1)

\* The first probe that lands in one of the buckets, if any does.
Lands(table, key, stops) ==
  \E n \in Probes(table) : Probe(key, n, table.table_size) \in stops
FirstProbe(table, key, stops) ==
  CHOOSE n \in Probes(table) :
    /\ Probe(key, n, table.table_size) \in stops
    /\ \A m \in 0..(n - 1) : Probe(key, m, table.table_size) \notin stops

Free(table) == {b \in Probes(table) : ~test_strict(table, b)}
Holding(table, key) ==
  {b \in Probes(table) : test(table, b) /\ unsafe_get(table, b) = key}

\* (Mutant: the first erased bucket is taken before the key has been looked for.)
find_position_at_once(ht, key) ==
  LET stop == FirstProbe(ht.table, key, {b \in Probes(ht.table) : ~test(ht.table, b)}
                                           \cup Holding(ht.table, key))
      bucket == Probe(key, stop, bucket_count(ht))
  IN  [t |-> IF bucket \in Holding(ht.table, key) THEN "full"
             ELSE IF test_strict(ht.table, bucket) THEN "erased" ELSE "empty",
       idx |-> bucket]

\* Where the key is, or should go: the first erased bucket on the way to
\* the empty one that ends the search, if there is one.
find_position(ht, key) ==
  LET count  == bucket_count(ht)
      holds  == Holding(ht.table, key)
      stop   == FirstProbe(ht.table, key, Free(ht.table) \cup holds)
      bucket == Probe(key, stop, count)
      erased == {n \in 0..(stop - 1) : ~test(ht.table, Probe(key, n, count))}
  IN  IF bucket \in holds THEN [t |-> "full", idx |-> bucket]
      ELSE IF erased = {} THEN [t |-> "empty", idx |-> bucket]
      ELSE [t |-> "erased",
            idx |-> Probe(key, CHOOSE n \in erased :
                                 \A m \in erased : n =< m, count)]

\* (Mutant: an erased bucket ends the search.)
find_to_erased(ht, key) ==
  LET holds  == Holding(ht.table, key)
      bucket == Probe(key, FirstProbe(ht.table, key, holds \cup
                             {b \in Probes(ht.table) : ~test(ht.table, b)}),
                      bucket_count(ht))
  IN  IF bucket \in holds THEN get_iter(ht.table, bucket) ELSE EndOf(ht.table)

find(ht, key) ==
  LET holds  == Holding(ht.table, key)
      bucket == Probe(key, FirstProbe(ht.table, key, Free(ht.table) \cup holds),
                      bucket_count(ht))
  IN  IF bucket \in holds THEN get_iter(ht.table, bucket) ELSE EndOf(ht.table)

count(ht, key) == IF find_position(ht, key).t = "full" THEN 1 ELSE 0

(***************************************************************************)
(* Rehashing.                                                              *)
(***************************************************************************)
NewHashtable(buckets, settings) ==
  [settings |-> reset_thresholds(settings, buckets), num_deleted |-> 0,
   table |-> NewTable(buckets)]

\* The constructor, given how many items are expected.
Construct(expected) ==
  NewHashtable(IF expected = 0 THEN HT_DEFAULT_STARTING_BUCKETS
               ELSE min_buckets(NewSettings, expected, 0), NewSettings)

clear(ht) ==
  IF size(ht) # 0 \/ ht.num_deleted # 0
  THEN NewHashtable(HT_DEFAULT_STARTING_BUCKETS, ht.settings)
  ELSE [ht EXCEPT !.settings = reset_thresholds(@, bucket_count(ht))]

\* The bucket a rehashed or copied value goes to: the first one not full.
\* Erased ones are not looked for, a table that is filled anew has none.
Vacant(table, key) ==
  Probe(key, FirstProbe(table, key, {b \in Probes(table) : ~test(table, b)}),
        table.table_size)

CopyValues(table, values) ==
  LET after[n \in 0..Len(values)] ==
        IF n = 0 THEN table
        ELSE LET before == after[n - 1]
             IN  set(before, Vacant(before, values[n]), values[n])
  IN  after[Len(values)]

MoveValues(table, values) ==
  LET after[n \in 0..Len(values)] ==
        IF n = 0 THEN table
        ELSE LET before == after[n - 1]
             IN  move(before, Vacant(before, values[n]), values[n])
  IN  after[Len(values)]

\* Room for at least the values of another table, of a table just cleared.
Enlarged(ht, resize_to) ==
  IF resize_to > bucket_count(ht)
  THEN [ht EXCEPT !.table = resize_table(@, resize_to),
                  !.settings = reset_thresholds(@, resize_to)]
  ELSE ht

copy_from(self, ht, min_buckets_wanted) ==
  LET room == Enlarged(clear(self), min_buckets(self.settings, size(ht),
                                                min_buckets_wanted))
  IN  [room EXCEPT !.table = CopyValues(@, Elements(ht.table))]

\* The table that takes over the values of ht in a rehash.
move_from(ht, min_buckets_wanted) ==
  LET tmp  == NewHashtable(min_buckets_wanted, ht.settings)
      room == Enlarged(clear(tmp), min_buckets(ht.settings, size(ht),
                                               min_buckets_wanted))
  IN  [room EXCEPT !.table = MoveValues(@, destructive_elements(ht.table))]

maybe_shrink(ht) ==
  LET wide(sz) == sz > HT_DEFAULT_STARTING_BUCKETS
                    /\ size(ht) < shrink_size(ht.settings, sz)
      half == bucket_count(ht) \div 2
      stop == CHOOSE sz \in PowersOfTwo :
                /\ sz =< half /\ ~wide(sz)
                /\ \A other \in PowersOfTwo :
                     sz < other /\ other =< half => wide(other)
      wanted == /\ ht.settings.shrink_threshold > 0
                /\ size(ht) < ht.settings.shrink_threshold
                /\ bucket_count(ht) > HT_DEFAULT_STARTING_BUCKETS
  IN  [did |-> wanted,
       ht  |-> [(IF wanted THEN move_from(ht, stop) ELSE ht)
                  EXCEPT !.settings.consider_shrink = FALSE]]

\* The branch that would double again is never taken: the size from the
\* present one is at least the size from none.
resize_delta(ht0, delta) ==
  LET shrunk == IF ht0.settings.consider_shrink THEN maybe_shrink(ht0)
                ELSE [did |-> FALSE, ht |-> ht0]
      ht     == shrunk.ht
      needed == size(ht) + ht.num_deleted + delta
      to     == min_buckets(ht.settings, needed, bucket_count(ht))
  IN  IF \/ /\ bucket_count(ht) >= HT_MIN_BUCKETS
            /\ needed =< ht.settings.enlarge_threshold
         \/ min_buckets(ht.settings, needed, 0) =< bucket_count(ht)
      THEN shrunk
      ELSE [did |-> TRUE, ht |-> move_from(ht, to)]

resize(ht, req_elements) ==
  LET shrunk == IF ht.settings.consider_shrink \/ req_elements = 0
                THEN maybe_shrink(ht).ht ELSE ht
  IN  IF req_elements > size(shrunk)
      THEN resize_delta(shrunk, req_elements - size(shrunk)).ht ELSE shrunk

(***************************************************************************)
(* Insertion and erasure.                                                  *)
(***************************************************************************)
\* (Mutant: an erased bucket that is taken again is still counted.)
insert_at_uncounted(ht, key, pos, erased) == [ht EXCEPT !.table = set(@, pos, key)]

insert_at(ht, key, pos, erased) ==
  [ht EXCEPT !.num_deleted = IF erased THEN @ - 1 ELSE @,
             !.table = set(@, pos, key)]

insert_noresize(ht, key) ==
  LET pos == find_position(ht, key)
  IN  IF pos.t = "full" THEN ht
      ELSE insert_at(ht, key, pos.idx, pos.t = "erased")

insert(ht, key) == insert_noresize(resize_delta(ht, 1).ht, key)

\* insert of a range: room is made once, for all of it.
insert_range(ht, keys) ==
  LET after[n \in 0..Len(keys)] ==
        IF n = 0 THEN resize_delta(ht, Len(keys)).ht
        ELSE insert_noresize(after[n - 1], keys[n])
  IN  after[Len(keys)]

\* The search is made before there is room, and again if making it rehashed.
find_or_insert(ht, key) ==
  LET pos  == find_position(ht, key)
      room == resize_delta(ht, 1)
  IN  IF pos.t = "full" THEN ht
      ELSE IF room.did THEN insert_noresize(room.ht, key)
      ELSE insert_at(room.ht, key, pos.idx, pos.t = "erased")

AfterErase(ht, table, n) ==
  [ht EXCEPT !.table = table, !.num_deleted = @ + n,
             !.settings.consider_shrink = TRUE]

erase_key(ht, key) ==
  LET holds  == Holding(ht.table, key)
      bucket == Probe(key, FirstProbe(ht.table, key, Free(ht.table) \cup holds),
                      bucket_count(ht))
  IN  IF bucket \notin holds THEN ht
      ELSE AfterErase(ht, erase_bucket(ht.table, bucket), 1)

\* erase(it) and erase(f, l) of iterators that are not the end.
erase_iter(ht, it) == AfterErase(ht, erase_at(ht.table, it).table, 1)

erase_iters(ht, f, diff) ==
  LET left == erase_range(ht.table, f, diff).table
  IN  AfterErase(ht, left, size(ht) - left.num_buckets)

(***************************************************************************)
(* Whole tables.                                                           *)
(***************************************************************************)
CopyConstruct(ht) ==
  copy_from(NewHashtable(0, ht.settings), ht, HT_DEFAULT_STARTING_BUCKETS)

copy_assign(self, ht) ==
  copy_from([self EXCEPT !.settings = ht.settings,
                         !.num_deleted = ht.num_deleted], ht, HT_MIN_BUCKETS)

\* What swap leaves of a table on the other side, and what the move
\* constructor leaves of the table it takes: its own, new until the swap.
swapped(ht) == [ht EXCEPT !.settings = reset_thresholds(@, bucket_count(ht))]
moved_from(ht) == NewHashtable(HT_DEFAULT_STARTING_BUCKETS, ht.settings)

set_table_parameters(ht, shrink, grow) ==
  [ht EXCEPT !.settings = reset_thresholds(
                 set_resizing_parameters(@, shrink, grow), bucket_count(ht))]

unserialize_into(ht, fp, raw) ==
  LET table == unserialize(fp, raw).table
  IN  [settings |-> reset_thresholds(ht.settings, table.table_size),
       num_deleted |-> 0, table |-> table]

\* (Mutant: the sizes are not compared.)
EqualTables_subset(a, b) ==
  LET w == Elements(a.table)
  IN  \A n \in DOMAIN w : find(b, w[n]) # EndOf(b.table)

EqualTables(a, b) ==
  /\ size(a) = size(b)
  /\ LET w == Elements(a.table)
     IN  \A n \in DOMAIN w : find(b, w[n]) # EndOf(b.table)
=============================================================================
