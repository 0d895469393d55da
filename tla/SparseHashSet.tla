----------------------------- MODULE SparseHashSet -----------------------------
(***************************************************************************)
(* Sets of sparsepp in use: every sparse_hash_set holds a hash table, and  *)
(* an action is one call of its interface (sparse_hash_map forwards to the *)
(* same table).  A set can be written to a stream and read back; a reading *)
(* can be cut short or meet a stream of something else, and then the set   *)
(* may only be read again.                                                 *)
(***************************************************************************)
EXTENDS SparseHashtable

CONSTANTS
  Set,              \* the sets of the program
  Expected,         \* sizes a set may be constructed with
  FirstRanges,      \* sequences of keys a set may be constructed with
  Ranges,           \* sequences of keys inserted as a range
  Requests,         \* sizes given to resize
  ResizingParams,   \* pairs of shrink and grow factors, in percent
  SerializeErased,  \* whether a set with erased buckets may be written
  MaxOps            \* bound: calls in a behaviour

ASSUME SetAssumption ==
  /\ Expected \subseteq Nat /\ Requests \subseteq Nat
  /\ Ranges \cup FirstRanges \subseteq Seq(Key)
  /\ ResizingParams \subseteq (0..99) \X (1..99)
  /\ SerializeErased \in BOOLEAN
  /\ MaxOps \in Nat

\* The largest table has room for what MaxOps calls can bring, n keys each.
ASSUME RoomAssumption ==
  \E n \in 1..power_of_two[LargestPower] :
    /\ \A keys \in Ranges \cup FirstRanges : Len(keys) =< n
    /\ \A m \in Expected \cup Requests : m =< n
    /\ \A grow \in {HT_OCCUPANCY_PCT} \cup {p[2] : p \in ResizingParams} :
         (MaxOps + 1) * n < (power_of_two[LargestPower] * grow) \div 100

VARIABLES
  ht,      \* the hash table of every set
  ok,      \* FALSE after a reading that failed
  disk,    \* the stream last written, <<>> before
  ops,     \* calls made
  contents, stored,   \* what AbstractHashSet says of the same calls
  spoilt   \* history: the sets whose erased buckets nobody may be counting

vars == <<ht, ok, disk, ops, contents, stored, spoilt>>

\* What the sets hold is told by the abstract sets, which every call is a
\* step of.
Abstract == INSTANCE AbstractHashSet WITH valid <- ok

\* A value that has been allocated and not read.
Raw == "raw"

\* A set is constructed with an expected size, and with a range of keys.
NewSet(n, keys) == insert_range(Construct(n), keys)

Init ==
  \E made \in [Set -> Expected \X FirstRanges] :
    /\ ht = [s \in Set |-> NewSet(made[s][1], made[s][2])]
    /\ Abstract!AInit([s \in Set |-> ToSet(made[s][2])])
    /\ disk = <<>>
    /\ ops = 0
    /\ spoilt = {}

\* A call that changes one set.  It is spoilt by the calls marked below only,
\* and once it is, what is known of it is not asked again: when all buckets are
\* full or marked a search does not end (an assertion, or a loop for ever), and
\* the models of the searches choose any bucket.
Call == ops < MaxOps /\ ops' = ops + 1
Changes(s, new) == Call /\ ht' = [ht EXCEPT ![s] = new] /\ UNCHANGED disk
Becomes(s, new) == Changes(s, new) /\ UNCHANGED spoilt

\* s is made of other sets, and spoilt when `bad` says so.
MadeOf(s, bad) == spoilt' = IF bad THEN spoilt \cup {s} ELSE spoilt \ {s}

Insert(s, key) == Abstract!AAdd(s, {key}) /\ Becomes(s, insert(ht[s], key))
InsertRange(s, keys) ==
  Abstract!AAdd(s, ToSet(keys)) /\ Becomes(s, insert_range(ht[s], keys))
FindOrInsert(s, key) ==
  Abstract!AAdd(s, {key}) /\ Becomes(s, find_or_insert(ht[s], key))
EraseKey(s, key) ==
  Abstract!ARemove(s, {key}) /\ Becomes(s, erase_key(ht[s], key))

\* erase(it) of the iterator that a walk over the set has after n - 1 steps.
EraseAt(s, n) ==
  LET walk == Walk(ht[s].table)
  IN  /\ n \in DOMAIN walk
      /\ Abstract!ARemove(s, {deref(ht[s].table, walk[n])})
      /\ Becomes(s, erase_iter(ht[s], walk[n]))

\* erase(f, l) of two of them, the second one possibly the end.
EraseRange(s, n, last) ==
  LET walk == Walk(ht[s].table)
  IN  /\ n \in DOMAIN walk /\ last \in n..(Len(walk) + 1)
      /\ Abstract!ARemove(s, {deref(ht[s].table, walk[m]) : m \in n..(last - 1)})
      /\ Becomes(s, erase_iters(ht[s], walk[n], last - n))

Clear(s) == Abstract!ARemove(s, Key) /\ Becomes(s, clear(ht[s]))
Resize(s, n) == Abstract!ARemove(s, {}) /\ Becomes(s, resize(ht[s], n))
SetResizingParameters(s, p) ==
  Abstract!ARemove(s, {}) /\ Becomes(s, set_table_parameters(ht[s], p[1], p[2]))

\* The old set is destroyed, a new one made in its place as a copy.
MakeCopy(s, u) ==
  /\ s # u
  /\ Abstract!ACopy(s, u)
  /\ Changes(s, CopyConstruct(ht[u]))
  /\ MadeOf(s, u \in spoilt)

\* operator= puts the other set's num_deleted in the place of the own before
\* clear() decides by it whether there is anything to clear (spp.h:2961): a set
\* without elements, assigned from one without erased buckets, keeps its marks,
\* and nobody counts them.
KeepsMarks(s, u) ==
  size(ht[s]) = 0 /\ ht[s].num_deleted # 0 /\ ht[u].num_deleted = 0

\* Assigned to itself a set is left alone.
Assign(s, u) ==
  /\ s # u
  /\ Abstract!ACopy(s, u)
  /\ Changes(s, copy_assign(ht[s], ht[u]))
  /\ MadeOf(s, s \in spoilt \/ u \in spoilt \/ KeepsMarks(s, u))

\* swap, and the assignment that moves.
Swap(s, u) ==
  /\ s # u
  /\ Call /\ Abstract!AExchange(s, u)
  /\ ht' = [ht EXCEPT ![s] = swapped(ht[u]), ![u] = swapped(ht[s])]
  /\ spoilt' = {t \in Set : (IF t = s THEN u ELSE IF t = u THEN s ELSE t) \in spoilt}
  /\ UNCHANGED disk

\* Made in the place of an old set from one that is left with a new table.
MakeMoved(s, u) ==
  /\ Call /\ Abstract!ATake(s, u)
  /\ ht' = [ht EXCEPT ![s] = swapped(ht[u]), ![u] = moved_from(ht[u])]
  /\ MadeOf(s, u \in spoilt)
  /\ UNCHANGED disk

Serialize(s) ==
  /\ SerializeErased \/ (ht[s].num_deleted = 0 /\ s \notin spoilt)
  /\ Call /\ Abstract!AStore(s)
  /\ disk' = serialize(ht[s].table)
  /\ UNCHANGED <<ht, spoilt>>

\* Streams that end early, and one that does not begin with the magic number.
BadStreams == {SubSeq(disk, 1, n) : n \in 0..(Len(disk) - 1)}
                \cup {<<MAGIC_NUMBER + 1>> \o Tail(disk)}

Unserialize(s, fp) ==
  /\ disk # <<>>
  /\ IF unserialize(fp, Raw).ok THEN Abstract!ALoad(s)
     ELSE Abstract!AFailToLoad(s)
  /\ Becomes(s, unserialize_into(ht[s], fp, Raw))

Next ==
  \E s \in Set :
    \/ \E key \in Key : \/ Insert(s, key) \/ FindOrInsert(s, key)
                        \/ EraseKey(s, key)
    \/ \E keys \in Ranges : InsertRange(s, keys)
    \/ \E n \in 1..size(ht[s]) :
         \/ EraseAt(s, n)
         \/ \E last \in n..(size(ht[s]) + 1) : EraseRange(s, n, last)
    \/ Clear(s)
    \/ \E n \in Requests : Resize(s, n)
    \/ \E p \in ResizingParams : SetResizingParameters(s, p)
    \/ \E u \in Set : MakeCopy(s, u) \/ Assign(s, u) \/ Swap(s, u) \/ MakeMoved(s, u)
    \/ Serialize(s)
    \/ disk # <<>> /\ \E fp \in {disk} \cup BadStreams : Unserialize(s, fp)

Spec == Init /\ [][Next]_vars

(***************************************************************************)
(* Properties.                                                             *)
(***************************************************************************)
Usable == {s \in Set : ok[s]}

\* The sets that may be used and were not assigned to over marks, nor come of
\* one that was.  The properties are of them; of all sets see EverySearchEnds.
Whole == Usable \ spoilt

\* The shape of the state: packed groups, counts, thresholds (GroupOK,
\* TableOK): in particular num_allocated is always what _sizing gives, which
\* _set_aux and _group_erase_aux take for granted when they reallocate.
SparseTypeOK ==
  /\ \A s \in Whole : TableOK(ht[s].table)
  /\ ops \in 0..MaxOps

\* The buckets marked as erased.
Marks(t) == {b \in Probes(t) : test_strict(t, b) /\ ~test(t, b)}

\* num_deleted is the number of buckets marked as erased, which
\* assert(num_deleted) in _insert_at relies on (spp.h:3171): through rehashes,
\* copies, swaps and readings no mark is lost or left behind uncounted, with
\* the one exception of an assignment to a set that was emptied by erasing.
ErasedCounted ==
  \A s \in Whole : ht[s].num_deleted = Cardinality(Marks(ht[s].table))

\* Every search ends: a probe for any key meets a bucket that is neither full
\* nor erased before the assertion "Hashtable is full" (spp.h:3053).  It is by
\* counting the marks that a table is rehashed before they fill it, so that
\* this, too, is of the sets whose marks are counted.
SearchesEnd ==
  \A s \in Whole : \A key \in Key :
    Lands(ht[s].table, key, Free(ht[s].table))

\* The assertion itself, for all sets: a search for a key meets a bucket that
\* is free, or the key (spp.h:3052, 3082).
EverySearchEnds ==
  \A s \in Usable : \A key \in Key :
    Lands(ht[s].table, key, Free(ht[s].table) \cup Holding(ht[s].table, key))

\* Every call does to the keys what it promises, whatever rehash it makes:
\* the iterators meet each key once, and a stream gives back what was written.
HoldsContents ==
  \A s \in Whole : /\ ToSet(Elements(ht[s].table)) = contents[s]
                   /\ size(ht[s]) = Cardinality(contents[s])

\* find and count agree with the iterators: a key is never behind an empty
\* bucket where find (spp.h:3061) gives up.
LookupsAgree ==
  \A s \in Whole : \A key \in Key :
    LET it == find(ht[s], key)
    IN  /\ IF key \in contents[s]
           THEN it # EndOf(ht[s].table) /\ deref(ht[s].table, it) = key
           ELSE it = EndOf(ht[s].table)
        /\ count(ht[s], key) = IF key \in contents[s] THEN 1 ELSE 0

\* erase(it) returns the iterator of the element that followed (spp.h:3346),
\* although the group has moved its values and may have been reallocated: a
\* loop that erases as it goes neither skips an element nor meets one twice.
EraseContinues ==
  \A s \in Whole :
    LET table == ht[s].table
        all   == Elements(table)
    IN  \A n \in DOMAIN all :
          LET left == erase_at(table, Walk(table)[n])
          IN  /\ Elements(left.table) = RemoveAt(all, n)
              /\ left.it = IF n = Len(all) THEN EndOf(left.table)
                           ELSE Walk(left.table)[n]

\* operator== says whether the sets hold the same keys, wherever their
\* buckets are and however often they were rehashed (spp.h:3382).
EqualityIsOfContents ==
  \A s, u \in Whole : EqualTables(ht[s], ht[u]) = (contents[s] = contents[u])
=============================================================================
