------------------------------- MODULE MCSparse -------------------------------
(***************************************************************************)
(* Values for model checking SparseHashSet: keys whose hashes collide, at  *)
(* the same bucket and at the buckets other probes pass, and keys that do  *)
(* not collide in the smallest table.                                      *)
(***************************************************************************)
EXTENDS SparseHashSet

CONSTANTS a, b, k1, k2, k3, k4, k5

Keys5 == {k1, k2, k3, k4, k5}

\* In 16 buckets, one group, k1, k2 and k3 begin at the same one, in 32 only
\* two of them; k4 begins where their second probe goes, k5 at the last bucket.
Hashes == k1 :> 0 @@ k2 :> 16 @@ k3 :> 32 @@ k4 :> 1 @@ k5 :> 31

TwoSets == {a, b}
AnySet == Permutations(TwoSets)

NoneOrAll == {<<>>, <<k1, k2, k3, k4, k5>>}
SomeRanges == {<<k1, k2, k3>>, <<k5, k3, k5, k4>>}

\* Keys of their own buckets in the smallest table, which two of them fill as
\* far as it may be filled.
OwnBuckets == k1 :> 0 @@ k2 :> 1 @@ k3 :> 2 @@ k4 :> 3 @@ k5 :> 0
NoneAtFirst == {<<>>}
Pairs == {<<k1, k2>>, <<k3, k4>>}

Parameters == {<<20, 80>>, <<50, 50>>}
=============================================================================
